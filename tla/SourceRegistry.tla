--------------------------- MODULE SourceRegistry ---------------------------
(***************************************************************************)
(* Water sources, protection zones and monitoring stations, and the paged  *)
(* listing of sources (source.Service and its repository).                 *)
(*                                                                         *)
(* A registration is one transaction.  A walk is a client that asks for    *)
(* the first page of sources and then follows next_cursor; each page is a  *)
(* query of its own, and sources are registered and switched on and off    *)
(* between two pages.  Ids are random UUIDs, here natural numbers: a new   *)
(* source may sort before or after the cursor.                             *)
(***************************************************************************)
EXTENDS Naturals, SequencesExt

CONSTANTS
    Sources,     \* ids of water sources, positive
    Zones,       \* ids of protection zones
    Codes,       \* codes of monitoring stations (UNIQUE in an organization)
    Walks,       \* clients listing sources
    Limits,      \* page sizes they ask for
    None,        \* no row, no walk
    MaxVersion   \* bound on the version of a source

ASSUME SourceRegistryAssumption ==
    /\ Sources \subseteq Nat \ {0} /\ IsFiniteSet(Sources)
    /\ Limits \subseteq Nat \ {0}
    /\ None \notin Sources
    /\ MaxVersion \in Nat

VARIABLES
    source,    \* water_sources
    zone,      \* protection_zones: the source each belongs to
    station,   \* monitoring_stations: source and zone, by code
    walk       \* per client: what it asked for and was told so far

vars == <<source, zone, station, walk>>

-----------------------------------------------------------------------------
SourceRow == [active : BOOLEAN, version : Nat \ {0}]
StationRow == [source : Sources, zone : Zones]

ASSUME NoRowIsNone == None \notin SourceRow

\* `due' are the sources that have matched the listing since it began.
WalkState == [activeOnly : BOOLEAN, cursor : {0} \cup Sources, more : BOOLEAN,
              listed : Seq(Sources), due : SUBSET Sources]

Init ==
    /\ source = [s \in Sources |-> None]
    /\ zone = [z \in Zones |-> None]
    /\ station = [c \in Codes |-> None]
    /\ walk = [w \in Walks |-> None]

Registered == {s \in Sources : source[s] # None}
Active(s) == source[s] # None /\ source[s].active

-----------------------------------------------------------------------------
\* Mutant of NewSource: the version is left at its zero value.
NewSourceUnversioned(active) == [active |-> active, version |-> 0]

NewSource(active) == [active |-> active, version |-> 1]

(* Service.RegisterWaterSource, by a supervisor.                           *)
RegisterWaterSource(s) ==
    /\ source[s] = None
    /\ source' = [source EXCEPT ![s] = NewSource(TRUE)]
    /\ UNCHANGED <<zone, station, walk>>

(* Service.RegisterZone.                                                   *)
RegisterZone(z, s) ==
    /\ zone[z] = None
    /\ Active(s)
    /\ zone' = [zone EXCEPT ![z] = s]
    /\ UNCHANGED <<source, station, walk>>

(* No operation deactivates a zone.                                        *)
MayRegisterStation(s, z) == Active(s) /\ zone[z] = s

(* Service.RegisterStation.                                                *)
RegisterStation(c, s, z) ==
    /\ station[c] = None
    /\ MayRegisterStation(s, z)
    /\ station' = [station EXCEPT ![c] = [source |-> s, zone |-> z]]
    /\ UNCHANGED <<source, zone, walk>>

\* A walk over active sources owes its client no source that is switched off.
StillDue(w, s, active) ==
    IF walk[w] = None THEN None
    ELSE [walk[w] EXCEPT !.due = IF walk[w].activeOnly /\ ~active THEN @ \ {s} ELSE @]

(* UpdateSourceActive, for a caller who has seen the present version.  The *)
(* Store offers it, and no service of the program calls it yet.            *)
UpdateSourceActive(s, expectedVersion, active) ==
    /\ s \in Registered
    /\ source[s].version = expectedVersion
    /\ expectedVersion < MaxVersion
    /\ source' = [source EXCEPT ![s] = [active |-> active, version |-> @.version + 1]]
    /\ walk' = [w \in Walks |-> StillDue(w, s, active)]
    /\ UNCHANGED <<zone, station>>

-----------------------------------------------------------------------------
Matching(activeOnly) == {s \in Registered : activeOnly => source[s].active}

\* ORDER BY id: the n-th row is the one with n rows up to it.
InOrder(ids) ==
    [n \in 1..Cardinality(ids) |-> CHOOSE s \in ids : Cardinality({t \in ids : t <= s}) = n]

After(w) == {s \in Matching(walk[w].activeOnly) : s > walk[w].cursor}

(* The rows the query returns: one more than the page holds.               *)
Rows(w, limit) ==
    LET sorted == InOrder(After(w))
    IN  SubSeq(sorted, 1, IF Len(sorted) <= limit THEN Len(sorted) ELSE limit + 1)

StartWalk(w, activeOnly) ==
    /\ walk[w] = None
    /\ walk' = [walk EXCEPT ![w] = [activeOnly |-> activeOnly, cursor |-> 0, more |-> TRUE,
                                    listed |-> <<>>, due |-> Matching(activeOnly)]]
    /\ UNCHANGED <<source, zone, station>>

\* Mutant of NextCursor: the cursor is the extra row, which the next page
\* then leaves out.
NextCursorExtraRow(rows, limit) == rows[limit + 1]

NextCursor(rows, limit) == rows[limit]

(* ListWaterSources with the cursor of the page before.  Without the extra *)
(* row there is no next_cursor and the walk is over.                       *)
NextPage(w, limit) ==
    LET rows == Rows(w, limit)
        more == Len(rows) > limit
    IN
    /\ walk[w] # None /\ walk[w].more
    /\ walk' = [walk EXCEPT
          ![w].more = more,
          ![w].cursor = IF more THEN NextCursor(rows, limit) ELSE @,
          ![w].listed = @ \o (IF more THEN SubSeq(rows, 1, limit) ELSE rows)]
    /\ UNCHANGED <<source, zone, station>>

-----------------------------------------------------------------------------
RegistryStep ==
    \E s \in Sources :
        \/ RegisterWaterSource(s)
        \/ \E z \in Zones : RegisterZone(z, s) \/ \E c \in Codes : RegisterStation(c, s, z)
        \/ \E version \in 1..MaxVersion, active \in BOOLEAN :
              UpdateSourceActive(s, version, active)

WalkStep ==
    \E w \in Walks :
        \/ \E activeOnly \in BOOLEAN : StartWalk(w, activeOnly)
        \/ \E limit \in Limits : NextPage(w, limit)

Next == RegistryStep \/ WalkStep

Spec == Init /\ [][Next]_vars

-----------------------------------------------------------------------------
TypeOK ==
    /\ source \in [Sources -> SourceRow \cup {None}]
    /\ zone \in [Zones -> Sources \cup {None}]
    /\ station \in [Codes -> StationRow \cup {None}]
    /\ walk \in [Walks -> WalkState \cup {None}]

(* Following next_cursor lists every source that was there all along       *)
(* exactly once, in order, whatever is registered or switched meanwhile    *)
(* and however the page size varies: up to the cursor nothing due is       *)
(* missing, and at the end nothing at all.                                 *)
WalksAreComplete ==
    \A w \in Walks : walk[w] # None =>
        LET listed == walk[w].listed IN
        /\ \A n, m \in DOMAIN listed : n < m => listed[n] < listed[m]
        /\ {s \in walk[w].due : walk[w].more => s <= walk[w].cursor} \subseteq ToSet(listed)
=============================================================================
