-------------------------- MODULE SourceRegistryMC --------------------------
(* Bounded data for the run of SourceRegistry.                             *)
EXTENDS SourceRegistry

CONSTANTS z1, c1, w1

FourSources == 1..4
OneZone == {z1}
OneCode == {c1}
OneWalk == {w1}
OneOrTwo == {1, 2}
=============================================================================
