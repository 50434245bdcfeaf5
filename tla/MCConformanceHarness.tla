----------------------- MODULE MCConformanceHarness -------------------------
(* Two tests that may be given the same port or not.                        *)
EXTENDS ConformanceHarness

CONSTANTS t1, t2, p1, p2

MCTest == {t1, t2}
MCPort == {p1, p2}
=============================================================================
