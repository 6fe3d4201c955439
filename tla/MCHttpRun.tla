------------------------------- MODULE MCHttpRun -------------------------------
(***************************************************************************)
(* Instances of HttpRun: three request commands; two of them and a run of  *)
(* the stored request; two runs that share one report directory.           *)
(***************************************************************************)
EXTENDS HttpRun

CONSTANTS c1, c2, c3, u1, u2, r1, d, t

MCClients == {c1, c2, c3}
MCShort == {c2}
MCIds == {r1}
MCRuns == {u1, u2}
MCSourceOf == [r \in MCRuns |-> IF r = u1 THEN r1 ELSE NoFile]
MCDirs == {d}
MCStamps == {t}
MCDirOf == [r \in MCRuns |-> d]
MCTeams == {{c1, c2, c3}, {c1, c2, u1}, {u1, u2}}
===============================================================================
