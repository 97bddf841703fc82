----------------------------- MODULE MCFixTable -----------------------------
(* Three packages, six rows, and terminals from too small to ample. *)
EXTENDS FixTable

package(vulns, fixable, name, id, fix) ==
  [vulns |-> vulns, fixable |-> fixable,
   width |-> [package |-> name, vuln |-> id, severity |-> 8, installed |-> 11, fixTo |-> fix]]
MCTargets == << package(2, TRUE, 12, 14, 13), package(0, FALSE, 25, 0, 0), package(3, TRUE, 9, 19, 5) >>
MCSizes == {<<45, 30>>, <<100, 12>>, <<46, 13>>, <<60, 15>>, <<69, 14>>, <<120, 40>>}
=============================================================================
