--------------------------- MODULE MC_ReleaseLoop ---------------------------
(***************************************************************************)
(* A run whose main branch and two candidates are verified by a build and  *)
(* an end-to-end gate, both hard; only the build is required by name.      *)
(***************************************************************************)
EXTENDS ReleaseLoop, TLC

MCProduct(status) ==
  [present |-> TRUE, class |-> "product_defect", severity |-> "blocking", status |-> status,
   allowed |-> {"src"}]
MCOutput(outcome, product, status, e2e, writes) ==
  [outcome |-> outcome, content |-> product,
   findings |-> [f \in FindingIds |-> IF f = 1 THEN MCProduct(status) ELSE NoFinding],
   gates |-> [g \in GateIds |-> [status |-> IF g = "e2e" THEN e2e ELSE "passed", hard |-> TRUE]],
   evidence |-> EvidenceIds, marked |-> {}, writes |-> writes, scopeViolations |-> 0,
   withinLimits |-> TRUE]

\* A second defect, which nobody may write anything for.
MCAlso(output) ==
  [output EXCEPT !.findings[4] = [MCProduct("open") EXCEPT !.allowed = {}]]

\* The defect is found, by itself or with the second; it is gone; it is gone and
\* the end-to-end gate is not passed.
MCOutputs ==
  UNION {{MCOutput("failed", c, "open", "failed", {}), MCAlso(MCOutput("failed", c, "open", "failed", {})),
          MCOutput("passed", c, "resolved", "passed", {"src"}),
          MCOutput("passed", c, "resolved", "error", {})} : c \in Contents}
MCSymmetry == Permutations(Branches \ {Main}) \cup Permutations(Contents)
MCRequiredOf == [v \in Verifiers |-> EvidenceIds]
=============================================================================
