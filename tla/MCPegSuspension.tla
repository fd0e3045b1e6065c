-------------------------- MODULE MCPegSuspension --------------------------
(***************************************************************************)
(* Two wrappers, one of which may price XCH, and the pairs they make.      *)
(***************************************************************************)
EXTENDS PegSuspensionProps

CONSTANTS W, B,         \* a bridged dollar, and one that prefers its market cross
          XW, WB        \* XCH against the one, and the two against each other

MCLegs == [p \in {XW, WB} |-> IF p = XW THEN {W} ELSE {W, B}]
============================================================================
