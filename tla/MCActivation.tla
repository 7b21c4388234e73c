------------------------------ MODULE MCActivation ------------------------------
(* Small instances of Activation for TLC. *)
EXTENDS Activation

MCAccesses == {{}, {"WRITE"}, {"EXECUTE"}, {"WRITE", "USER"}, {"USER", "EXECUTE", "GLOBAL"},
               {"WRITE", "USER", "EXECUTE", "GLOBAL"}}

AllMetas == X86Metas \cup Rv64Metas \cup A64Metas
Svpbmt48 == [meta |-> "Rv64Meta48", svpbmt |-> TRUE]

MCBootFormats == {[meta |-> m, svpbmt |-> FALSE] : m \in {"X86Meta57", "A64Meta4K48"}} \cup {Svpbmt48}

Root(id, shape, aligned, bits) == [id |-> id, shape |-> shape, aligned |-> aligned, bits |-> bits]

\* Two roots of one shape, one of another, and two that do not fit a register.
MCRoots ==
  {Root("r1", 1, TRUE, 40), Root("r2", 1, TRUE, 48), Root("r3", 2, TRUE, 40),
   Root("low", 1, FALSE, 40), Root("high", 1, TRUE, 57)}
===============================================================================
