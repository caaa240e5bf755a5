---------------------------- MODULE MCTaskSwitch ----------------------------
(* TLC instances of TaskSwitch. *)
EXTENDS TaskSwitch

\* The places of execute and halt a switch leaves consistent.
SafePoints == {"idle", "io", "e_alloc", "e_init", "e_cur", "e_page", "e_load", "e_tss",
               "e_iret", "IRET_OUT", "h_test", "h_free"}
LivePoints == {"idle", "io", "e_init", "h_test"}

OneProgram  == {"shell"}
TwoPrograms == {"shell", "cat"}
=============================================================================
