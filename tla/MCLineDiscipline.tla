-------------------------- MODULE MCLineDiscipline --------------------------
(* Small instances of LineDiscipline.  At boot a buffer is blank or holds  *)
(* a newline left from older use of the stack, behind the first cell.      *)
EXTENDS LineDiscipline

MCBootContents ==
    {Blank, [i \in Index |-> CASE i = 1 -> NewLine [] i = 2 -> NUL [] OTHER -> Space]}
MCRequests == {-1, KEYBOARD_BUFFER_SIZE - 1, KEYBOARD_BUFFER_SIZE}

=============================================================================
