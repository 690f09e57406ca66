---------------------------- MODULE MCRenderSkip ----------------------------
(* Two pages of two cells.  Where DLISTL and DLISTH point, the first       *)
(* memory holds a list of one mode line in a page of its own, a list       *)
(* without LMS, or one that runs on through all of it; the second begins   *)
(* with a jump, or shows a blank mode line first; the third has a jump to  *)
(* a mode line without LMS in another page.  The store changes data of the *)
(* first, takes away the JVB of the second and replaces the jump of the    *)
(* third.                                                                  *)
EXTENDS RenderSkip, Sequences

Blank(n, d)   == [kind |-> "blank", lines |-> n, addr |-> NoAddr, dli |-> d]
Show(n, a, d) == [kind |-> "show", lines |-> n, addr |-> a, dli |-> d]
Jmp(a)        == [kind |-> "jmp", lines |-> 0, addr |-> a, dli |-> TRUE]
Jvb(a)        == [kind |-> "jvb", lines |-> 0, addr |-> a, dli |-> TRUE]

Cells(s) == [a \in Addrs |-> s[a + 1]]

MCLists == {
    Cells(<<Show(2, 3, TRUE), Jvb(0), Show(1, NoAddr, TRUE),
            Blank(1, FALSE)>>),
    Cells(<<Jmp(2), Blank(2, TRUE), Show(1, 1, TRUE), Jvb(2)>>),
    Cells(<<Show(1, NoAddr, FALSE), Jvb(3), Blank(1, FALSE), Jmp(0)>>)}

MCPokes == {<<3, Show(2, 0, FALSE)>>}
=============================================================================
