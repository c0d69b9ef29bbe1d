--------------------------- MODULE MCMessageTable ---------------------------
(* MessageTable with model values for TLC. *)
EXTENDS MessageTable, TLC

\* No message, one of another user's, or one of each of two others; messages of
\* one's own come by being sent.
ShortDocuments ==
    {<< >>} \cup {<<u>> : u \in Other}
            \cup {<<p[1], p[2]>> : p \in {q \in Other \X Other : q[1] # q[2]}}

\* Users are interchangeable, and so are the cells.
UsersAndCells == Permutations(Other) \cup Permutations(Cell)

\* Nothing but the label depends on what has been on a label: the run of the
\* invariants that do not name it takes states that differ there as one.
ButLabels ==
    <<messenger, open, told,
      [c \in Cell |-> <<cells[c].row, cells[c].imageAvatar>>],
      mainQueue, model, asked, unseen>>
=============================================================================
