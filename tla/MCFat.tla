-------------------------------- MODULE MCFat -------------------------------
(***************************************************************************)
(* Small volumes for Fat: Plain has two files under short names; the other *)
(* trees have one in the root directory and one in a directory below it,   *)
(* under names of each length that matters, next to a deleted one.         *)
(***************************************************************************)
EXTENDS Fat

CONSTANTS f1, f2

Called(long, short, is) == [long |-> long, short |-> short, is |-> is, deleted |-> FALSE]
Gone(long) == [long |-> long, short |-> <<"e">>, is |-> NotThere, deleted |-> TRUE]

Both == {<<<<>>, <<"A">>>>, <<<<"a", "b">>, <<"b">>>>, <<<<"A", "b", "a">>, <<"c">>>>,
         <<<<"a", "b", "a", "b">>, <<"d">>>>}

MCPlain == (Root :> <<Called(<<>>, <<"a">>, f1), Called(<<>>, <<"b">>, f2)>>) @@ (Sub :> <<>>)

Before == {<<>>, <<Gone(<<>>)>>, <<Gone(<<"b", "a", "a">>)>>}

Tree(root, sub) == (Root :> root) @@ (Sub :> sub)

MCTrees ==
    {MCPlain} \cup
    {t \in {Tree(gone \o (IF first THEN <<here, below>> ELSE <<below, here>>),
                <<Called(<<"a", "b", "a">>, <<"b">>, f2)>>) :
               gone \in Before, first \in BOOLEAN,
               here \in {Called(x[1], x[2], f1) : x \in Both},
               below \in {Called(x[1], x[2], Sub) : x \in Both}} :
        \A i, j \in 1..Len(t[Root]) : i # j => t[Root][i].short # t[Root][j].short}

Asked == {<<"a">>, <<"b">>, <<"c">>, <<"d">>, <<"a", "B">>, <<"a", "b", "a">>,
          <<"a", "b", "b">>, <<"a", "b", "a", "b">>}

Slashed == {<<Slash>> \o x : x \in Asked}

Further == {<<Slash, "a">>, <<Slash, "b">>, <<Slash, "a", "b", "a">>, <<Slash, "a", "b", "b">>}

MCPaths(t) ==
    IF t = MCPlain THEN {<<Slash, "a">>, <<Slash, "b">>, <<Slash, "c">>}
    ELSE Slashed \cup {x \o y : x \in Slashed, y \in Further}
         \cup {<<Slash>>, <<Slash, ".">>, <<Slash, ".", Slash, "a">>, <<Slash, ".", "a">>,
               <<Slash, ".", ".", Slash, "a">>, <<"a", "b", Slash>>,
               <<Slash, "b", Slash, Slash, "b">>, <<Slash, Slash, "a">>, <<Slash, Slash>>,
               <<Slash, ".", Slash, Slash, "a">>, <<".", Slash, "a">>,
               <<Slash, "b", Slash, ".", Slash, "b">>, <<Slash, "b", Slash, Slash>>,
               <<Slash, "b", Slash, "b", Slash>>, <<Slash, "b", Slash, "a", "b", "a", Slash>>,
               <<Slash, "b", Slash, Slash, Slash, "b">>, <<Slash, ".", Slash, ".", Slash, "a">>}
=============================================================================
