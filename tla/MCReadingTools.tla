--------------------------- MODULE MCReadingTools ---------------------------
(***************************************************************************)
(* The instances of ReadingTools that TLC checks: a directory with a hidden *)
(* one and two files, and a flat tree, so that each limit is met alone.    *)
(***************************************************************************)
EXTENDS ReadingTools

At(path, kind) == [path |-> path, kind |-> kind]

MCTrees ==
    {<<At(<<"d">>, "dir"), At(<<"d", ".h">>, h), At(<<"d", ".h", "b">>, "text"),
       At(<<"d", "c">>, c), At(<<"e">>, "text")>>
        : <<h, c>> \in {<<"dir", "text">>, <<"dir", "binary">>, <<"dir", "locked">>,
                        <<"sealed", "text">>}} \cup
    {<<At(<<"a">>, "text"), At(<<".f">>, "text"), At(<<"d">>, "dir"), At(<<"e">>, "text"),
       At(<<"g">>, "text")>>}

MCContents ==
    {<<>>, <<"x", "nl", "X", "nl", "x">>, <<"o", "x", "nl", "o", "x", "lead", "cont">>}

SearchCalls ==
    [tool : {"search"}, query : {"x"}, sensitive : BOOLEAN] \cup
    [tool : {"search"}, query : {"X"}, sensitive : {TRUE}]
ListCalls ==
    [tool : {"list"}, recursive : BOOLEAN, hidden : BOOLEAN] \cup
    [tool : {"summary"}, recursive : {FALSE}, hidden : BOOLEAN]
ReadCalls == [tool : {"read", "read_binary"}, target : {1, 4}]
MCCalls == SearchCalls \cup ListCalls \cup ReadCalls
=============================================================================
