-------------------------- MODULE MCExportContent --------------------------
(***************************************************************************)
(* Sheets with one or two tickets: every pair of a description and a       *)
(* company over cells with dashes, line ends and separators in them, rows  *)
(* shorter and longer than the header, missing, doubled and reordered      *)
(* columns, and cells that do not parse.  Three pairs have one hash and    *)
(* different records: by a tab, and by a number over two lines.            *)
(***************************************************************************)
EXTENDS ExportContent

Num == <<"Number">>
Des == <<"Description">>
Ope == <<"Opened">>
Com == <<"Comments">>
Cmp == <<"Company">>

MCRequired  == {Num, Des}
MCConverted == {Ope}
MCOptional  == {Cmp}
MCParses    == [col \in {Ope, Com} |-> IF col = Ope THEN {<<"45123">>} ELSE {<<"entry">>}]

Header == <<Num, Ope, Com, Des, Cmp>>

MCCells == {<<>>, <<"x">>, <<"x", "TAB", "x">>, <<"x", "LF", "x">>, <<"x", "CR", "LF", "x">>,
            <<"x", "SPACE", "LF", "x">>, <<"x", "-">>, <<"x", "EN_DASH">>, <<"x", "SPACE">>, <<"-", "x">>}

Numbered(number, d, c) == <<number, <<"45123">>, <<>>, d, c>>

Ticket(d, c) == Numbered(<<"1">>, d, c)

Few == {<<>>, <<"x">>, <<"x", "EN_DASH">>}

\* Texts over several lines, one of which could be the next ticket's number.
Lines == {<<>>, <<"x">>, <<"x", "LF", "x">>, <<"x", "LF", "1">>, <<"LF", "x">>}

MCSheet ==
    {<<Header, Ticket(d, c)>> : d \in MCCells, c \in MCCells}
    \cup {<<Header, Ticket(<<"x">>, c), Ticket(d, <<"x">>)>> : c \in Few, d \in Few}
    \cup {<<Header, Ticket(<<"x">>, c), Numbered(n, d, <<>>)>> :
              n \in {<<"1">>, <<"x">>}, c \in Lines, d \in Lines \ {<<>>}}
    \cup {<<Header, Ticket(<<"x">>, <<>>), Numbered(<<"x", "LF", "1">>, <<"x">>, <<>>)>>}
    \cup {<<Header, Front(Ticket(d, <<>>))>> : d \in Few}
    \cup {<<Header, Append(Ticket(d, <<>>), <<"x">>)>> : d \in Few}
    \cup {<<<<Num, Ope, Com, Des>>, Front(Ticket(d, <<>>))>> : d \in Few}
    \cup {<<<<Cmp, Num, Ope, Com, Des, Cmp>>, <<<<"x">>>> \o Ticket(<<"x">>, c)>> : c \in Few}
    \cup {<<<<Num, Ope, Com>>>>, <<>>, <<Header>>,
          <<Header, <<<<"1">>, <<"May">>, <<>>, <<"x">>, <<>>>>>>,
          <<Header, <<<<"1">>, <<"45123">>, <<"entry">>, <<"x">>, <<>>>>>>,
          <<Header, <<<<"1">>, <<"45123">>, <<"text">>, <<"x">>, <<>>>>>>}
=============================================================================
