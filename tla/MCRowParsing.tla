---------------------------- MODULE MCRowParsing ----------------------------
(***************************************************************************)
(* Every journal cell of up to MaxLines lines over two times, an           *)
(* impossible one and three kinds of text, beside an internal service; and *)
(* every service of up to two fields, or three that begin simply, each of  *)
(* up to four words and hyphens, beside a journal with an entry.           *)
(***************************************************************************)
EXTENDS RowParsing, SequencesExt

CONSTANT MaxLines

MCHeader == [ts: {1, 2, Impossible}, author: {"ann"}, context: {"Work Notes"}]
MCCell   == BoundedSeq(MCHeader \cup Text, MaxLines)

Fields == BoundedSeq({"w", "-"}, 4) \ {<<>>}
MCRaw  == BoundedSeq(Fields, 2) \cup {<<p, s, t>> : p \in {<<"w">>, <<"w", "-", "w">>},
                                                  s \in Fields, t \in Fields}

Entry == << [ts |-> 1, author |-> "ann", context |-> "Work Notes"], Blank >>

MCRow == [service: {<< <<"w">> >>}, journal: MCCell] \cup [service: MCRaw, journal: {Entry}]
=============================================================================
