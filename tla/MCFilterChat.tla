---------------------------- MODULE MCFilterChat ----------------------------
(* FilterChat for TLC: all short texts, and commands as the documents write them. *)
EXTENDS FilterChat

CONSTANTS MaxArgs, MaxText

ArgumentTexts == SeqOf({"a", "A", "b", " ", "NL", Quote, ",", "(", ")"}, MaxArgs)

Texts == SeqOf({"a", "A", "b", " ", "NL", "!"}, MaxText)

\* Lists of one phrase, blank at either end or throughout.
Phrases ==
  {<<"/filter", " ", "(", Quote>> \o t \o <<Quote, ")">> : t \in SeqOf({"a", " ", "NL"}, 2)}

AllTexts ==
  Texts \cup Phrases
        \cup {<<k>> \o args : k \in {"/filter", "/stop"}, args \in ArgumentTexts}
        \cup {<<"/stopall">>} \cup {<<"/filter", " ", "a", " ", "react:">> \o t : t \in {<< >>, <<"!">>}}

Triggers == {<<"a">>, <<"A">>, <<"a", "b">>, <<"b", " ", "a">>}

DocumentedCommands ==
  [triggers : SeqOf(Triggers, 2) \ {<< >>}, type : {"text", "reaction"}, response : {<<"b", " ", "a", "!">>}]
  \cup [triggers : SeqOf(Triggers, 2) \ {<< >>}, type : {"media"}, response : {<< >>}]

FewTexts == Texts \cup {<<"/filter", " ", "a", " ", "b">>}
=============================================================================
