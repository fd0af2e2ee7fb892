----------------------------- MODULE FilterText -----------------------------
(***************************************************************************)
(* The text of messages: commands and their arguments (domain/command.go), *)
(* triggers, messages and how they are matched (domain/filter.go and the   *)
(* query of filter_matching.sql).                                          *)
(*                                                                         *)
(* A text is a sequence of tokens: "a", "A" and "b" stand for pieces of    *)
(* words, two of them side by side for a longer word, " " and "NL" for     *)
(* white space, the rest for punctuation and the keywords of commands.     *)
(***************************************************************************)
EXTENDS Naturals, Sequences, SequencesExt

Letters == {"a", "A", "b"}
Spaces == {" ", "NL"}
Quote == "\""

Keywords == {"/filter", "/stop", "/stopall"}

\* "!" stands for every other character.
Tokens == Letters \cup Spaces \cup Keywords \cup {Quote, ",", "(", ")", "react:", "!"}

Lower(text) == [i \in DOMAIN text |-> IF text[i] = "A" THEN "a" ELSE text[i]]

\* text[1 .. i - 1], text[i .. ]
Before(text, i) == SubSeq(text, 1, i - 1)
From(text, i) == SubSeq(text, i, Len(text))

First(text, token) == SelectInSeq(text, LAMBDA x : x = token)

TrimSpace(text) ==
  LET I == {i \in DOMAIN text : text[i] \notin Spaces}
  IN IF I = {} THEN << >> ELSE SubSeq(text, Min(I), Max(I))

\* part occurs in text.
InStr(text, part) ==
  \E i \in 1 .. Len(text) - Len(part) + 1 : SubSeq(text, i, i + Len(part) - 1) = part

-----------------------------------------------------------------------------
(* Commands.                                                               *)

\* A keyword at the start and then the end of a word.
GetCommandType(text) ==
  IF text # << >> /\ text[1] \in Keywords /\ (Len(text) = 1 \/ text[2] \notin Letters)
  THEN text[1] ELSE "none"

Arguments(text) == TrimSpace(Tail(text))

\* Mutant of ParseNextToken: the phrase in the quotes is trimmed as well.
ParseNextTokenTrimmed(text) ==
  IF text[1] = Quote
  THEN LET close == First(Tail(text), Quote)
       IN [ok |-> close # 0, token |-> TrimSpace(Before(Tail(text), close)),
           rest |-> TrimSpace(From(Tail(text), close + 1))]
  ELSE LET end == First(text, " ")
       IN IF end = 0 THEN [ok |-> TRUE, token |-> text, rest |-> << >>]
          ELSE [ok |-> TRUE, token |-> Before(text, end), rest |-> From(text, end + 1)]

\* A quoted phrase, or everything up to the next space (a line break is none);
\* text is not empty.  What follows a phrase is trimmed, what follows a word not.
ParseNextToken(text) ==
  IF text[1] = Quote
  THEN LET close == First(Tail(text), Quote)
       IN [ok |-> close # 0, token |-> Before(Tail(text), close),
           rest |-> TrimSpace(From(Tail(text), close + 1))]
  ELSE LET end == First(text, " ")
       IN IF end = 0 THEN [ok |-> TRUE, token |-> text, rest |-> << >>]
          ELSE [ok |-> TRUE, token |-> Before(text, end), rest |-> From(text, end + 1)]

\* The first trigger of a list that is not empty, and what follows it.  The
\* comma after a phrase may be missing; a phrase that is not closed is empty.
NextTrigger(text) ==
  LET phrase == text[1] = Quote
      end == IF phrase THEN First(Tail(text), Quote) + 1
             ELSE IF First(text, ",") = 0 THEN Len(text) + 1 ELSE First(text, ",")
      after == TrimSpace(From(text, end + 1))
  IN [trigger |-> IF phrase THEN SubSeq(text, 2, end - 1) ELSE TrimSpace(Before(text, end)),
      rest |-> IF phrase /\ after # << >> /\ after[1] = "," THEN TrimSpace(Tail(after)) ELSE after]

\* Mutant of ParseTriggers: a list is only split at its commas.
ParseTriggersUnquoted(list) ==
  LET commas == {i \in 1 .. Len(list) + 1 : i = Len(list) + 1 \/ list[i] = ","}
      start(i) == Max({0} \cup {j \in commas : j < i}) + 1
      ends == SetToSortSeq(commas, <)
  IN [k \in DOMAIN ends |-> TrimSpace(SubSeq(list, start(ends[k]), ends[k] - 1))]

\* The triggers of a list, << >> for an error; a comma at the end is ignored.
ParseTriggers(list) ==
  LET parsed[n \in 0 .. Len(list)] ==
        IF n = 0 THEN [found |-> << >>, rest |-> TrimSpace(list)]
        ELSE LET before == parsed[n - 1]
                 next == NextTrigger(before.rest)
             IN IF before.rest = << >> THEN before
                ELSE IF next.trigger = << >> THEN [found |-> << >>, rest |-> << >>]
                ELSE [found |-> Append(before.found, next.trigger), rest |-> next.rest]
  IN parsed[Len(list)].found

NoFilter == [triggers |-> << >>, type |-> "error", response |-> << >>]

Response(triggers, rest) ==
  LET reaction == TrimSpace(Tail(rest))
  IN IF rest = << >> THEN [triggers |-> triggers, type |-> "media", response |-> << >>]
     ELSE IF rest[1] # "react:" THEN [triggers |-> triggers, type |-> "text", response |-> rest]
     ELSE IF reaction = << >> THEN NoFilter
     ELSE [triggers |-> triggers, type |-> "reaction", response |-> reaction]

ParseFilterCommand(text) ==
  LET args == Arguments(text)
      close == First(args, ")")
      list == ParseTriggers(SubSeq(args, 2, close - 1))
      next == ParseNextToken(args)
  IN IF args = << >> THEN NoFilter
     ELSE IF args[1] = "("
     THEN IF close = 0 \/ list = << >> THEN NoFilter
          ELSE Response(list, TrimSpace(From(args, close + 1)))
     ELSE IF ~next.ok THEN NoFilter
     ELSE Response(<<next.token>>, next.rest)

\* The trigger to remove, or << >> for an error.
ParseStopCommand(text) ==
  LET args == Arguments(text)
      next == ParseNextToken(args)
  IN IF args = << >> \/ ~next.ok \/ next.rest # << >> THEN << >> ELSE next.token

-----------------------------------------------------------------------------
(* Triggers and messages.                                                  *)

ValidateTrigger(text) == text # << >> /\ \A i \in DOMAIN text : text[i] \in Letters \cup Spaces

\* Mutant of NormalizeTrigger: it is stored as it was typed.
NormalizeTriggerNot(text) == text

NormalizeTrigger(text) == Lower(text)

\* Mutant of NormalizeMessage: punctuation is removed.
NormalizeMessageTight(text) ==
  Lower(SelectSeq(text, LAMBDA x : x \in Letters \cup Spaces))

\* A run of characters that are neither letters nor white space becomes a
\* space; white space, line breaks among it, stays as it is.
NormalizeMessage(text) ==
  LET punctuation(i) == text[i] \notin Letters \cup Spaces
      upTo[i \in 0 .. Len(text)] ==
        IF i = 0 THEN << >>
        ELSE IF ~punctuation(i) THEN Append(upTo[i - 1], text[i])
        ELSE IF i > 1 /\ punctuation(i - 1) THEN upTo[i - 1]
        ELSE Append(upTo[i - 1], " ")
  IN Lower(upTo[Len(text)])

\* Mutant of Matches: the message and the trigger are not padded.
MatchesInside(message, trigger) == InStr(message, trigger)

\* The condition of the query, on a normalized message and a stored trigger.
Matches(message, trigger) ==
  InStr(<<" ">> \o message \o <<" ">>, <<" ">> \o trigger \o <<" ">>)

-----------------------------------------------------------------------------
(* What the documents speak of, without reference to the code.             *)

\* The words of a text: its longest runs of letters.
WordsOf(text) ==
  LET letter(i) == i > 0 /\ text[i] \in Letters
      upTo[i \in 0 .. Len(text)] ==
        IF i = 0 THEN << >>
        ELSE LET words == upTo[i - 1]
             IN IF ~letter(i) THEN words
                ELSE IF letter(i - 1) THEN [words EXCEPT ![Len(words)] = Append(@, text[i])]
                ELSE Append(words, <<text[i]>>)
  IN upTo[Len(text)]

\* The words of the trigger follow one another in the message, in any case.
Mentions(message, trigger) == InStr(WordsOf(Lower(message)), WordsOf(Lower(trigger)))

\* The trigger itself stands in the message, in any case, between spaces,
\* punctuation or the ends.
StandsIn(message, trigger) ==
  \E i \in 1 .. Len(message) - Len(trigger) + 1 :
    /\ Lower(SubSeq(message, i, i + Len(trigger) - 1)) = Lower(trigger)
    /\ \A j \in {i - 1, i + Len(trigger)} \cap DOMAIN message : message[j] \notin Letters \cup {"NL"}

\* The syntax of docs/user/filters.md: phrases in quotes, lists in parentheses.
Written(trigger) ==
  IF Contains(trigger, " ") THEN <<Quote>> \o trigger \o <<Quote>> ELSE trigger

FilterCommand(cmd) ==
  LET list == FlattenSeq([i \in DOMAIN cmd.triggers |->
                            (IF i = 1 THEN << >> ELSE <<",", " ">>) \o Written(cmd.triggers[i])])
      triggers == IF Len(cmd.triggers) = 1 THEN list ELSE <<"(">> \o list \o <<")">>
      response == (IF cmd.type = "reaction" THEN <<"react:">> ELSE << >>) \o cmd.response
  IN <<"/filter", " ">> \o triggers \o (IF response = << >> THEN << >> ELSE <<" ">> \o response)

StopCommand(trigger) == <<"/stop", " ", Quote>> \o trigger \o <<Quote>>
=============================================================================
