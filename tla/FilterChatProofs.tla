-------------------------- MODULE FilterChatProofs ---------------------------
(***************************************************************************)
(* For any texts that are sent, any filters that are written and any       *)
(* number of them: the invariants of FilterChat.                           *)
(*                                                                         *)
(* Sound is inductive.  It says that everything stored is made of valid    *)
(* texts and that what was matched is what the query finds now; the rest   *)
(* is what the query finds (FilterTextFacts) and what the parsers return   *)
(* (FilterCommandFacts).                                                   *)
(***************************************************************************)
EXTENDS FilterChat, FilterCommandFacts

-----------------------------------------------------------------------------
(* The invariants.                                                         *)

Row == [text : Text, type : {"text", "reaction", "media", "error"}, response : Text]

RowsAreTexts ==
  /\ stored \subseteq Row
  /\ \A t \in stored : ValidateTrigger(t.text) /\ Lower(t.text) = t.text

OneRowPerText == \A t, u \in stored : t.text = u.text => t = u

\* What has been matched was stored when the message was handled, and
\* nothing has been removed since.
MatchedNow ==
  matched = IF pc = "done" /\ GetCommandType(said) = "none"
            THEN {t \in stored : Matches(NormalizeMessage(said), t.text)}
            ELSE {}

Counted ==
  /\ made \in 0 .. MaxFilters
  /\ pc = "busy" /\ GetCommandType(said) = "/filter" => made < MaxFilters

SaidIsText ==
  /\ said \in Text
  /\ pc \in {"idle", "busy", "done"}
  /\ pc # "idle" /\ meant # None => meant \in Commands /\ said = FilterCommand(meant)

Sound == RowsAreTexts /\ OneRowPerText /\ MatchedNow /\ Counted /\ SaidIsText

LEMMA CommandsAreDocumented == \A cmd \in Commands : Documented(cmd)
BY CommandsAssumption DEF Documented, Phrase, Text

LEMMA SoundTyped == Sound => TypeOK
<1> SUFFICES ASSUME Sound PROVE TypeOK
  OBVIOUS
<1>1. matched \subseteq stored
  BY DEF Sound, MatchedNow
<1> QED
  BY <1>1 DEF Sound, RowsAreTexts, OneRowPerText, Counted, SaidIsText, TypeOK

LEMMA SoundInit == Init => Sound
<1> SUFFICES ASSUME Init PROVE Sound
  OBVIOUS
<1>1. << >> \in Text
  BY NothingAdded
<1> QED
  BY <1>1, MaxFiltersAssumption
  DEF Init, Sound, RowsAreTexts, OneRowPerText, MatchedNow, Counted, SaidIsText

LEMMA TypeOfText ==
  /\ GetCommandType(<< >>) = "none"
  /\ \A text : GetCommandType(text) # "none" => text # << >>
BY DEF GetCommandType

LEMMA LowerValid ==
  ASSUME NEW text \in Text, ValidateTrigger(text)
  PROVE  ValidateTrigger(NormalizeTrigger(text)) /\ NormalizeTrigger(text) \in Text
         /\ Lower(NormalizeTrigger(text)) = NormalizeTrigger(text)
<1>1. /\ Lower(text) \in Text /\ Len(Lower(text)) = Len(text)
      /\ \A i \in 1 .. Len(text) : Lower(text)[i] = Low(text[i])
  BY LowerText
<1>2. DOMAIN text = 1 .. Len(text) /\ Len(text) # 0
  BY Lengths DEF Text, ValidateTrigger
<1>3. DOMAIN Lower(text) = 1 .. Len(text) /\ Lower(text) # << >>
  BY <1>1, <1>2, Lengths DEF Text
<1>4. \A i \in 1 .. Len(text) : Lower(text)[i] \in Letters \cup Spaces
  BY <1>1, <1>2, LowKinds DEF ValidateTrigger, Plain
<1> QED
  BY <1>1, <1>3, <1>4, LowerLower DEF NormalizeTrigger, ValidateTrigger

\* The rows that a filter that is acceptable adds.
LEMMA NewRows ==
  ASSUME Sound, said # << >>, NEW attached, Acceptable(ParseFilterCommand(said), attached),
         NEW rows, rows = stored \cup
            {[text |-> NormalizeTrigger(t), type |-> ParseFilterCommand(said).type,
              response |-> ParseFilterCommand(said).response] : t \in ToSet(ParseFilterCommand(said).triggers)}
  PROVE  /\ rows \subseteq Row
         /\ \A t \in rows : ValidateTrigger(t.text) /\ Lower(t.text) = t.text
         /\ \A t, u \in rows : t.text = u.text => t = u
<1> DEFINE cmd == ParseFilterCommand(said)
           row(i) == [text |-> NormalizeTrigger(cmd.triggers[i]), type |-> cmd.type,
                      response |-> cmd.response]
           texts == [i \in DOMAIN cmd.triggers |-> NormalizeTrigger(cmd.triggers[i])]
<1>1. cmd \in Command
  BY FilterType DEF Sound, SaidIsText
<1> HIDE DEF cmd
<1>2. Acceptable(cmd, attached)
  BY DEF cmd
<1>3. rows = stored \cup {[text |-> NormalizeTrigger(t), type |-> cmd.type,
                           response |-> cmd.response] : t \in ToSet(cmd.triggers)}
  BY DEF cmd
<1>4. \A i \in DOMAIN cmd.triggers : cmd.triggers[i] \in Text
  BY <1>1, ElementOfSeq, LenProperties DEF Command, Triggers
<1>5. \A i \in DOMAIN cmd.triggers : ValidateTrigger(cmd.triggers[i])
  BY <1>2 DEF Acceptable
<1>6. \A i \in DOMAIN cmd.triggers :
        /\ ValidateTrigger(NormalizeTrigger(cmd.triggers[i]))
        /\ NormalizeTrigger(cmd.triggers[i]) \in Text
        /\ Lower(NormalizeTrigger(cmd.triggers[i])) = NormalizeTrigger(cmd.triggers[i])
  BY <1>4, <1>5, LowerValid
<1>7. \A r \in rows : r \in stored \/ \E i \in DOMAIN cmd.triggers : r = row(i)
  BY <1>3 DEF ToSet
<1>8. \A i \in DOMAIN cmd.triggers : row(i) \in Row
  BY <1>1, <1>6 DEF Command, Row
<1>9. \A i, j \in DOMAIN cmd.triggers :
        NormalizeTrigger(cmd.triggers[i]) = NormalizeTrigger(cmd.triggers[j]) => i = j
  BY <1>2 DEF Acceptable
<1>10. \A t \in stored, i \in DOMAIN cmd.triggers : t.text # NormalizeTrigger(cmd.triggers[i])
  <2>1. \A t \in stored : t.text \notin ToSet(texts)
    BY <1>2 DEF Acceptable
  <2> QED
    BY <2>1 DEF ToSet
<1>11. \A i \in DOMAIN cmd.triggers : row(i).text = NormalizeTrigger(cmd.triggers[i])
  OBVIOUS
<1> HIDE DEF row
<1>12. rows \subseteq Row
  BY <1>7, <1>8 DEF Sound, RowsAreTexts
<1>13. \A t \in rows : ValidateTrigger(t.text) /\ Lower(t.text) = t.text
  BY <1>6, <1>7, <1>11 DEF Sound, RowsAreTexts
<1>14. \A t, u \in rows : t.text = u.text => t = u
  BY <1>7, <1>9, <1>10, <1>11 DEF Sound, OneRowPerText
<1> QED
  BY <1>12, <1>13, <1>14

LEMMA SoundNext ==
  ASSUME Sound, [Next]_vars
  PROVE  Sound'
<1>1. CASE Receive
  <2>1. stored' = stored /\ made' = made /\ matched' = matched /\ pc = "idle" /\ pc' = "busy"
    BY <1>1 DEF Receive
  <2>2. said' \in Text /\ (meant' # None => meant' \in Commands /\ said' = FilterCommand(meant'))
    <3>1. CASE said' \in Typed /\ meant' = None
      BY <3>1, TypedAssumption DEF Text
    <3>2. CASE \E cmd \in Commands : said' = FilterCommand(cmd) /\ meant' = cmd
      BY <3>2, CommandsAreDocumented, WrittenParts
    <3> QED
      BY <1>1, <3>1, <3>2 DEF Receive
  <2>3. matched' = {}
    BY <2>1 DEF Sound, MatchedNow
  <2>4. MatchedNow'
    BY <2>1, <2>3 DEF MatchedNow
  <2>5. Counted'
    BY <1>1, <2>1 DEF Counted, Sound, Receive
  <2> QED
    BY <2>1, <2>2, <2>4, <2>5 DEF Sound, RowsAreTexts, OneRowPerText, SaidIsText
<1>2. CASE Filter
  <2>1. /\ pc = "busy" /\ GetCommandType(said) = "/filter" /\ pc' = "done" /\ said' = said
        /\ meant' = meant /\ matched' = matched
    BY <1>2 DEF Filter, Done
  <2>2. said # << >>
    BY <2>1, TypeOfText
  <2>3. matched' = {} /\ MatchedNow'
    BY <2>1 DEF Sound, MatchedNow
  <2>4. SaidIsText'
    BY <2>1 DEF Sound, SaidIsText
  <2>5. CASE UNCHANGED <<stored, made>>
    BY <2>1, <2>3, <2>4, <2>5 DEF Sound, RowsAreTexts, OneRowPerText, Counted
  <2>6. ASSUME NEW attached \in BOOLEAN, Acceptable(ParseFilterCommand(said), attached),
               stored' = stored \cup
                  {[text |-> NormalizeTrigger(t), type |-> ParseFilterCommand(said).type,
                    response |-> ParseFilterCommand(said).response] : t \in ToSet(ParseFilterCommand(said).triggers)},
               made' = made + 1
        PROVE  Sound'
    <3>1. /\ stored' \subseteq Row
          /\ \A t \in stored' : ValidateTrigger(t.text) /\ Lower(t.text) = t.text
          /\ \A t, u \in stored' : t.text = u.text => t = u
      BY <2>2, <2>6, NewRows
    <3>2. Counted'
      BY <2>1, <2>6, MaxFiltersAssumption DEF Sound, Counted
    <3> QED
      BY <2>3, <2>4, <3>1, <3>2 DEF Sound, RowsAreTexts, OneRowPerText
  <2> QED
    BY <1>2, <2>5, <2>6 DEF Filter
<1>3. CASE Stop
  <2>1. /\ pc = "busy" /\ GetCommandType(said) = "/stop" /\ pc' = "done" /\ said' = said
        /\ meant' = meant /\ matched' = matched /\ made' = made /\ stored' \subseteq stored
    BY <1>3 DEF Stop, Done
  <2> QED
    BY <2>1 DEF Sound, RowsAreTexts, OneRowPerText, MatchedNow, Counted, SaidIsText
<1>4. CASE StopAll
  <2>1. /\ pc = "busy" /\ GetCommandType(said) = "/stopall" /\ pc' = "done" /\ said' = said
        /\ meant' = meant /\ matched' = matched /\ made' = made /\ stored' = {}
    BY <1>4 DEF StopAll, Done
  <2> QED
    BY <2>1 DEF Sound, RowsAreTexts, OneRowPerText, MatchedNow, Counted, SaidIsText
<1>5. CASE Match
  <2>1. /\ pc = "busy" /\ GetCommandType(said) = "none" /\ pc' = "done" /\ said' = said
        /\ meant' = meant /\ made' = made /\ stored' = stored
        /\ matched' = {t \in stored : Matches(NormalizeMessage(said), t.text)}
    BY <1>5 DEF Match, Done
  <2>2. MatchedNow'
    BY <2>1 DEF MatchedNow
  <2> QED
    BY <2>1, <2>2 DEF Sound, RowsAreTexts, OneRowPerText, Counted, SaidIsText
<1>6. CASE Finish
  <2>1. /\ pc' = "idle" /\ said' = << >> /\ meant' = None /\ made' = made /\ stored' = stored /\ matched' = {}
    BY <1>6 DEF Finish
  <2> QED
    BY <2>1, NothingAdded DEF Sound, RowsAreTexts, OneRowPerText, MatchedNow, Counted, SaidIsText
<1>7. CASE UNCHANGED vars
  BY <1>7 DEF vars, Sound, RowsAreTexts, OneRowPerText, MatchedNow, Counted, SaidIsText
<1> QED
  BY <1>1, <1>2, <1>3, <1>4, <1>5, <1>6, <1>7 DEF Next

\* The inductive invariant of FilterChat.
LEMMA AlwaysSound == Spec => []Sound
<1>1. Sound /\ [Next]_vars => Sound'
  BY SoundNext
<1> QED
  BY <1>1, SoundInit, PTL DEF Spec

\* A trigger is stored in lower case, without punctuation, once per chat,
\* whatever is sent (filter.go NormalizeTrigger, the unique index on triggers).
THEOREM TriggersAreNormal == Spec => []TypeOK
BY AlwaysSound, SoundTyped, PTL

\* Every row that is replied to has its words in the message, one after the
\* other (MatchesTrigger and filter_matching.sql), for messages of any length.
THEOREM RepliesAreToWholeWords == Spec => []OnlyWholeWords
<1>1. Sound => OnlyWholeWords
  <2> SUFFICES ASSUME Sound, Answered, NEW t \in matched PROVE Mentions(said, t.text)
    BY DEF OnlyWholeWords
  <2>1. t \in stored /\ Matches(NormalizeMessage(said), t.text)
    BY DEF Answered, Sound, MatchedNow
  <2>2. said \in Text /\ t.text \in Text /\ Lower(t.text) = t.text
    BY <2>1 DEF Sound, SaidIsText, RowsAreTexts, Row
  <2> QED
    BY <2>1, <2>2, MatchesMentions
<1> QED
  BY <1>1, AlwaysSound, PTL

\* No trigger that stands in the message is missed.
THEOREM StandingTriggersAreFound == Spec => []StandingIsFound
<1>1. Sound => StandingIsFound
  <2> SUFFICES ASSUME Sound, Answered, NEW t \in stored, StandsIn(said, t.text) PROVE t \in matched
    BY DEF StandingIsFound
  <2>1. said \in Text /\ t.text \in Text /\ Lower(t.text) = t.text /\ ValidateTrigger(t.text)
    BY DEF Sound, SaidIsText, RowsAreTexts, Row
  <2>2. t.text # << >> /\ \A i \in 1 .. Len(t.text) : t.text[i] \in Plain
    BY <2>1, Lengths DEF ValidateTrigger, Plain, Text
  <2>3. Matches(NormalizeMessage(said), t.text)
    BY <2>1, <2>2, StandingMatches
  <2> QED
    BY <2>3 DEF Answered, Sound, MatchedNow
<1> QED
  BY <1>1, AlwaysSound, PTL

\* A trigger that is stored can be removed again: /stop, with the trigger in
\* quotes, names just this one (ParseStopCommand, RemoveTrigger).
THEOREM TriggersCanBeStopped == Spec => []EveryTriggerCanBeStopped
<1>1. Sound => EveryTriggerCanBeStopped
  <2> SUFFICES ASSUME Sound, NEW t \in stored
               PROVE  NormalizeTrigger(ParseStopCommand(StopCommand(t.text))) = t.text
    BY DEF EveryTriggerCanBeStopped
  <2>1. t.text \in Text /\ Lower(t.text) = t.text /\ ValidateTrigger(t.text)
    BY DEF Sound, RowsAreTexts, Row
  <2>2. \A i \in 1 .. Len(t.text) : t.text[i] # Quote
    <3>1. \A i \in 1 .. Len(t.text) : t.text[i] \in Letters \cup Spaces
      BY <2>1, Lengths DEF ValidateTrigger, Text
    <3> QED
      BY <3>1 DEF Letters, Spaces, Quote
  <2>3. ParseStopCommand(StopCommand(t.text)) = t.text
    BY <2>1, <2>2, StopIsRead
  <2> QED
    BY <2>1, <2>3 DEF NormalizeTrigger
<1> QED
  BY <1>1, AlwaysSound, PTL

\* A /filter that is written as docs/user/filters.md says is read as it was
\* meant, for any triggers and responses (ParseFilterCommand and the parsers
\* that it calls).
THEOREM CommandsAreRead == Spec => []WrittenIsRead
<1>1. Sound => WrittenIsRead
  <2> SUFFICES ASSUME Sound, pc = "busy", meant # None PROVE ParseFilterCommand(said) = meant
    BY DEF WrittenIsRead
  <2>1. meant \in Commands /\ said = FilterCommand(meant)
    BY DEF Sound, SaidIsText
  <2> QED
    BY <2>1, CommandsAreDocumented, FilterIsRead
<1> QED
  BY <1>1, AlwaysSound, PTL
=============================================================================
