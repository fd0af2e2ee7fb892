----------------------------- MODULE FilterChat -----------------------------
(***************************************************************************)
(* The texts of one group chat: what a message makes of the triggers that  *)
(* are stored, and what the bot replies to it.                             *)
(*                                                                         *)
(* One message is handled at a time; FilterStore has the handlers side by  *)
(* side, the tables and the media files.                                   *)
(***************************************************************************)
EXTENDS FilterText

CONSTANTS
  Typed,       \* texts that users send
  Commands,    \* filters that users write in the syntax of the documents
  MaxFilters,  \* bound: filters that are created
  None         \* no command

ASSUME TypedAssumption == Typed \subseteq Seq(Tokens)

\* As docs/user/filters.md has them: triggers of letters and spaces, and a
\* response without white space around it, or none for a media filter.
ASSUME CommandsAssumption ==
  /\ Commands \subseteq [triggers : Seq(Seq(Letters \cup {" "}) \ {<< >>}) \ {<< >>},
                          type : {"text", "reaction", "media"}, response : Seq(Tokens)]
  /\ \A cmd \in Commands :
       /\ cmd.type = "media" <=> cmd.response = << >>
       /\ TrimSpace(cmd.response) = cmd.response
       /\ cmd.type = "text" => cmd.response[1] # "react:"

ASSUME MaxFiltersAssumption == MaxFilters \in Nat

VARIABLES
  stored,      \* filter_triggers with their replies
  made,        \* filters created so far
  said,        \* the message being handled
  meant,       \* the command its author had in mind, or None
  matched,     \* rows that FindMatchingFilters has returned for it
  pc           \* "idle", "busy", "done"

vars == <<stored, made, said, meant, matched, pc>>

\* A trigger is stored in lower case, without punctuation, once per chat.
TypeOK ==
  /\ \A t \in stored : ValidateTrigger(t.text) /\ Lower(t.text) = t.text
  /\ \A t, u \in stored : t.text = u.text => t = u
  /\ matched \subseteq stored
  /\ made \in 0 .. MaxFilters
  /\ pc \in {"idle", "busy", "done"}

Init ==
  /\ stored = {} /\ made = 0
  /\ said = << >> /\ meant = None
  /\ matched = {}
  /\ pc = "idle"

Receive ==
  /\ pc = "idle" /\ pc' = "busy"
  /\ \/ said' \in Typed /\ meant' = None
     \/ \E cmd \in Commands : said' = FilterCommand(cmd) /\ meant' = cmd
  /\ GetCommandType(said') = "/filter" => made < MaxFilters
  /\ UNCHANGED <<stored, made, matched>>

Done(type) ==
  /\ pc = "busy" /\ GetCommandType(said) = type
  /\ pc' = "done"
  /\ UNCHANGED <<said, meant>>

\* Every trigger is valid; none of them is stored or named twice; a text comes
\* without a file or a quoted message, a media filter with one.
Acceptable(cmd, attached) ==
  LET texts == [i \in DOMAIN cmd.triggers |-> NormalizeTrigger(cmd.triggers[i])]
  IN /\ cmd.type # "error"
     /\ \A i \in DOMAIN cmd.triggers : ValidateTrigger(cmd.triggers[i])
     /\ \A i, j \in DOMAIN texts : texts[i] = texts[j] => i = j
     /\ \A t \in stored : t.text \notin ToSet(texts)
     /\ cmd.type = "text" => ~attached
     /\ cmd.type = "media" => attached

Filter ==
  /\ Done("/filter")
  /\ LET cmd == ParseFilterCommand(said)
     IN \E attached \in BOOLEAN :
          IF Acceptable(cmd, attached)
          THEN /\ stored' = stored \cup
                    {[text |-> NormalizeTrigger(t), type |-> cmd.type,
                      response |-> cmd.response] : t \in ToSet(cmd.triggers)}
               /\ made' = made + 1
          ELSE UNCHANGED <<stored, made>>
  /\ UNCHANGED matched

Stop ==
  /\ Done("/stop")
  /\ stored' = {t \in stored : t.text # NormalizeTrigger(ParseStopCommand(said))}
  /\ UNCHANGED <<made, matched>>

StopAll ==
  /\ Done("/stopall")
  /\ stored' = {}
  /\ UNCHANGED <<made, matched>>

\* Every row that matches is replied to.
Match ==
  /\ Done("none")
  /\ matched' = {t \in stored : Matches(NormalizeMessage(said), t.text)}
  /\ UNCHANGED <<stored, made>>

Finish ==
  /\ pc = "done" /\ pc' = "idle"
  /\ said' = << >> /\ meant' = None /\ matched' = {}
  /\ UNCHANGED <<stored, made>>

Next == Receive \/ Filter \/ Stop \/ StopAll \/ Match \/ Finish

Spec == Init /\ [][Next]_vars

-----------------------------------------------------------------------------
(* Properties.                                                             *)

\* A text sent to the chat, at the moment it has been answered.
Answered == pc = "done" /\ GetCommandType(said) = "none"

\* "This ensures whole-word matching without false positives from partial word
\* matches." (openspec/changes/add-filter-system/specs/filter-engine/spec.md):
\* whatever was accepted as a trigger, a reply is sent only when its words
\* stand in the message one after the other.
OnlyWholeWords ==
  Answered => \A t \in matched : Mentions(said, t.text)

\* A trigger that stands in a message as it was stored, in any case, between
\* spaces, punctuation or the ends of the message, is found.
StandingIsFound ==
  Answered => \A t \in stored : StandsIn(said, t.text) => t \in matched

\* A command written as the documents say (docs/user/filters.md) is read as it
\* was meant: all its triggers, phrases and single words, with the response.
WrittenIsRead ==
  pc = "busy" /\ meant # None => ParseFilterCommand(said) = meant

\* Every trigger that any accepted command has stored, odd ones of spaces and
\* line breaks among them, is removed by a /stop that quotes it.
EveryTriggerCanBeStopped ==
  \A t \in stored : NormalizeTrigger(ParseStopCommand(StopCommand(t.text))) = t.text

\* "Triggers are matched as whole words anywhere in a message and are
\* case-insensitive." (handler.go:77, docs/user/filters.md): a trigger of one
\* word is found in a message that has this word.
WordIsFound ==
  Answered => \A t \in stored :
    Len(WordsOf(t.text)) = 1 /\ TrimSpace(t.text) = t.text /\ Mentions(said, t.text)
      => t \in matched
=============================================================================
