----------------------------- MODULE FactLedger -----------------------------
(***************************************************************************)
(* The ledger of what a conversation has said about people's skin, sweat   *)
(* and reactions (domain/conversationFacts.ts), and the part of it a reply *)
(* may use (domain/memoryProjection.ts).                                   *)
(*                                                                         *)
(* A message is what the patterns find in it:                              *)
(*   of        whose case it is about: a quoted review before a friend,    *)
(*             a friend before a sibling, oneself when nobody is named     *)
(*   product   the product it names                                        *)
(*   adverse   the bad reaction it names, or "vague": a word only one of   *)
(*             the two patterns takes ("red" alone, "very" for "burning")  *)
(*   evidence  "now" (still going on), "used" (after a use), "none"        *)
(*   hypo, past                                                            *)
(*   asks      what it asks instead of telling: "case" as the pattern of a *)
(*             present reaction reads it, "fact" as that of a reaction to  *)
(*             record does, "memory" (what was said before) as both do     *)
(*   says, gym, removed                                                    *)
(*             the facts it states outright, the gym's hours and the day   *)
(*             hair was removed among them, see Extracted                  *)
(*   cues      what the ledger's answers look for in it, see FactAnswer;   *)
(*             "consults" is the model's intent, or that it has none       *)
(*   history   it asks for what used to hold                               *)
(* Words, evidence text, subjects' labels and identifiers are left out.    *)
(***************************************************************************)
EXTENDS Integers, Sequences, FiniteSets, Functions

CONSTANT MaxFacts  \* 80: the facts a ledger keeps

Person == {"self", "friend", "sibling", "reviewer"}
Product == {"stopirex", "other_rollon", "unknown"}
Predicate == {"sweat_concern", "odor_severity", "skin_type", "skin_sensitivity_context",
              "exercise_schedule", "hair_removal_time", "hair_removal_reaction",
              "product_reaction"}
Reaction == {"irritation", "itching", "redness"}
Value == {"yes", "no", "none", "mild", "strong", "normal", "sensitive",
          "after_hair_removal", "morning", "evening", "yesterday", "today", "past"}
         \cup Reaction
Time == {"current", "past", "habitual", "today", "yesterday"}
Cue == {"recap", "skin", "compare", "owner", "concern", "order", "correction",
        "when", "allowed", "describe", "question", "consults"}

Message ==
  [of : Person, product : Product, adverse : Reaction \cup {"none", "vague"},
   evidence : {"none", "now", "used"}, hypo : BOOLEAN, past : BOOLEAN,
   asks : SUBSET {"case", "fact", "memory"}, history : BOOLEAN,
   says : SUBSET {"sweat", "mild", "normal", "sensitive", "sibling", "after_hair_removal",
                  "unhurt"},
   gym : {"none", "morning", "evening"}, removed : {"none", "today", "yesterday"},
   cues : SUBSET Cue]

\* What the model proposes as a fact: confident or not, backed by the message or not.
SemanticFact ==
  [predicate : Predicate, value : Value, target : Person,
   sure : BOOLEAN, backed : BOOLEAN]

\* The elements of s at the given positions, in their order.
Nth(positions, n) ==
  CHOOSE i \in positions : Cardinality({j \in positions : j < i}) = n - 1
Kept(s, positions) ==
  [n \in 1..Cardinality(positions) |-> s[Nth(positions, n)]]

\* A new value of these takes the place of the old one.
SingleValued == {"odor_severity", "skin_type", "exercise_schedule",
                 "hair_removal_time", "hair_removal_reaction"}

\* The customer's own reaction, going on now and not to another product: what
\* opens a care case.
OwnReaction(m) ==
  /\ m.adverse # "none" /\ m.of = "self" /\ m.product # "other_rollon"
  /\ m.asks \cap {"case", "memory"} = {}
  /\ \/ m.evidence = "now"
     \/ m.evidence = "used" /\ ~m.hypo

\* classifyConversationTurn: whose words these are and when they hold.
Source(m) ==
  IF m.hypo /\ ~OwnReaction(m) THEN "hypothetical"
  ELSE IF m.of = "reviewer" THEN "copied_review"
  ELSE IF m.of = "self" THEN "self_report" ELSE "third_party_report"

Scenario(m) ==
  IF OwnReaction(m) THEN "actual"
  ELSE IF m.hypo THEN "hypothetical" ELSE IF m.past THEN "past" ELSE "actual"

Claim(who, p, v, when) ==
  [subject |-> who, predicate |-> p, value |-> v, product |-> "none",
   temporal |-> when, scenario |-> "actual",
   source |-> IF who = "self" THEN "self_report" ELSE "third_party_report",
   sure |-> TRUE]

Told(found, claim) == IF found THEN <<claim>> ELSE <<>>

\* extractConversationFactClaims: what a message states outright, in the order it
\* is looked for, then the reaction.  Some count in the customer's own message
\* only; skin and the gym do not ask whose message it is.
Extracted(m) ==
  LET own(fact) == m.of = "self" /\ fact \in m.says
      reaction == [Claim(m.of, "product_reaction", m.adverse,
                         IF Scenario(m) = "actual" THEN "current" ELSE "past")
                     EXCEPT !.product = m.product, !.scenario = Scenario(m),
                            !.source = Source(m)]
  IN Told(own("sweat"), Claim("self", "sweat_concern", "yes", "habitual"))
     \o Told(own("mild"), Claim("self", "odor_severity", "mild", "habitual"))
     \o Told("normal" \in m.says, Claim("self", "skin_type", "normal", "current"))
     \o Told("sensitive" \in m.says /\ "memory" \notin m.asks,
             Claim("self", "skin_type", "sensitive", "current"))
     \o Told("sibling" \in m.says, Claim("sibling", "skin_type", "sensitive", "current"))
     \o Told(own("after_hair_removal"),
             Claim("self", "skin_sensitivity_context", "after_hair_removal", "habitual"))
     \o Told(m.gym # "none", Claim("self", "exercise_schedule", m.gym, "current"))
     \o Told(m.of = "self" /\ m.removed # "none",
             Claim("self", "hair_removal_time", m.removed, m.removed))
     \o Told(own("unhurt"),
             Claim("self", "hair_removal_reaction", "none",
                   IF m.removed = "none" THEN "past" ELSE m.removed))
     \o Told(m.adverse \in Reaction /\ m.asks \cap {"fact", "memory"} = {}, reaction)

\* normalizeFactValue and semanticEvidenceSupportsFact: a value of the model's is
\* one of the known values and the customer's own words, read alone, give it.
Backed(f) == f.sure /\ f.backed

\* semanticFactClaims: the model's facts.  Whom they are about is the model's
\* choice only in the customer's own message and not for a reaction.
SemanticClaims(m, fs) ==
  LET about(f) == IF f.predicate = "product_reaction" \/ m.of # "self" THEN m.of
                  ELSE f.target
      taken(f) == /\ Backed(f)
                  /\ about(f) = "self"
                       => Source(m) # "hypothetical" /\ "memory" \notin m.asks
      kept == Kept(fs, {i \in DOMAIN fs : taken(fs[i])})
  IN [i \in DOMAIN kept |->
        [Claim(about(kept[i]), kept[i].predicate, kept[i].value,
               IF Scenario(m) = "past" THEN "past" ELSE "current")
           EXCEPT !.product = IF kept[i].predicate = "product_reaction"
                                THEN m.product ELSE "none",
                  !.scenario = Scenario(m), !.source = Source(m)]]

\* deduplicateClaims: the first of the claims that differ in nothing but time.
Distinct(cs) ==
  LET same(c, d) == [c EXCEPT !.temporal = d.temporal] = d
  IN Kept(cs, {i \in DOMAIN cs : \A j \in 1..(i - 1) : ~same(cs[i], cs[j])})

Claims(m, fs) == Distinct(Extracted(m) \o SemanticClaims(m, fs))

\* eventIdentity: the day something happened, 0 for a lasting state.
EventDay(c, day) ==
  CASE c.temporal = "today" -> day
    [] c.temporal = "yesterday" -> day - 1
    [] OTHER -> 0

\* Mutant of SameEvent: the event is looked up at today's date.
SameEventToday(f, c, day) ==
  c.temporal \in {"today", "yesterday"} => f.day = day
\* sameEventIdentity
SameEvent(f, c, day) ==
  c.temporal \in {"today", "yesterday"} => f.day = EventDay(c, day)

\* One fact, or one claim, tells what the other does.
Alike(f, c) ==
  /\ f.subject = c.subject /\ f.predicate = c.predicate /\ f.value = c.value
  /\ f.product = c.product /\ f.temporal = c.temporal /\ f.source = c.source

Known(facts, c, day) ==
  \E i \in DOMAIN facts :
    facts[i].current /\ Alike(facts[i], c) /\ SameEvent(facts[i], c, day)

\* Mutant of Replaces: a value gives way to one of the same time only.
ReplacesSameTime(c, f) ==
  /\ f.current /\ c.predicate \in SingleValued
  /\ f.subject = c.subject /\ f.predicate = c.predicate /\ f.temporal = c.temporal
\* The fact a claim takes the place of.
Replaces(c, f) ==
  /\ f.current /\ c.predicate \in SingleValued
  /\ f.subject = c.subject /\ f.predicate = c.predicate

\* A claim as it is put down.
Recorded(c, day) ==
  [subject |-> c.subject, predicate |-> c.predicate, value |-> c.value,
   product |-> c.product, temporal |-> c.temporal,
   scenario |-> c.scenario, source |-> c.source,
   day |-> EventDay(c, day), seen |-> day, current |-> TRUE]

Record(facts, c, day) ==
  IF ~c.sure \/ Known(facts, c, day) THEN facts
  ELSE Append([i \in DOMAIN facts |->
                 IF Replaces(c, facts[i]) THEN [facts[i] EXCEPT !.current = FALSE]
                 ELSE facts[i]],
              Recorded(c, day))

\* The ledger after each of the claims.
Stages(facts, cs, day) ==
  LET after[n \in 0..Len(cs)] ==
        IF n = 0 THEN facts ELSE Record(after[n - 1], cs[n], day)
  IN after

\* slice(-80)
Newest(facts) == IF Len(facts) <= MaxFacts THEN facts
                 ELSE SubSeq(facts, Len(facts) - MaxFacts + 1, Len(facts))

\* reduceConversationFactLedger
Reduced(facts, m, fs, day) ==
  LET cs == Claims(m, fs)
  IN Newest(Stages(facts, cs, day)[Len(cs)])

Current(facts) == {f \in Range(facts) : f.current}

-----------------------------------------------------------------------------
(* The ledger's own answers *)

\* What the customer has reported of another roll-on, as
\* planConversationFactResponse looks it up.
OtherProduct(facts) ==
  \E f \in Current(facts) :
    /\ f.subject = "self" /\ f.predicate = "product_reaction"
    /\ f.product = "other_rollon"

No == [reason |-> "none", dismiss |-> FALSE]

\* An answer, and when it is given: the first one that can be is.
Rule(when, r, d) == [when |-> when, answer |-> [reason |-> r, dismiss |-> d]]
FirstAnswer(rules) ==
  LET open == {i \in DOMAIN rules : rules[i].when}
  IN IF open = {} THEN No ELSE rules[CHOOSE i \in open : \A j \in open : i <= j].answer

\* What was said before is told again.
Recalled(m) ==
  LET has(cue) == cue \in m.cues
  IN <<Rule(has("recap") /\ ~has("order"), "memory_recap", TRUE),
       Rule(has("skin") /\ "memory" \in m.asks, "memory_verification", TRUE),
       Rule(has("compare"), "subject_comparison", TRUE),
       Rule(has("owner"), "reaction_owner_verification", TRUE),
       Rule(has("concern"), "primary_concern_recall", TRUE)>>

\* What the message itself states is acknowledged.
Acknowledged(facts, m, cs) ==
  LET has(cue) == cue \in m.cues
      of(p) == {i \in 1..Len(cs) : cs[i].predicate = p}
      tells(p) == of(p) # {}
      says(who, p, v) == \E i \in of(p) : cs[i].subject = who /\ cs[i].value = v
      normal == says("self", "skin_type", "normal")
      unhurt == \E i \in of("hair_removal_reaction") :
                  /\ cs[i].value = "none"
                  /\ \A j \in of("hair_removal_reaction") : i <= j
      concern == \/ tells("odor_severity")
                 \/ tells("sweat_concern") /\ has("describe") /\ has("consults")
  IN <<Rule(m.of = "reviewer" /\ ~has("order"), "quoted_review_attribution", FALSE),
       Rule(m.of = "friend" /\ tells("product_reaction") /\ ~has("order"),
            "third_party_reaction_attribution", FALSE),
       Rule(normal /\ says("sibling", "skin_type", "sensitive"),
            "subject_skin_correction", TRUE),
       Rule(normal /\ OtherProduct(facts), "product_and_time_correction", TRUE),
       Rule(tells("exercise_schedule") /\ has("when"), "schedule_aware_usage", FALSE),
       Rule(tells("exercise_schedule") /\ has("correction"), "schedule_correction", FALSE),
       Rule(tells("hair_removal_time") /\ has("allowed"), "hair_removal_safety", FALSE),
       Rule(unhurt, "hair_removal_event_update", TRUE),
       Rule(tells("hair_removal_time") /\ has("correction"),
            "hair_removal_time_correction", TRUE),
       Rule(tells("skin_sensitivity_context") /\ ~has("question"),
            "skin_context_acknowledgement", FALSE),
       Rule(concern /\ ~has("question"), "primary_concern_acknowledgement", FALSE)>>

\* planConversationFactResponse
FactAnswer(facts, m, cs) == FirstAnswer(Recalled(m) \o Acknowledged(facts, m, cs))

-----------------------------------------------------------------------------
(* What a reply may use *)

\* excludedReason
Excluded(f, m, day) ==
  \/ ~f.current /\ ~m.history
  \/ f.scenario = "hypothetical"
  \/ f.source = "copied_review" /\ f.subject = "self"
  \/ f.temporal \in {"today", "yesterday"} /\ f.day = 0
  \/ f.seen > day

\* isStaleRelativeFact
Stale(f, day) ==
  f.temporal \in {"today", "yesterday"} /\ f.day # EventDay(f, day)

\* projectMemoryForTurn: the facts about the person in question a reply may say,
\* those the question touches being left to the environment.
MaySay(facts, m, day) ==
  {f \in Range(facts) : /\ ~Excluded(f, m, day) /\ ~Stale(f, day)
                        /\ f.subject = m.of}
=============================================================================
