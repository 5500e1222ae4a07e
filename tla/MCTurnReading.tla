---------------------------- MODULE MCTurnReading ----------------------------
\* The messages, texts and readings TurnReading is checked with.
EXTENDS TurnReading

Plain == [of |-> "self", product |-> "unknown", adverse |-> "none",
          evidence |-> "none", hypo |-> FALSE, past |-> FALSE, asks |-> {},
          says |-> {}, gym |-> "none", removed |-> "none", cues |-> {},
          history |-> FALSE]

Reacts(w, p, e) == [Plain EXCEPT !.of = w, !.product = p, !.adverse = "irritation",
                                 !.evidence = e]

\* Reactions of oneself and of a friend (once with a question about an order), to
\* either product, going on, past or imagined, or told while correcting the day hair was
\* removed.
Reactions ==
  {Reacts("self", "stopirex", "now"), Reacts("friend", "stopirex", "now"),
   [Reacts("friend", "stopirex", "now") EXCEPT !.adverse = "itching", !.cues = {"order"}],
   [Reacts("self", "other_rollon", "used") EXCEPT !.past = TRUE, !.gym = "evening",
                                                  !.cues = {"when"}],
   [Reacts("self", "stopirex", "used") EXCEPT !.hypo = TRUE, !.removed = "today"],
   [Reacts("self", "unknown", "now") EXCEPT !.removed = "today", !.cues = {"correction"}]}

\* Skin corrected, with a bare word for a reaction, and for a sibling; what the
\* ledger answers; little odor and no sting after waxing, of which the model may make
\* much odor and a sting.
Accounts ==
  {[Plain EXCEPT !.says = {"normal", "sensitive"}, !.adverse = "vague",
                 !.evidence = "now"],
   [Plain EXCEPT !.says = {"normal", "sibling"}, !.of = "sibling"],
   [Plain EXCEPT !.says = {"sweat", "after_hair_removal"}, !.gym = "morning",
                 !.history = TRUE],
   [Plain EXCEPT !.says = {"mild", "unhurt"}, !.removed = "yesterday",
                 !.cues = {"question"}, !.history = TRUE],
   [Plain EXCEPT !.removed = "yesterday", !.cues = {"recap"}, !.asks = {"memory"}]}

MCMessages == Reactions \cup Accounts

Proposed(p, v) == [predicate |-> p, value |-> v, target |-> "self",
                   sure |-> TRUE, backed |-> TRUE]
\* No fact of the model, or two that correct what the patterns find.
MCSemFacts ==
  {<<>>, <<Proposed("odor_severity", "strong"),
           Proposed("hair_removal_reaction", "irritation")>>}

Text == [explicit |-> "none", counts |-> {}, declines |-> FALSE, last |-> "none",
         raw |-> "none", issue |-> "none", scenario |-> "actual", stop |-> FALSE,
         topic |-> "none", lines |-> {}, exact |-> "none", effect |-> FALSE,
         policy |-> "none", otherProduct |-> FALSE, conditional |-> FALSE,
         collecting |-> FALSE, early |-> FALSE, interrupts |-> FALSE,
         direct |-> "none", hard |-> FALSE, confirms |-> FALSE, offer |-> "none",
         affirms |-> FALSE, data |-> FALSE]
Buying == [Text EXCEPT !.explicit = "two", !.counts = {"two"}, !.last = "select"]

MCTexts ==
  {[Buying EXCEPT !.raw = i] : i \in {"none", "irritation", "complaint"}}
  \cup {[Buying EXCEPT !.declines = TRUE, !.last = l] : l \in {"select", "decline"}}
  \cup {[Text EXCEPT !.raw = "irritation"], [Text EXCEPT !.stop = TRUE],
        [Text EXCEPT !.raw = "ineffective", !.declines = TRUE, !.last = "decline",
                     !.counts = {"two"}, !.offer = "price", !.affirms = TRUE],
        [Text EXCEPT !.raw = "ineffective", !.collecting = TRUE, !.data = TRUE,
                     !.policy = "price", !.topic = "price"],
        [Buying EXCEPT !.conditional = TRUE, !.effect = TRUE, !.lines = {"usage"}],
        [Text EXCEPT !.raw = "irritation", !.otherProduct = TRUE],
        [Text EXCEPT !.raw = "irritation", !.early = TRUE]}

Proposal(t, c, g, arg) ==
  [type |-> t, by |-> "llm", conf |-> c, ground |-> g, arg |-> arg]
Two == Proposal("select_quantity", 2, "verb", "two")
Refusals == {Proposal("decline_purchase", c, "words", "none") : c \in {0, 2}}
Cases == {Proposal("start_customer_care", 2, "words", "irritation"),
          Proposal("start_customer_care", 1, "none", "ineffective")}
Others == {Proposal("select_quantity", 1, "words", "one"),
           Proposal("handoff_to_human", 2, "words", "none")}
Reading(as, r) == [ready |-> r, sure |-> r, intent |-> "buying", aftersales |-> r,
                   unsupported |-> FALSE, aside |-> FALSE, actions |-> as,
                   scenario |-> "actual", replyTo |-> "none", doubts |-> FALSE]
Proposals == {{}} \cup {{a} : a \in Others} \cup {{a} : a \in Cases}
             \cup {{Two, a} : a \in {Two} \cup Refusals \cup Cases}
MCReadings == {Reading(as, TRUE) : as \in Proposals}
              \cup {Reading({}, FALSE)}
              \cup {[Reading({}, TRUE) EXCEPT !.aside = TRUE, !.unsupported = TRUE]}
=============================================================================
