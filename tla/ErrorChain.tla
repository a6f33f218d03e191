----------------------------- MODULE ErrorChain -----------------------------
(***************************************************************************)
(* An error on its way out of a program: it arises, is wrapped by other    *)
(* errors, one after the other, each of which may capture a backtrace, and *)
(* is reported at last.  The walks over the chain of sources are           *)
(* ChainCompat (src/src/error_chain.rs); whether a backtrace is captured   *)
(* is decided in src/src/lib.rs; the report is src/src/report.rs.          *)
(*                                                                         *)
(* Errors are numbered from the inside: error 1 has no source, error i     *)
(* holds error i - 1.  What an error answers, to `source` or to a request, *)
(* is what the derive macro generates for its kind.                        *)
(***************************************************************************)
EXTENDS Naturals, Sequences, FiniteSets

CONSTANTS Shape,    \* the types of errors of the program
          MaxDepth  \* bound: the number of errors of the chain

(* A text is a sequence of words and of what may stand between them.        *)
Word == {"a", "b"}
Token == Word \union {":", " "}

(* "error" stands for every derived error whose `source` is its source      *)
(* field; "opaque" is a tuple struct; "foreign" knows nothing of SNAFU.     *)
(* The Display of an error is `before`, the text of its source if it shows  *)
(* it, and `after`.  `backtrace` says what its backtrace field is: absent,   *)
(* a Backtrace, or an Option<Backtrace>; `provides` that this field is      *)
(* provided, as it is by its name unless it is #[snafu(provide(false))];    *)
(* `delegates` that its source field is #[snafu(backtrace)].                *)
Type == [kind : {"foreign", "error", "transparent", "opaque", "whatever"},
         before : Seq(Token), shows : BOOLEAN, after : Seq(Token),
         backtrace : {"none", "always", "optional"}, provides : BOOLEAN,
         delegates : BOOLEAN]

ASSUME ShapeAssumption ==
  \A t \in Shape :
    /\ t \in Type
    /\ t.kind \in {"transparent", "opaque"} => t.shows /\ t.before = << >> /\ t.after = << >>
    /\ t.kind \in {"foreign", "opaque"} => t.backtrace = "none"
    /\ t.kind = "whatever" => t.backtrace = "always" /\ t.provides /\ ~t.shows
    /\ t.provides => t.backtrace # "none"
    /\ t.delegates => t.kind \in {"error", "transparent"} /\ t.backtrace = "none"
ASSUME MaxDepthAssumption == MaxDepth \in Nat

VARIABLES provider,  \* the feature `unstable-provider-api`
          enabled,   \* backtrace_collection_enabled()
          cleaning,  \* trace_cleaning_enabled()
          chain,     \* the types of the errors, from the inside
          captured,  \* those of which the backtrace field holds a backtrace
          stage,     \* what happens to the error
          at,        \* where the walk over the chain is; 0 is its end
          messages,  \* Vec of the messages to show
          cleaned,   \* any_cleaned
          removed,   \* any_removed
          report     \* what has been written

config == <<provider, enabled, cleaning>>
error == <<chain, captured>>
walk == <<at, messages, cleaned, removed>>
vars == <<config, error, stage, walk, report>>

Outermost == Len(chain)
Position == 1 .. MaxDepth

-----------------------------------------------------------------------------
(* What the errors answer.                                                  *)

IsTransparent(i) == chain[i].kind \in {"transparent", "opaque"}

(* `Error::source`.  Transparent and opaque errors hand the question on.    *)
Source ==
  LET source[i \in 0 .. Outermost] ==
        IF i <= 1 THEN 0 ELSE IF IsTransparent(i) THEN source[i - 1] ELSE i - 1
  IN  source

(* `Display`, as a string.                                                  *)
Text ==
  LET text[i \in 0 .. Outermost] ==
        IF i = 0 THEN << >>
        ELSE chain[i].before \o (IF chain[i].shows THEN text[i - 1] ELSE << >>)
               \o chain[i].after
  IN  text

(* What ChainCompat::new(i) yields: i, its source, the source of that, ...  *)
Chain(i) ==
  LET visited[j \in 0 .. Outermost] ==
        IF j = 0 THEN {} ELSE {j} \union visited[Source[j]]
  IN  visited[i]

(* Mutant: provide(false) is forgotten.                                     *)
Provides_Unfiltered(i) == provider /\ i \in captured

(* `request_ref::<Backtrace>`: the backtrace field, if it is provided and   *)
(* holds one, is offered by `Error::provide`; nobody else's is.             *)
Provides(i) == provider /\ i \in captured /\ chain[i].provides

(* `backtraces(error)`                                                      *)
Backtraces(i) == {j \in Chain(i) : Provides(j)}

(* The last of the errors of a walk, 0 if there is none.                    *)
Last(S) == IF S = {} THEN 0 ELSE CHOOSE i \in S : \A j \in S : i <= j

(* Who answers when the answer is handed on                                 *)
Delegates(i) == chain[i].delegates \/ chain[i].kind = "opaque"

(* Mutant: an error answers for its source only if it is opaque.            *)
CompatBacktrace_OwnOnly ==
  LET answer[i \in 0 .. Outermost] ==
        IF i = 0 THEN 0
        ELSE IF chain[i].kind = "opaque" THEN answer[i - 1]
        ELSE IF i \in captured THEN i ELSE 0
  IN  answer

(* `ErrorCompat::backtrace`: the error of which the backtrace is returned,   *)
(* 0 for None.  No provider is needed.                                      *)
CompatBacktrace ==
  LET answer[i \in 0 .. Outermost] ==
        IF i = 0 THEN 0
        ELSE IF Delegates(i) THEN answer[i - 1]
        ELSE IF i \in captured THEN i ELSE 0
  IN  answer

(* known_whatevers_backtrace                                                *)
KnownWhatevers(i) == {j \in Chain(i) \ {i} : chain[j].kind = "whatever"}

(* `Whatever::backtrace`                                                    *)
WhateverBacktrace(i) == IF KnownWhatevers(i) = {} THEN i ELSE Last(KnownWhatevers(i))

-----------------------------------------------------------------------------
TypeOK ==
  /\ provider \in BOOLEAN /\ enabled \in BOOLEAN /\ cleaning \in BOOLEAN
  /\ chain \in Seq(Shape) /\ Len(chain) <= MaxDepth
  /\ captured \subseteq 1 .. Len(chain)
  /\ stage \in {"on its way", "walk", "reported"}
  /\ at \in 0 .. Len(chain)
  /\ messages \in Seq([of : Position, text : Seq(Token), marked : BOOLEAN])
  /\ cleaned \in BOOLEAN /\ removed \in BOOLEAN
  /\ report \in [heading : {"none", "this error", "these errors"},
                 note : {"none", "lines marked", "removed"},
                 backtrace : 0 .. MaxDepth]

Nothing == [heading |-> "none", note |-> "none", backtrace |-> 0]

Init ==
  /\ provider \in BOOLEAN /\ enabled \in BOOLEAN /\ cleaning \in BOOLEAN
  /\ chain = << >>
  /\ captured = {}
  /\ stage = "on its way"
  /\ at = 0
  /\ messages = << >>
  /\ cleaned = FALSE
  /\ removed = FALSE
  /\ report = Nothing

-----------------------------------------------------------------------------
(* The error on its way.                                                    *)

(* The implicit data of the new error: GenerateImplicitData::generate.      *)
Captures(t) == \/ t.backtrace = "always"
               \/ t.backtrace = "optional" /\ enabled

(* A `build()`, a `without_source`, or an error of somebody else's.         *)
Arise(t) ==
  /\ stage = "on its way"
  /\ chain = << >>
  /\ t.kind \in {"foreign", "error", "whatever"} /\ ~t.shows /\ ~t.delegates
  /\ MaxDepth > 0
  /\ chain' = <<t>>
  /\ captured' = {i \in {1} : Captures(t)}
  /\ UNCHANGED <<config, stage, walk, report>>

(* Mutant: the source is not asked.                                         *)
CapturesWithSource_Unasked(t) == Captures(t)

(* generate_with_source                                                     *)
CapturesWithSource(t) ==
  Captures(t) /\ (t.backtrace = "optional" => Backtraces(Outermost) = {})

(* An `into_error`, a `with_source` or a `from`.  Only an error of SNAFU    *)
(* can be asked for its backtrace, which an opaque error does.              *)
Wrap(t) ==
  /\ stage = "on its way"
  /\ Len(chain) \in 1 .. (MaxDepth - 1)
  /\ t.kind # "foreign"
  /\ t.kind = "opaque" \/ t.delegates => chain[Outermost].kind # "foreign"
  /\ chain' = Append(chain, t)
  /\ captured' = captured \union {i \in {Len(chain) + 1} : CapturesWithSource(t)}
  /\ UNCHANGED <<config, stage, walk, report>>

-----------------------------------------------------------------------------
(* The report: ReportFormatter::fmt.                                        *)

StartReport ==
  /\ stage = "on its way"
  /\ chain # << >>
  /\ stage' = "walk"
  /\ at' = Outermost
  /\ UNCHANGED <<config, error, messages, cleaned, removed, report>>

Message(i, text, marked) == [of |-> i, text |-> text, marked |-> marked]

(* The shortest prefix such that the rest of s is made of copies of t.      *)
TrimEndMatches(s, t) ==
  IF t = << >> THEN s
  ELSE LET Trimmed(n) == /\ (Len(s) - n) % Len(t) = 0
                         /\ \A j \in (n + 1) .. Len(s) :
                              s[j] = t[((j - n - 1) % Len(t)) + 1]
           shortest == CHOOSE n \in 0 .. Len(s) :
                         Trimmed(n) /\ \A m \in 0 .. (n - 1) : ~Trimmed(m)
       IN  SubSeq(s, 1, shortest)

(* Mutant: as much is cut off as the source would take.                     *)
CleanedText_ByLength(text, source) ==
  SubSeq(text, 1, IF Len(text) < Len(source) THEN 0 ELSE Len(text) - Len(source))

CleanedText(text, source) ==
  TrimEndMatches(TrimEndMatches(TrimEndMatches(text, source), <<" ">>), <<":">>)

(* CleanedErrorText::next                                                   *)
Cleaned(i) == IF Source[i] = 0 THEN Text[i] ELSE CleanedText(Text[i], Text[Source[i]])

(* Mutant: messages that vanish are not noted.                              *)
CleanNext_Unnoted ==
  /\ stage = "walk" /\ cleaning /\ at # 0
  /\ LET text == Cleaned(at)
         mark == text # Text[at]
     IN  IF text = << >>
         THEN UNCHANGED <<removed, cleaned, messages>>
         ELSE /\ messages' = Append(messages, Message(at, text, mark))
              /\ cleaned' = (cleaned \/ mark)
              /\ UNCHANGED removed
  /\ at' = Source[at]
  /\ UNCHANGED <<config, error, stage, report>>

(* The body of `cleaned_error_trace`'s `flat_map`.                          *)
CleanNext ==
  /\ stage = "walk" /\ cleaning /\ at # 0
  /\ LET text == Cleaned(at)
         mark == text # Text[at]
     IN  IF text = << >>
         THEN removed' = TRUE /\ UNCHANGED <<cleaned, messages>>
         ELSE /\ messages' = Append(messages, Message(at, text, mark))
              /\ cleaned' = (cleaned \/ mark)
              /\ UNCHANGED removed
  /\ at' = Source[at]
  /\ UNCHANGED <<config, error, stage, report>>

(* How the causes are announced.                                            *)
Heading(causes) ==
  IF causes = 0 THEN "none" ELSE IF causes = 1 THEN "this error" ELSE "these errors"

(* Mutant: the error itself is not skipped.                                 *)
Plurality_NotSkipped == IF Source[Outermost] = 0 THEN 1 ELSE 2

(* `plurality`: a walk of its own, of two steps at most, over the sources.  *)
Plurality ==
  IF Source[Outermost] = 0 THEN 0 ELSE IF Source[Source[Outermost]] = 0 THEN 1 ELSE 2

(* `error_trace` writes the first line and announces the causes, ...        *)
RawHead ==
  /\ stage = "walk" /\ ~cleaning /\ at # 0 /\ messages = << >>
  /\ messages' = <<Message(at, Text[at], FALSE)>>
  /\ report' = [report EXCEPT !.heading = Heading(Plurality)]
  /\ at' = Source[at]
  /\ UNCHANGED <<config, error, stage, cleaned, removed>>

(* ... and then writes each cause as it gets to it.                         *)
RawNext ==
  /\ stage = "walk" /\ ~cleaning /\ at # 0 /\ messages # << >>
  /\ messages' = Append(messages, Message(at, Text[at], FALSE))
  /\ at' = Source[at]
  /\ UNCHANGED <<config, error, stage, cleaned, removed, report>>

Note == IF messages = << >> \/ ~(cleaned \/ removed) THEN "none"
        ELSE IF cleaned THEN "lines marked" ELSE "removed"

(* `cleaned_error_trace` has collected its messages, and writes none of it  *)
(* if there are none; and `backtraces(self.0).last()`.                      *)
FinishReport ==
  /\ stage = "walk" /\ at = 0
  /\ report' = [heading |-> IF cleaning /\ messages # << >> THEN Heading(Len(messages) - 1)
                            ELSE report.heading,
                note |-> Note, backtrace |-> Last(Backtraces(Outermost))]
  /\ stage' = "reported"
  /\ UNCHANGED <<config, error, walk>>

Next == \/ \E t \in Shape : Arise(t) \/ Wrap(t)
        \/ StartReport \/ CleanNext \/ RawHead \/ RawNext \/ FinishReport

Spec == Init /\ [][Next]_vars

-----------------------------------------------------------------------------
(* The properties.                                                          *)

Words(text) == {text[n] : n \in DOMAIN text} \intersect Word

(* Cleaning takes away nothing that cannot be read further down: every word *)
(* that an error of the chain says is in a message of that error or of one  *)
(* that follows it, although texts repeat themselves and one another.       *)
NothingLost ==
  stage = "reported" =>
    \A i \in Chain(Outermost) :
      Words(Text[i]) \subseteq
        UNION {Words(messages[n].text) : n \in {m \in DOMAIN messages : messages[m].of <= i}}

(* The note is there when, and only when, the report is not what it would   *)
(* be without cleaning, and the marks are on the lines that differ; a       *)
(* report without any message has nothing to be noted.                      *)
NoteHolds ==
  stage = "reported" =>
    LET shown == {messages[n].of : n \in DOMAIN messages}
        differs == {n \in DOMAIN messages : messages[n].text # Text[messages[n].of]}
    IN  /\ \A n \in DOMAIN messages : messages[n].marked <=> n \in differs
        /\ report.note = "lines marked" <=> differs # {}
        /\ report.note = "removed" <=> /\ differs = {} /\ shown # {}
                                       /\ shown # Chain(Outermost)

(* The report goes through the chain once, from the outside in: there is a  *)
(* line for every error that a walk meets and that has anything left to     *)
(* say, and no other, and the heading, which the raw report writes before   *)
(* it knows, announces as many causes as follow the first line.             *)
CausesListed ==
  stage = "reported" =>
    LET told == {i \in Chain(Outermost) : cleaning => Cleaned(i) # << >>}
        causes == {i \in told : \E j \in told : i < j}
    IN  /\ {messages[n].of : n \in DOMAIN messages} = told
        /\ \A n, m \in DOMAIN messages : n < m => messages[n].of > messages[m].of
        /\ report.heading = "none" <=> causes = {}
        /\ report.heading = "this error" <=> \E i \in causes : causes = {i}

(* No backtrace is captured for an error that can show one already: of the  *)
(* optional ones that a walk meets, at whatever error it starts, the one    *)
(* that is there is the deepest of all.                                     *)
NoRedundantCapture ==
  provider =>
    \A i \in 1 .. Outermost : \A j \in Backtraces(i) :
      chain[j].backtrace = "optional" => \A k \in Backtraces(i) : j <= k

(* The backtrace of the report is the one from where the error arose, of    *)
(* those that are provided: errors that keep theirs to themselves neither   *)
(* have it shown nor keep others from taking one.  When collection is       *)
(* enabled it is that of the deepest error that provides one, of those that *)
(* the walk meets; unless that error is transparent and has left it to its  *)
(* source, which the walk passes by.                                        *)
FromWhereItArose ==
  stage = "reported" =>
    LET able == {i \in Chain(Outermost) : chain[i].provides}
    IN  /\ ~provider \/ able = {} => report.backtrace = 0
        /\ provider /\ enabled =>
             \A deepest \in able :
               (\A i \in able : deepest <= i) =>
                 \/ report.backtrace = deepest
                 \/ /\ chain[deepest].kind = "transparent"
                    /\ deepest \notin captured
                    /\ Backtraces(deepest - 1) # {}

(* Without providers there are two ways to a backtrace, and both lead as    *)
(* far inwards as errors that pass questions on let them.  A Whatever has   *)
(* the backtrace of the deepest Whatever inside it, but for those that a    *)
(* transparent or opaque error hides by answering for their source.  Any    *)
(* other error has that of the first error inwards that does not delegate,   *)
(* which always is one that can be asked.                                   *)
DeepestThatCanBeAsked ==
  \A i \in 1 .. Outermost :
    IF chain[i].kind = "whatever"
    THEN LET inside == {j \in 1 .. i : /\ chain[j].kind = "whatever"
                                       /\ j < i => ~IsTransparent(j + 1)}
         IN  WhateverBacktrace(i) \in inside /\ \A j \in inside : WhateverBacktrace(i) <= j
    ELSE \E asked \in 1 .. i :
           /\ chain[asked].kind = "foreign" => asked = i
           /\ ~Delegates(asked) /\ \A j \in (asked + 1) .. i : Delegates(j)
           /\ CompatBacktrace[i] = (IF asked \in captured THEN asked ELSE 0)

-----------------------------------------------------------------------------
(* What the documentation says and the code does not do.                    *)

(* "... opaque errors, which will expose all the provided data from the     *)
(* inner error type" (Snafu.md:773): who asks an opaque error for a         *)
(* backtrace gets the one that the inner error provides.                    *)
OpaqueExposesAll ==
  \A i \in 1 .. Outermost :
    chain[i].kind = "opaque" /\ Provides(i - 1) => Provides(i)
=============================================================================
