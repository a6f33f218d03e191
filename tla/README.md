# SNAFU in TLA+

Specifications, model-checking runs and machine-checked proofs for
[SNAFU](../src/README.md), the error library and derive macro. Paths below are
relative to the repository; `S` stands for `src/src` and `D` for
`src/snafu-derive/src`.

## The system

SNAFU has two halves that meet only in generated code.

**The derive macro** (`D`) runs in the compiler. It reads an enum or a struct,
classifies its fields and attributes, collects *every* diagnostic it can before
it gives up, and generates context selectors, `Display`, `Error`, `ErrorCompat`
and `From` or `FromString`. It is sequential; what is hard is that it goes on
after errors, that a dozen attributes interact, and that its last stage relies
on facts which its first stage has checked on another representation.

**The run-time library** (`S`) is called by the generated code and by the
program: extension traits on `Result`, `Option`, futures and streams, the chain
of errors, `Report`, backtraces that are collected or not depending on the
environment. State that outlives a call exists in two places: the flags read
from the environment (shared by all threads), and the futures and streams
(polled again and again by an executor that may do anything).

| component | source | state | operations | what makes it correct | status |
|---|---|---|---|---|---|
| OnceBool, environment flags | `S/once_bool.rs`, closures in `S/lib.rs`, `S/report.rs` | a `Once`, an `AtomicBool` | `get` | one answer for the whole program, from values the variables had; nobody waits for ever | modelled |
| Future combinators | `S/futures/try_future.rs` | the `Option` of a context in each layer | `poll` of four structs | an error is treated once by each layer; contexts survive Pending; no lost wake-up; no panic for a well-behaved executor | modelled |
| Stream combinators | `S/futures/try_stream.rs` | a context, or `FnMut`, per layer | `poll_next` of four structs | every error is treated by every layer, with a context of its own, for ever; an error ends nothing | modelled |
| Derive: fields | `D/parse/field_impl.rs`, `field_container_impl.rs`, `parse.rs` | collections, `SynErrors` | `parse_field`, `parse_field_container` | rejected for cause, every culprit named | modelled |
| Derive: generated code | `D/shared.rs`, `D/lib.rs` | none | the `ToTokens` impls | literals and patterns are whole; no claim is ignored; no assertion fails; the constructors name the right place and generate data from the right source | partly: all but tokens and generics |
| Derive: attributes | `D/parse.rs`, `D/parse/attr.rs`, `D/parse/*_impl.rs` | `AtMostOne` per attribute, `DocCommentBuilder` | `syn_attrs`, the six `from_syn` | no attribute vanishes; n duplicates give n - 1 diagnostics; conflicts blame all parties; the selector is the one asked for | modelled |
| Derive: enums, structs, tuple structs | `D/parse/*_impl.rs` | `SynErrors` | `parse_enum`, `parse_variant`, `parse_named_struct`, `parse_tuple_struct` | the user hears of every part that is wrong, wherever else something is wrong; no panic but for cause | modelled |
| Display formats | `D/parse.rs`, `D/shared.rs` | none | `extract_field_names`, `DisplayMatchArm` | the arguments passed are the ones `format_args!` looks for | modelled |
| Selector names and visibility | `D/lib.rs`, `D/shared.rs` | none | `resolve_name`, `generate_snafu` | the documented suffix rules; a selector reaches as far as it should, in a module or not | modelled |
| Extension traits, macros | `S/lib.rs`, `D/shared.rs` | none | `context`, `ensure!`, `whatever!`, `?`, ... | one layer per failure; closures called once, for errors only, before the error is converted; the error names the user's line | modelled |
| Error chain, backtraces, provided data | `S/lib.rs`, `error_chain.rs`, `whatever.rs` | an iterator's position | `next`, `backtrace`, `provide` | each error once, in order; the right backtrace, by each of the three ways to ask for it | partly: of provided data, backtraces only |
| Report, CleanedErrorText | `S/report.rs` | an iterator's position | `next`, `fmt` | only redundant text is removed; headings and notes agree with the lines | partly: traces, cleaning, headings, note, backtrace |
| report attribute, backtrace implementations, fallback `Error`, generics, guide | see `PROJECT.json` | none | | | not modelled: stateless, external or token plumbing |

How they interact: a selector's `into_error` (generated) calls
`GenerateImplicitData` (run time), which asks an OnceBool before it captures a
backtrace; `Report` asks another one before it cleans texts. The combinators
call `into_error` or `FromString::with_source` at the moment an error passes.
In the macro, the container's attributes are parsed first and give the selector
kind; the fields are parsed next and checked against it; the parts of an item are
joined; the result goes to the generators of `shared.rs`. `Attributes` and
`FieldContainer` are the two inner stages, `DeriveInput` is the outer one, which is
given what the inner ones make of each part. `CallSites` is where the run-time
functions and the generated constructors meet.

What is hard to test is listed, line by line, under `hazards` in `PROJECT.json`.

## The modules

| module | what it is |
|---|---|
| `WriteOnceFlag` | abstract: a Boolean decided at most once and told to everybody |
| `OnceBool` | the threads inside `get`, the `Once`, the probes of the closure, the environment |
| `OnceBoolProofs` | its proofs |
| `MappedFuture` | abstract: at most one error comes out, and it has been through every layer |
| `FutureContext` | the four futures stacked in any order, innermost future and executor |
| `FutureContextProofs` | its proofs |
| `MappedStream` | abstract: what the innermost stream gives comes out, in order, errors through every layer |
| `StreamContext` | the four streams stacked in any order, innermost stream and executor |
| `StreamContextProofs` | its proofs |
| `Diagnostics` | the collections shared by the two parsers below: `AtMostOne`, `SynErrors` |
| `Attributes` | from the attributes of one item to the diagnostics, or to what is kept of them |
| `AttributesProofs` | its proofs |
| `FieldContainer` | from the declared fields to the diagnostics, or to the generated code |
| `FieldContainerProofs` | its proofs |
| `DisplayFormat` | the names read out of a format string, and those `format_args!` takes |
| `DeriveInput` | from a whole item to the diagnostics, or to selectors and Display arms |
| `DeriveInputProofs` | its proofs |
| `WrappedErrors` | abstract: a statement adds one layer to a failure that concerns it |
| `CallSites` | the calls inside such statements, down to the implicit `Location` |
| `CallSitesProofs` | its proofs |
| `ErrorChain` | an error that arises, is wrapped, captures backtraces and is reported |
| `ErrorChainProofs` | its proofs |
| `MCOnceBool`, `MCFutureContext`, `MCStreamContext`, `MCAttributes`, `MCFieldContainer`, `MCDeriveInput`, `MCCallSites`, `MCErrorChain` | instances for TLC |

Operators whose name has an underscore (`EnterOnce_Unguarded`) are mutants: what
the definition after them would be with a plausible bug. No specification uses
them. With the mutant in place of the original, the run named beside it in
`PROJECT.json` finds the property violated; every property of a passing run has
one.

### OnceBool

Each thread has a `pc` in `get` (`once_bool.rs:19-26`). `EnterOnce` and
`PassOnce` are the two outcomes of `call_once`; a thread that finds the closure
running has neither, which is how it is blocked. The closure is one step per
environment variable (`ProbeNext`, `ProbeLast`), since `var_os` is a separate
read each time and `set_var` may come between; `Store`, `LeaveOnce` and `Load`
are the three accesses that follow. `Depth` is the number of variables: 2 for
`backtrace_collection_enabled` (`lib.rs:1413-1418`), 1 for
`trace_cleaning_enabled` (`report.rs:347`), which is the shorter of the two. `SetEnv` is the rest of the program.
`held` is a history variable: what each variable has been while the closure ran.
Not modelled: the closure itself never panics, so a poisoned `Once` cannot occur;
sequentially consistent memory is what the code asks for (`SeqCst`).

`Explained` is as strong as the code allows. With two variables the answer may
mix two moments: RUST_LIB_BACKTRACE is found unset, then set by somebody while
RUST_BACKTRACE is being removed, and the program goes without backtraces although
at every single moment one of the two said `1`. Nothing documents otherwise.

### FutureContext

A poll goes inwards (`Descend`) to the innermost future, which is external, and
its answer comes outwards (`Forward`, or `Take`, `Show`, `IntoError` or
`WithSource`). The four `poll` functions share the actions; where they differ,
in whether a closure is shown the error and in how it is wrapped, the action says
for which kinds it is enabled. `Expect` is the panic of `.expect("Cannot poll
... after it resolves")`, `UserPanics` a panic of code of the program that a layer
calls. The executor is external and unrestricted in `Spec`: it may poll without
having been woken, after completion and after a panic. `error` is the trail of the
layers that treated the error; the value itself is abstracted.

### StreamContext

The poll goes in and out as in FutureContext; what differs is what the code
differs in. A stream is polled after an error and, unless it is fused, after its
end, so that a layer must not use its context up: it clones it (`CloneContext`)
or calls its `FnMut` closure (`CallClosure`), which may keep state. `calls` counts
the calls, so that a context made for one error and used for another, or a closure
called for something that is not an error, can be told. The executor polls again
after every item, as a loop around `next().await` has to. The innermost stream is
external: it may give items, errors and ends in any order, and panic after its end.
A panic of the program's own code (`UserPanics`: the closure, a `Clone`, an `into`)
takes the error in flight with it, which `lost` remembers.

### Attributes

One item with a sequence of attributes at one of the six places the macro looks at.
The actions are the arms of the loop in the closures handed to `syn_attrs`, then
`finish_default` of every `AtMostOne`, then the checks of the place, then
`errors.finish`. An attribute is its kind and what of its argument is looked at:
whether a flag is enabled, and whether a doc comment is a line of words, a blank
line or a block of several paragraphs. The lists are flattened: `#[snafu(a, b)]`
is two attributes, `source(a, b)` is two as well, since the code splits it, and a
list that does not parse is a single one, "malformed", because `syn` gives up on
the rest of the list. `AtMostOnce`, `Repeatable` and `Misplaced` are the match
arms; `ValidOn` is what the messages of `attr.rs` say and is used by
`MessagesHold` only. `errors` is a set of places and texts: the order of the
diagnostics is not modelled.

Two things are as the code has them, though its texts say less. `context(suffix(..))`
on an enum, `module` on a variant and `source(from(..))` on a tuple struct are
accepted, while the messages about these attributes say that they are only valid
elsewhere; the first and the third have an effect and are in the guide, `module` on a
variant is read and then ignored. And `D/parse.rs:129` says that the text of a doc
comment ends with its summary, at the first empty line, but a block comment
(`/** .. */`) is one attribute, and its later paragraphs are part of the `Display`
text.

### ErrorChain

Errors are numbered from the inside, since that is how they come about: `Arise`
is a `build()` or an error of another library, `Wrap` every way to put an error
around another. What the generated code answers is in `Source`, `Text` and
`Provides`; transparent and opaque errors hand `source` on, so that a walk
(`Chain`) passes by the error inside them. A backtrace field is provided by being
one, unless it is `#[snafu(provide(false))]` (`D/shared.rs:933-936`): such a field
captures as the others do, but cannot be requested. `CapturesWithSource` is the
decision of `Option<Backtrace>`, taken when the error is made. The report is a walk,
one message at a time. With cleaning, `CleanNext` is an iteration of
`CleanedErrorText` and the closure that takes it, and the heading is chosen when all
the lines are there (`FinishReport`). Without it, `RawHead` is the beginning of
`error_trace`: the first line and the heading, for which `Plurality` takes a short
walk of its own over the sources; `RawNext` then writes a cause. Texts are
sequences of words, colons and spaces. Left out are locations and exit codes,
which are read from one error and kept nowhere, and the wording of the lines.
Collection and cleaning being enabled are inputs: OnceBool says that they do not
change. Left out too are a foreign error that provides a backtrace by itself, and
`provide(..)` attributes by which an error offers a backtrace that is not its
backtrace field's.

There are three ways to a backtrace: the walk with `request_ref`, for a report;
`ErrorCompat::backtrace`, which a delegating or opaque error answers with what its
source says (`CompatBacktrace`); and `Whatever::backtrace`, which takes that of the
deepest Whatever of the walk (`KnownWhatevers`). `DeepestThatCanBeAsked` says how far
the last two get; TLC found the exception it names, a Whatever right inside a
transparent or opaque error, which the walk passes by.

`FromWhereItArose` is about the errors that provide their backtrace. One that does
not, however deep, neither has it shown nor keeps an optional backtrace further out
from being captured, so that the report shows the next one out that is provided, as
the test `backtraces_can_be_not_automatically_provided` has it for a single error.
There is an exception, which TLC found: a transparent error with an optional
backtrace field captures nothing when its source can show a backtrace, and then
hides that source from the walk, so that the report has no backtrace from there.
It takes a field that few would put there.

`CausesListed` compares what the two reports say with the chain, not with each
other: the lines are those of the errors that a walk meets, each once and from the
outside in, but for those that cleaning leaves nothing of, and the heading announces
as many causes as follow. The raw heading is written before any cause is, by
another walk than the one that lists them.

### DeriveInput and DisplayFormat

An item is given with, for each of its parts (the variants of an enum, or the one
part that a struct is), what the inner stages will make of it: attributes good or bad,
fields named or unnamed, good, bad, or "hopeless" (they lack what the selector needs,
so that the display attribute is never looked at). `ParseVariant` is an iteration of
`parse_enum`'s loop, `FinishEnum` what follows it, the other actions are
`parse_named_struct`, `parse_tuple_struct` and the arm for unions; `Expand` is
`generate_snafu`. A panic takes the diagnostics with it. `Generated` is what a part
becomes: the selector's name (`trim_end_matches("Error")` and the suffix), how far it
reaches, which text `Display` uses and which fields are passed to it. A name is a
sequence of words; a reach is a number from 1, the context module, to 5, everywhere.

`DisplayFormat` has the reading of names out of a format string (`extract_field_names`),
and beside it what `format_args!` makes of the same string, written from its
documentation: `Opens`, `IsFormat`, `NamedArguments`. Left out are the width and
precision arguments `w$`, which the code does not look for either, and specifiers
other than blanks.

Not in the properties: an explicit `pub(super)` or private visibility is relative to the
context module if there is one, so it reaches less far than without; `ReachesAsWritten`
says what holds regardless. Not in the model: `module` on a variant, which has no
effect, and the name of a context module, which is `heck`'s work.

### CallSites

A program is a sequence of statements, each of which is given what the last returned:
nothing wrong, something wrong, or an error. A statement is a use of a macro or an
extension method, `?`, or a poll of a combinator that has an error, in a plain function,
in one that is `#[track_caller]`, or in a foreign combinator. A function is the sequence
of what it does (`EnsureMacro`, `ResultExt`, `IntoError`, `FromString`, ...), and the
actions execute it on a stack: `Call`, `Return`, `Test` (the `match`, which may leave
the function), `Treat` (a closure, a format string, the transformation of the source),
`Generate` (implicit data looks at the source, and asks where it is called from),
`Construct`, `Finish`. `Caller` is the compiler's rule for `Location::caller()`.
Each layer of an error remembers the statement that made it, what was done to it when it
was wrapped, its location and what its implicit data saw; the last two are what
`OwnPlace` and `DataSeesTheSource` are about, the first two what the refinement of
`WrappedErrors` tells. The Rust versions without `#[track_caller]` are left out.
`boxed` and `boxed_local` only change a type and have no statement of their own.

### FieldContainer

A field is a record of what its name and its attributes say; whether an
attribute is malformed, misplaced or repeated is one flag, `wellFormed`, because
all of these end `parse_field` the same way. The actions are the loop of
`parse_field_container` (one per arm), then its checks in their order, then
`errors.finish` and the expansion. `AttributeErrors` and `OptOutErrors` are the
two places where `parse_field` gives up. A built container is followed into
`shared.rs`: `Constructors` are the struct literals, each a sequence of groups of
initialisers in evaluation order, and `SourceArm`, `BacktraceArm`,
`ProvidedFields` say which field each generated method reads. The Display pattern
of transparent errors ends in `..` (`shared.rs:714`), so `EveryFieldMatched` asks
more of it than needed. What the selector is comes from the attributes of the
container, here an input.

## The runs

| run | bounds | states | shows |
|---|---|---|---|
| `once` | 3 threads, 2 variables, texts `1`, another, unset | 328 008 | `Agreement`, `Explained`, `Settled`, OnceBool implements WriteOnceFlag; `EveryCallReturns`, under fairness |
| `future` | every stack of 3 layers | 32 640 | `ErrorsAreWhole`, `ExpectHolds`, `SpentInwards`, `TakenForAnError`, implements MappedFuture; `WakeUpArrives`, under fairness |
| `stream` | every stack of 3 layers, 3 things given | 369 720 | `ErrorsAreWhole`, `OneCallPerError`, implements MappedStream; `EverythingFetched`, under fairness |
| `attributes` | 6 places, 3 attributes of every kind and value; a variant, 5 of the attributes that can be in conflict | 1 007 204 | `RejectedForCause`, `EveryCulpritNamed`, `NothingVanishes`, `SelectorAsWritten`, `MessagesHold` |
| `container` | up to 3 fields of 15 shapes; 1 field with every combination of attributes; all 4 selectors | 164 958 | `LiteralsAreWhole`, `EveryFieldMatched`, `NeverPanics`, `RejectedForCause`, `EveryCulpritNamed`, `ClaimsHonoured`, `OptOutsMatter` |
| `container_provide` | 1 field with every combination of attributes | | violated: see findings |
| `container_implicit` | as above | | violated: see findings |
| `input` | 3 variants with every mistake, 3 unnamed fields; 2 variants of every name of 3 words and suffix; every visibility; every text of 5 characters | 235 509 | `RejectedForCause`, `EveryPartHeard`, `NamesAsDocumented`, `ReachesAsWritten`, `ArgumentsMatch` |
| `input_panic` | display strings of up to 3 of `{`, `0`, `}` | | violated: see findings |
| `callsite` | every program of 2 statements, of 3 with the last two in plain functions | 290 416 | `OwnPlace`, `DataSeesTheSource`, implements WrappedErrors |
| `chain` | chains of up to 4 errors of 16 types, with and without providers, cleaning, backtraces | 1 444 608 | `NothingLost`, `NoteHolds`, `CausesListed`, `NoRedundantCapture`, `FromWhereItArose`, `DeepestThatCanBeAsked` |
| `chain_opaque` | as above, 2 errors | | violated: see findings |

Why the bounds are enough. Two threads show every race on the `Once`; the third
is one that waits while another has passed. Text other than `1` is all one case
(`v == "1"`). With three layers there is one that is neither innermost nor
outermost, of each kind and with every pair of neighbours. A stream that
has given three things has had an error before and after another answer, with its
end or a panic between them. Three attributes are the two parties of a conflict and
one that repeats either; since a repetition hides its kind from the checks that
follow, and as many as four kinds can be in conflict over the selector, five are tried
where these conflicts are. Three fields give a
first, a repeated and an unrelated one, and every conflict is between at most two;
the shapes left out of `MCShape` differ from those in it only in ways that
the fields tried by themselves enumerate in full. A chain of four has an error that hides another, one that wraps
both and one that is hidden, and texts that repeat the text below as a whole, twice, at
the front or at the end. Three variants give one that is wrong, one before and one after;
the kinds of mistake do not depend on names, visibilities and texts, which therefore have
items of their own. Five characters hold an escape next to an argument, an argument with
a colon, and the longest strings that mean something new; two adjacent arguments are tried
besides. Three statements make an error, wrap it and wrap it again. Theorems extend the
safety properties to every size. Deadlock is checked except for the parsers of
attributes and fields and the report, which stop when they have answered.

Fairness. `OnceBool`: weak fairness of each thread's steps inside `get`, that is,
the operating system schedules it; nothing is assumed of callers or of those who
rewrite the environment. Weak fairness is enough because a blocked thread stays
enabled once the flag is complete. `FutureContext`: a poll that has begun goes on
(it is an ordinary function call), and an executor polls a task that it has been
told to poll (the contract of `Future`). The innermost future need never complete.
`StreamContext`: the same, where an item is also a reason to poll.

## Findings

- `container_provide`: a field that is `source(from(A, f))` and `provide`, of type
  `B`, is provided as `provide_ref::<A>(field)` (`D/shared.rs:925`), while
  `S/Snafu.md:667-669` says the field is exposed as a reference. The expansion does
  not type-check, and `B` cannot be requested.
- `container_implicit`: `implicit(false)` is an error on every field
  (`D/parse/field_impl.rs:83-86`), while `S/Snafu.md:816-817` recommends it for a
  field wrongly taken for implicit data.
- `chain_opaque`: an opaque error provides nothing of what the error inside it provides
  (`D/lib.rs:913-929`), and `source` passes that error by, while `S/Snafu.md:773-774` says
  that opaque errors expose all of it. A report shows no backtrace through them, although
  `ErrorCompat::backtrace` does.
- `input_panic`: every name found in a format string is made an identifier by
  `format_ident!` (`D/parse.rs:676`), which panics for one that is none, so that
  `display("{0}", x)` ends the macro with a panic, as a text with `{a }` in it does, where
  `format_args!` allows the blank; `D/parse.rs:670-672` says that what cannot be parsed
  is left to the compiler. The diagnostics collected so far are lost.

## The proofs

Each of the eight specifications has a module of proofs. Every invariant that a passing
run checks is a theorem there, and so are the action property and the refinements. All
proofs hold for every value of the constants, under the assumptions that the
modules state about them (at least one variable or layer, `Unset` is not a text,
declarations are sequences of fields, types of errors are as the macro accepts them).
Each proof module has an inductive invariant `IInv`, with its type invariant as one conjunct,
a lemma per action, and the properties derived from it; type invariants are proved and
not checked again by TLC.

- `OnceBoolProofs`: the invariant says who is inside the closure (at most one
  thread, and none unless `start = "running"`), that the probes already passed were
  of variables that have been unset, and that the verdict, the stored value and
  every answer are explained by `held`. `Agreement` alone is not inductive: it needs
  that a complete flag never changes again. `KeepsPromise` is the refinement.
- `FutureContextProofs`: the invariant ties the trail of the error on its way to the
  position of the poll and to the contexts already taken, and the delivered error to
  all of them. From it follow the safety properties, `TakenForAnError` as an action
  property and the refinement of MappedFuture.
- `StreamContextProofs`: the same for a stream, where the trail, the calls of the
  closures and the contexts made from them go on; the refinement of MappedStream needs
  in addition what has been lost to a panic.
- `FieldContainerProofs`: the invariant says that the collections hold exactly the
  well-formed fields of their kind among those parsed so far, what an empty `errors`
  implies at each stage, what the container is built from, and that a recorded error
  means the declaration is not acceptable. Two lemmas carry `RejectedForCause`:
  no check complains of an acceptable container, and a container of which none
  complains is acceptable. The properties of the generated code follow from the
  four kinds being a partition of the declared fields. `EveryCulpritNamed` needs a second
  invariant, `NInv`: the surplus values of an `AtMostOne` are the fields that come after
  another of their kind, and the positions reported so far are exactly those that the
  stages behind have to report. `OptOutsMatter` is a fact about a single field that has
  no error of its own (`OptOutMeans`).
- `AttributesProofs`: the invariant says what every collection holds after the
  attributes parsed so far, and that the diagnostics are exactly those due for them;
  the theorems are its consequences when the item is rejected or built.
- `DeriveInputProofs`: the invariant says that the diagnostics are `Mistakes`, what is
  wrong with the item worked out without any order (`Due`), restricted to the variants
  parsed so far; and `StripIs` that the recursion of `StripError` finds the last word
  that is not `Error`. `ArgumentsMatch` rests on what `extract_field_names` does to any
  string: whenever its search starts over, an even number of opening braces is behind it
  in the row it is in (`Afresh`), so that a brace it takes for the start of an argument is
  one that `format_args!` takes for it too (`OpenIs`, `NamesAreArguments`). Since the
  argument is read up to the first `}` or `:`, the names agree where the macro does not
  panic (`Calm`, a second invariant, says that it has not).
- `ErrorChainProofs`: the recursive functions (`Source`, `Text`, `Chain`,
  `CompatBacktrace`) are shown to exist and to have a closed form, by induction over
  the length of the chain; that a chain that grows keeps what they say of its inside is
  what makes the invariants about captured backtraces inductive. `NothingLost` rests on
  `TrimIs`: what is cut off a text is made of copies of the source's text and of blanks
  and colons. For `CausesListed` the invariant says which of the errors already passed
  have a line, in which order (`Listed`), and what has been announced before all of them
  are (`Announced`); that `Plurality` and the number of lines both count the errors that
  follow the first are lemmas of their own (`SourcesFollow`, `LinesFollow`).
- `CallSitesProofs`: what a function does to the error in hand and to the implicit data is
  written down once, as an operator (`Does`), and so is what a function that has come to
  its n-th step still has to do (`Rest`). The invariant says that the functions on the
  stack, done with from the top to the bottom, come to what the statement as a whole does
  to the value it was given (`Continues`, `Outcome`), that the stack is a path through the
  calls the functions make (`Path`), and that a function that needs a source has one
  (`Sources`). A step does one function's part and leaves the rest, so that it comes to the
  same before and after; when the last function returns nothing is left, and what it
  returns is the outcome. That is what WrappedErrors asks for (`StatementsKeepThePromise`).
  `OwnPlace` and `DataSeesTheSource` alone are not inductive: a location is asked for
  several functions below the statement, and which place `Caller` finds depends on all
  the `#[track_caller]` functions in between, so that each function in `Continues` has
  its place (`PlacedAt`).

Induction is done with sets: a set of numbers that has every number whose predecessors it
has is everything (`UpTo`, from the well-foundedness of `<`), which needs no operator as
a parameter.

Only model-checked: `EveryCallReturns`, `WakeUpArrives` and `EverythingFetched`. They are
liveness properties under fairness, which the prover cannot express. A brace or a space in
a string makes its SMT backend fail, so that the proofs call the braces `Brace` and
`Closing`, and `CallSites` names its steps without spaces.

## Not modelled

Tokens and generics of the generated code; the wording, the order and the spans of
diagnostics; the grammar of attributes (`syn` parses them); provided data other than
backtraces, backtraces provided other than by their field, locations and exit codes in
reports, which are each read from one error and kept nowhere; the report attribute, a
rewriting of one function; the backtrace
implementations, which wrap an external one; the fallback `Error` trait, without
behaviour; the memory model below `SeqCst`, and the poisoning of a `Once`, whose closure
does not panic.

## Plan

The composition of `Attributes` and `FieldContainer` under `DeriveInput`, in place of the
given outcomes: a part is then its attributes and its fields, and `EveryPartHeard` follows
from the theorems about the two inner stages.
