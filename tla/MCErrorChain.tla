---------------------------- MODULE MCErrorChain ----------------------------
(* Instances of ErrorChain for TLC.                                         *)
EXTENDS ErrorChain

Plain(kind, before) ==
  [kind |-> kind, before |-> before, shows |-> FALSE, after |-> << >>,
   backtrace |-> "none", provides |-> FALSE, delegates |-> FALSE]
Showing(kind, before) == [Plain(kind, before) EXCEPT !.shows = TRUE]
Tracing(type, backtrace) == [type EXCEPT !.backtrace = backtrace, !.provides = TRUE]

(* Texts that repeat those of their source, in part, as a whole, or not.    *)
Texts == {
  Plain("foreign", <<"a">>), Plain("error", <<"b">>), Plain("error", <<"a", ":">>),
  Plain("error", <<"a", "a">>), Plain("error", << >>),
  Showing("error", << >>), Showing("error", <<"b", ":", " ">>), Showing("error", <<"a">>),
  [Showing("error", << >>) EXCEPT !.after = <<" ", "b">>]}

(* Backtraces, and who passes requests by.                                  *)
Data == {
  Showing("transparent", << >>), Showing("opaque", << >>),
  Tracing(Plain("whatever", <<"b">>), "always"),
  Tracing(Plain("error", <<"a">>), "optional"),
  [Plain("error", <<"a">>) EXCEPT !.backtrace = "optional"],
  [Plain("error", <<"b">>) EXCEPT !.delegates = TRUE],
  Tracing(Showing("transparent", << >>), "optional")}

MCShape == Texts \union Data
=============================================================================
