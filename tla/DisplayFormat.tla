--------------------------- MODULE DisplayFormat ---------------------------
(***************************************************************************)
(* The format strings of `#[snafu(display(..))]` and of doc comments: the  *)
(* names the macro reads out of one by hand (parse.rs), beside the names   *)
(* that `format_args!` takes its arguments by.                             *)
(*                                                                         *)
(* A format string is a sequence of characters; one letter stands for an   *)
(* identifier, a digit for the position of an argument.                    *)
(***************************************************************************)
EXTENDS Naturals, Sequences, FiniteSetsExt

Identifiers == {"a", "b"}
Digits == {"0"}
Character == Identifiers \union Digits \union {" ", "{", "}", ":"}

(* `s[i..].find(c)`, 0 for None.                                            *)
Find(s, c, i) ==
  LET at == {j \in i .. Len(s) : s[j] = c} IN IF at = {} THEN 0 ELSE Min(at)

(* What is left of the first colon.                                         *)
BeforeColon(s) ==
  IF Find(s, ":", 1) = 0 THEN s ELSE SubSeq(s, 1, Find(s, ":", 1) - 1)

(* Mutant: the second brace of an escape is taken for the start of an       *)
(* argument.                                                                *)
extract_field_names_SecondBrace(s) ==
  LET from[i \in 1 .. Len(s) + 1] ==
        LET open == Find(s, "{", i)
            close == Find(s, "}", open + 1)
            name == BeforeColon(SubSeq(s, open + 1, close - 1))
        IN  IF open = 0 THEN {}
            ELSE IF open < Len(s) /\ s[open + 1] = "{" THEN from[open + 1]
            ELSE IF close = 0 THEN {}
            ELSE {n \in {name} : n # << >>} \union from[open + 1]
  IN  from[1]

(* The names that are found, as a set.  After a name the search goes on     *)
(* right behind its `{`.                                                    *)
extract_field_names(s) ==
  LET from[i \in 1 .. Len(s) + 1] ==
        LET open == Find(s, "{", i)
            close == Find(s, "}", open + 1)
            name == BeforeColon(SubSeq(s, open + 1, close - 1))
        IN  IF open = 0 THEN {}
            ELSE IF open < Len(s) /\ s[open + 1] = "{" THEN from[open + 2]
            ELSE IF close = 0 THEN {}
            ELSE {n \in {name} : n # << >>} \union from[open + 1]
  IN  from[1]

(* `format_ident!` panics for anything else.                                *)
IsIdent(name) == Len(name) = 1 /\ name[1] \in Identifiers

-----------------------------------------------------------------------------
(* The reference: what `format_args!` makes of a string (std::fmt).         *)

(* How many of a brace stand in a row up to here.                           *)
Run(s, i) == LET start == {j \in 1 .. i : \A k \in j .. i : s[k] = s[i]}
             IN  i - Min(start) + 1

(* A brace in a row of an odd number of them is no escape: it opens an      *)
(* argument, if it is the last of the row.                                  *)
Opens(s) == {i \in DOMAIN s : /\ s[i] = "{"
                              /\ i < Len(s) => s[i + 1] # "{"
                              /\ Run(s, i) % 2 = 1}
Close(s, i) == Find(s, "}", i + 1)
Argument(s, i) == BeforeColon(SubSeq(s, i + 1, Close(s, i) - 1))

(* An argument is named, numbered or the next one, perhaps with blanks      *)
(* behind; every other `}` is one of a pair.                                *)
IsArgument(a) == /\ a # << >> => a[1] \in Identifiers \union Digits \union {" "}
                 /\ \A i \in DOMAIN a : i > 1 => a[i] = " "
IsFormat(s) ==
  /\ \A i \in Opens(s) : /\ Close(s, i) # 0
                         /\ \A j \in i + 1 .. Close(s, i) : s[j] # "{"
                         /\ IsArgument(Argument(s, i))
  /\ \A i \in DOMAIN s :
       s[i] = "}" /\ (i < Len(s) => s[i + 1] # "}") =>
         LET row == i - Run(s, i) + 1 .. i
         IN  Run(s, i) % 2 = 1 <=> \E o \in Opens(s) : Close(s, o) \in row

(* An argument that is taken by its position, or is the next one.           *)
TakesByPosition(s) ==
  \E i \in Opens(s) : LET a == Argument(s, i) IN a = << >> \/ a[1] \notin Identifiers

(* The names by which a format string takes arguments.                      *)
NamedArguments(s) ==
  {<<a[1]>> : a \in {b \in {Argument(s, i) : i \in Opens(s)} :
                      b # << >> /\ b[1] \in Identifiers}}
=============================================================================
