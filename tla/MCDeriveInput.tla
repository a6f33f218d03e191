---------------------------- MODULE MCDeriveInput ----------------------------
(* Instances of DeriveInput for TLC.                                        *)
EXTENDS DeriveInput

AtMost(n, alphabet) == UNION {[1 .. m -> alphabet] : m \in 0 .. n}
Just(part) == [1 .. 1 -> part]

Undisplayed == [given : {FALSE}, text : {<< >>}, assigned : {{}}]
(* `{0}`, which the macro panics over.                                      *)
Positional == [given : {TRUE}, text : {<<"{", "0", "}">>}, assigned : {{}}]

(* Parts and items that are like others but for what is given.              *)
Looks(attrs, shape, fields, selector, display) ==
  [name : {<<"Foo">>}, attrs : attrs, shape : shape, fields : fields, fieldNames : {{}},
   selector : selector, suffix : {"default"}, visibility : {"unset"}, doc : {<< >>},
   display : display]
Named(names, selector, suffix) ==
  [name : names, attrs : {"ok"}, shape : {"named"}, fields : {"ok"}, fieldNames : {{}},
   selector : selector, suffix : suffix, visibility : {"unset"}, doc : {<< >>},
   display : Undisplayed]
Seen(visibility) ==
  [name : {<<"Foo">>}, attrs : {"ok"}, shape : {"named"}, fields : {"ok"}, fieldNames : {{}},
   selector : {"context"}, suffix : {"default"}, visibility : visibility, doc : {<< >>},
   display : Undisplayed]
Told(selector, doc, display) ==
  [name : {<<"Foo">>}, attrs : {"ok"}, shape : {"named"}, fields : {"ok"},
   fieldNames : {{<<"a">>}}, selector : selector, suffix : {"default"},
   visibility : {"unset"}, doc : doc, display : display]

Enum(attrs, module, suffix, visibility, parts) ==
  [shape : {"enum"}, attrs : attrs, module : module, suffix : suffix,
   visibility : visibility, parts : parts, unnamed : {<< >>}]
Struct(module, part) ==
  [shape : {"struct"}, attrs : {"ok"}, module : module, suffix : {"default"},
   visibility : {"unset"}, parts : Just(part), unnamed : {<< >>}]
Other(shape, attrs, unnamed) ==
  [shape : shape, attrs : attrs, module : {FALSE}, suffix : {"default"},
   visibility : {"unset"}, parts : {<< >>}, unnamed : unnamed]

(* Whatever can be wrong with up to three variants, with a struct, with up  *)
(* to three unnamed fields, and a union.                                    *)
MCWrong ==
  LET named == Looks({"ok", "bad"}, {"named"}, {"ok", "bad"}, {"context"},
                     Undisplayed \union Positional)
                 \union Looks({"ok", "bad"}, {"named"}, {"hopeless"}, {"whatever"},
                              Undisplayed \union Positional)
      unnamed == Looks({"ok", "bad"}, {"unnamed"}, {"ok"}, {"context"}, Undisplayed)
  IN  Enum({"ok", "bad"}, {FALSE}, {"default"}, {"unset"}, AtMost(3, named \union unnamed))
        \union Struct({FALSE}, named)
        \union Other({"tuple struct"}, {"ok", "bad"}, AtMost(3, {"ok", "bad"}))
        \union Other({"union"}, {"ok"}, {<< >>})

(* The names of two variants, with every way of changing them.              *)
MCNames ==
  LET names == AtMost(3, {"Foo", "Error"}) \ {<< >>}
      part == Named(names, {"context"}, Suffixes)
                \union Named({<<"Foo">>}, Selector, {"default"})
  IN  Enum({"ok"}, {FALSE}, Suffixes, {"unset"}, AtMost(2, part))

(* Every visibility of an enum and its variant, or of a struct, with a      *)
(* context module and without one.                                          *)
MCReaches == Enum({"ok"}, BOOLEAN, {"default"}, Visibility, Just(Seen(Visibility)))
               \union Struct(BOOLEAN, Seen(Visibility))

(* Every string of up to five characters, and some longer ones, as format   *)
(* or doc comment of a struct with one field; and short ones as both.       *)
MCTexts == AtMost(5, Character)
             \union {<<"{", c, "}", "{", d, "}">> : c \in Character, d \in Character}
MCFormats ==
  LET given(texts) == [given : {TRUE}, text : texts, assigned : {{}, {<<"a">>}}]
  IN  Struct({FALSE}, Told({"context"}, MCTexts, Undisplayed))
        \union Struct({FALSE}, Told({"context"}, {<< >>}, given(MCTexts)))
        \union Struct({FALSE}, Told({"context", "transparent"}, AtMost(3, Character), Undisplayed))
        \union Struct({FALSE}, Told({"context"}, AtMost(3, Character), given({<<"{", "a", "}">>})))

(* Display strings with arguments by position, of a struct without a doc    *)
(* comment.                                                                 *)
MCPositions ==
  LET texts == AtMost(3, {"{", "0", "}"})
  IN  Struct({FALSE}, Told({"context"}, {<< >>},
                           [given : {TRUE}, text : texts, assigned : {{}}]))

MCItems == MCWrong \union MCNames \union MCReaches \union MCFormats
=============================================================================
