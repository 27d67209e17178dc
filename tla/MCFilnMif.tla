----------------------------- MODULE MCFilnMif -----------------------------
(***************************************************************************)
(* Small inputs for FilnMif: files of conditionals; files with macros whose *)
(* bodies hold conditionals, #exitmacro and other macros; names defined by  *)
(* each other, in circles too; files that include each other.               *)
(***************************************************************************)
EXTENDS FilnMifSafety

CONSTANTS a, b, c, main, inc, MaxIfs, MaxUses, MaxNames

MCNames == {a, b, c}
MCFileNames == {main, inc, "absent"}

Txt(v) == Number(v)
Use(n) == [Number(0) EXCEPT !.n = n]
Dir(k) == Mark(k)
About(k, n) == [Mark(k) EXCEPT !.n = n]
When(k, v) == [Mark(k) EXCEPT !.v = v]
Asks(k, h, n) == [Mark(k) EXCEPT !.h = h, !.n = n]
Def(n, v) == [About("define", n) EXCEPT !.v = v]
DefAs(n, m) == [About("define", n) EXCEPT !.to = m]
Macro(n, ls) == <<About("macro", n)>> \o ls \o <<Dir("endmacro")>>

One(ls) == main :> ls
MCHalves == {-6, 0}
UpTo(k, S) == UNION {[1..i -> S] : i \in 0..k}

(* Conditionals, and names they ask for.                                    *)
IfLines ==
  {Txt(1), When("if", 0), Asks("if", "defined", a), When("elif", 1), Asks("elif", "defined", a),
   Dir("else"), Dir("endif"), Def(a, 1), About("undef", a)}
IfSources == {One(ls \o <<Txt(2)>>) : ls \in UpTo(MaxIfs, IfLines)}

(* Macro bodies, and the lines that use them.                               *)
Bodies(n) ==
  { <<Txt(1)>>,
    <<When("if", 0), Use(n), Dir("endif")>>,
    <<Use(n), Txt(2)>>,
    <<Asks("if", "defined", n), Dir("exitmacro"), Dir("else"), Txt(3), Dir("endif"), Use(n)>>,
    <<When("if", 1), When("if", 1), Dir("exitmacro"), Dir("endif"), Dir("endif"), Use(n)>>,
    <<Dir("exitmacro"), Use(n), Txt(4)>>,
    <<When("if", 0), Dir("exitmacro"), Dir("elif"), Dir("endif"), Dir("error")>> }
UseLines ==
  {Use(a), Use(b), When("if", 0), Dir("else"), Dir("endif"), Dir("exitmacro")}
MacroSources ==
  {One(Macro(a, p) \o Macro(b, q) \o ls) :
     p \in Bodies(b), q \in Bodies(a), ls \in UpTo(MaxUses, UseLines)}

(* Names that stand for a number or a name, in every way, and are removed.  *)
NameLines ==
  {Def(a, 1), DefAs(a, b), DefAs(a, a), Def(b, 2), DefAs(b, a), About("undef", a), Use(a), Use(b),
   [About("set", a) EXCEPT !.v = 1]}
NameSources == {One(ls \o <<Use(a), Use(b)>>) : ls \in UpTo(MaxNames, NameLines)}

(* Values of names in conditions.                                           *)
ValueLines ==
  {Def(a, 1), DefAs(a, b), [About("set", a) EXCEPT !.v = 1], About("undef", a), Asks("if", "value", a),
   When("if", 0), Asks("elif", "value", a), Dir("endif")}
ValueSources == {One(ls \o <<Txt(2)>>) : ls \in UpTo(MaxNames, ValueLines)}

(* #includes, the nesting limits, and lines out of place.                   *)
IncLines ==
  {Txt(1), About("include", inc), About("include", main), About("include", "absent"),
   When("if", 0), Dir("endif")}
IncSources ==
  {(main :> p) @@ (inc :> q) : p \in UpTo(2, IncLines), q \in UpTo(2, IncLines)}
OddSources ==
  {One(ls) : ls \in
     { <<When("if", 1), When("if", 1), When("if", 1), When("if", 1), Txt(1)>>,
       <<When("if", 1), When("if", 0), When("if", 1), When("if", 0), Dir("endif"), Txt(1)>>,
       Macro(a, <<When("if", 1), Dir("exitmacro"), Dir("endif")>>)
         \o <<When("if", 1), Use(a), Dir("endif"), Use(a), Txt(1)>>,
       Macro(Nameless, <<Txt(1), Use(a)>>) \o Macro(Nameless, <<Txt(2)>>),
       Macro(a, <<Txt(1), About("undef", a), About("macro", b)>>) \o <<Use(a)>>,
       <<DefAs(a, b), DefAs(b, c), Def(c, 1), Use(a)>>,
       <<DefAs(a, b), DefAs(b, c), Def(c, 1), Use(b), Use(a)>>,
       <<DefAs(a, b), DefAs(b, c), DefAs(c, a), Use(a)>>,
       Macro(a, <<Use(b), Def(b, 1), Use(b)>>) \o <<Use(b), Use(a), Use(b)>>,
       Macro(a, <<About("include", a)>>) \o <<Use(a), Txt(1)>>,
       Macro(a, <<Txt(1), Use(b)>>)
         \o <<Def(b, 1), Asks("if", "value", a), Txt(2), Dir("else"), Txt(3), Dir("endif")>>,
       <<DefAs(a, b), DefAs(b, c), Def(c, 1), Asks("if", "value", b), Txt(2), Dir("endif"), Use(a)>>,
       <<DefAs(a, b), DefAs(b, c), Def(c, 1), Asks("if", "value", a), Txt(2), Dir("endif")>>,
       <<DefAs(a, b), DefAs(b, c), Def(c, 1), Use(a), Use(a), Txt(2)>>,
       Macro(a, <<Asks("if", "value", a), Dir("endif")>>) \o <<Use(a), Txt(1)>>,
       Macro(a, <<Asks("if", "value", b), Txt(1), Asks("elif", "value", c), Dir("endif"), Use(b)>>)
         \o <<Def(b, 0), Def(c, 1), Use(a), Use(a)>>,
       Macro(a, <<Dir("exitmacro"), Use(b)>>) \o Macro(b, <<Asks("if", "value", a), Dir("endif")>>)
         \o <<Use(b), Use(a)>>,
       <<DefAs(a, b), Asks("if", "value", c), Dir("endif"), Def(b, 1), Use(a), Use(a), Use(a), Use(a)>>,
       <<Def(a, 1), Use(a), Use(a), Use(a), Use(a), Asks("if", "value", b), Dir("endif"), Use(a)>>,
       <<About("macro", a), Txt(1)>>, <<Dir("endmacro"), Dir("error"), Dir("endif")>> }}

(* Macro bodies that are not closed: one that leaves an #if open skips its  *)
(* end, and #exitmacro then the rest of the input; one that ends its        *)
(* caller's #if; one that brings the end of a macro to life whose start was *)
(* skipped.                                                                 *)
OpenSources ==
  {One(Macro(a, ls) \o Macro(b, <<When("if", 0), Use(a), Dir("endif"), Txt(1)>>)
       \o us \o <<Txt(2), Dir("endif"), Txt(3), Dir("exitmacro"), Txt(4)>>) :
     ls \in {<<When("if", 0), Txt(1)>>, <<When("if", 1), Dir("exitmacro"), Txt(1)>>,
            <<Dir("endif"), Txt(1)>>, <<Dir("else"), Txt(1)>>},
     us \in {<<Use(a)>>, <<Use(b)>>, <<When("if", 1), Use(a)>>, <<When("if", 1), Use(b)>>,
            <<When("if", 1), When("if", 1), Use(a), When("if", 0), Dir("endif")>>,
            <<Use(a), Dir("endif"), Use(a), Dir("endif"), Use(a), Dir("endif"), Use(a)>>}}

MCSources == IfSources \cup MacroSources \cup NameSources \cup ValueSources
             \cup IncSources \cup OddSources \cup OpenSources

(* The others have closed macro bodies.                                     *)
ASSUME SourcesAssumption == \A s \in MCSources \ OpenSources : ClosedMacros(s)
=============================================================================
