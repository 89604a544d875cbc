------------------------------ MODULE MCDebugger ------------------------------
(***************************************************************************)
(* Every type with the flags, widths and values that matter to it, between *)
(* two literals; and scripts of several directives and of several calls,   *)
(* patterns that break off among them.  Pointers and negative words, which *)
(* are not shown as they mean, are left out.                               *)
(***************************************************************************)
EXTENDS Debugger

MCStrings == (8 :> <<"o", "k">>) @@ (131072 :> <<"l", "o", "n", "g">>)

Numbers ==
    {Shown(f, w, FALSE, t, v) :
        f \in {<< >>, <<"-">>, <<"'">>, <<"-", "'">>}, w \in {0, 4, 12}, t \in {"d", "u"},
        v \in {0, 7, 999, 1000, 32767}}
    \cup {Shown(f, w, FALSE, "u", v) :
        f \in {<< >>, <<"'">>}, w \in {0, 8}, v \in {32768, 65535}}
    \cup {Shown(f, w, TRUE, "d", v) :
        f \in {<< >>, <<"'">>}, w \in {0, 8}, v \in {-1, -1000, 70000, 1234567}}
    \cup {Shown(f, w, FALSE, "x", v) :
        f \in {<< >>, <<"#">>, <<"#", "-">>}, w \in {0, 6}, v \in {0, 10, 255, 4096}}

Others ==
    {Shown(f, w, FALSE, "s", v) : f \in {<< >>, <<"-">>}, w \in {0, 3}, v \in {0, 8, 131072}}
    \cup {Shown(<< >>, w, FALSE, "b", v) : w \in {0, 3}, v \in {0, 8}}
    \cup {Shown(f, w, FALSE, "c", v) : f \in {<< >>, <<"-">>}, w \in {0, 2}, v \in {10, 65}}
    \cup {Shown(<< >>, 0, FALSE, "%", 0)}

Around(m) == << << Literal(<<"<">>), m, Literal(<<"\n">>) >> >>

MCScripts ==
    {Around(m) : m \in Numbers \cup Others}
    \cup { << << Shown(<< >>, 0, FALSE, "d", 1), Shown(<< >>, 0, FALSE, "s", 8),
                Shown(<< >>, 0, TRUE, "d", -2), Shown(<< >>, 0, FALSE, "x", 3) >>,
             << Shown(<< >>, 3, FALSE, "b", 8), Shown(<< >>, 0, FALSE, "u", 4) >> >>,
           << << >>, << Literal(<<"\n", "\n">>) >>, << Shown(<< >>, 0, FALSE, NUL, 0) >> >>,
           << << Literal(<<"<">>), Shown(<<"'">>, 3, TRUE, NUL, 0) >> >> }

\* The hypothesis of the theorems about what is printed holds of the scripts.
ASSUME MCReadable ==
    \A s \in MCScripts : IsSequence(s) /\ \A i \in DOMAIN s : Readable(s[i])

\* It does not hold of pointers, which are printed without their leading zeros,
\* nor of negative words, which are printed as if they had no sign.
ASSUME MCUnreadable ==
    /\ \A v \in {0, 4, 70000} : ~Readable(<< Shown(<< >>, 0, FALSE, "p", v) >>)
    /\ \A v \in {32768, 65535} : ~Readable(<< Shown(<< >>, 0, FALSE, "d", v) >>)
===============================================================================
