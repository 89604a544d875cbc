------------------------------ MODULE MCRomTags ------------------------------
(***************************************************************************)
(* ROMs of four words with every layout of modules one or two words long,  *)
(* so that a tag may lie inside another module, in the last word, or in a  *)
(* module that reaches past the end of the ROM.                            *)
(***************************************************************************)
EXTENDS RomTags

MCRomSize == 4

Tag(n, v, pri, cold, auto) ==
    [name |-> n, version |-> v, priority |-> pri, coldstart |-> cold, autoinit |-> auto]

\* Duplicates, one of them with another priority, which is higher than that of
\* other modules; a module too old and one of another class.
MCTags == { Tag("dos", 34, 0, TRUE, FALSE), Tag("dos", 35, 0, TRUE, FALSE),
            Tag("dos", 34, 60, TRUE, FALSE),
            Tag("timer", 33, 50, TRUE, FALSE), Tag("timer", 34, 50, TRUE, TRUE),
            Tag("strap", 34, -60, FALSE, FALSE), Tag("disk", 36, -60, TRUE, FALSE) }

Word(t, end) ==
    [tag |-> TRUE, end |-> end, name |-> t.name, version |-> t.version,
     priority |-> t.priority, coldstart |-> t.coldstart, autoinit |-> t.autoinit]

MCRoms ==
    {f \in [1 .. MCRomSize -> {Filler} \cup
                {Word(t, e) : t \in MCTags, e \in 2 .. (MCRomSize + 2)}] :
        \A a \in 1 .. MCRomSize : f[a] = Filler \/ f[a].end \in {a + 1, a + 2}}
=============================================================================
