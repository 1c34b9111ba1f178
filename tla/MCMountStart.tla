---------------------------- MODULE MCMountStart ----------------------------
(* Instances of MountStart for TLC.                                        *)
EXTENDS MountStart

CONSTANTS a1, a2, t1, t2

Blank == <<[key |-> "blank", nl |-> TRUE]>>
Other == <<[key |-> "other", nl |-> TRUE]>>
Line(key, v) == <<[key |-> key, val |-> v, nl |-> TRUE]>>

Entry(a, g) == [addr |-> a, glued |-> g]

ServerLists == {<<Entry(a1, FALSE)>>, <<Entry(a1, FALSE), Entry(a2, FALSE)>>,
                <<Entry(a2, FALSE), Entry(a1, TRUE)>>,
                <<Entry(a1, FALSE), Entry(a2, FALSE), Entry(a1, FALSE)>>}

Heads == {<<>>, Line("errorlog", t1) \o Line("cache_size", t2) \o Line("raid", 1)}

Raids == {<<>>} \cup {Line("raid", r) : r \in {1, 5, 4}}
Servers == {Line("servers", s) : s \in ServerLists}
Mounts == {<<>>, Line("mountpoint", t1)}
Rest == Line("diskname", t2) \o Line("hotswap", a1)

\* The first disk: any values, keys missing, in two orders
Firsts == UNION {{Rest \o m \o r \o s, s \o r \o m} : m \in Mounts, r \in Raids, s \in Servers}
          \cup {m \o r : m \in Mounts, r \in Raids}

\* The second: complete, or with a key repeated, or something unknown
Seconds ==
    {Rest \o Line("mountpoint", t2) \o Line("servers", <<Entry(a1, FALSE), Entry(a2, FALSE)>>)
        \o Line("raid", 5),
     Line("raid", 5) \o Line("mountpoint", t2) \o Line("mountpoint", t1) \o Line("timeout", t1)
        \o Line("raid", 1) \o Line("servers", <<Entry(a2, FALSE), Entry(a1, FALSE)>>),
     Other}

\* The first again, for files with a second
Few == {Rest \o Line("mountpoint", t1) \o r \o Line("servers", <<Entry(a1, FALSE), Entry(a2, FALSE)>>)
           : r \in {Line("raid", 1), <<>>}}
       \cup {Line("raid", 5) \o Other}

Whole == {<<>>, Blank, Blank \o Blank} \cup Heads
         \cup {h \o Blank \o d : h \in Heads, d \in Firsts}
         \cup {Blank \o d \o Blank \o e : d \in Few, e \in Seconds}
         \cup {Blank \o d \o Blank \o Blank \o e : d \in Few \ Firsts, e \in Seconds}
         \cup {Blank \o Blank \o e : e \in Seconds}

\* The last line without its newline
Unended(f) == [f EXCEPT ![Len(f)].nl = FALSE]

MCFile == Whole \cup {Unended(f) : f \in {g \in Whole : g # <<>> /\ g[Len(g)].key # "blank"}}
=============================================================================
