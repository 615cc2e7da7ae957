------------------------------- MODULE MCEnv -------------------------------
(***************************************************************************)
(* Instances of Env, and with it of Fat12, for TLC.  The key "LONG" does   *)
(* not fit: the table keeps "LON" of it.  The word does not fit either: of *)
(* its five characters three are kept when it is set, and the defaults     *)
(* have one.  Two of the former and one of the latter fill the buffer,     *)
(* three of the former overflow it.                                        *)
(***************************************************************************)
EXTENDS Env, TLC

MCTrunc    == [k \in Keys |-> IF k = "LONG" THEN "LON" ELSE k]
MCWordLen  == [b |-> 5]
MCDefaults == <<Var("OS_NAME", [word |-> "b", n |-> 1])>>

File(k, c, n) == [kind |-> k, cluster |-> c, size |-> n]

\* A FAT of ten bytes: the media descriptor, and the entries of the clusters
\* in use.  The entry of cluster 3 is in both sectors.
Fat(next) == LET blank == [b \in 0 .. 9 |-> IF b = 0 THEN 240 ELSE IF b < 3 THEN 255 ELSE 0]
                 set(buf, c) == IF c \in DOMAIN next THEN SetCluster(buf, c, next[c]) ELSE buf
             IN set(set(set(blank, 2), 3), 4)

\* A volume of clusters 2 to 4 with the given directory and file.
Volume(files, next, chain, text) ==
    [root   |-> [e \in 0 .. 2 |-> files[e + 1]],
     fat    |-> [f \in 1 .. 2 |-> Fat(next)],
     data   |-> [c \in 2 .. 4 |-> IF c = 3 THEN text ELSE <<>>],
     chain  |-> chain,
     volume |-> TRUE]

Word(n) == <<Var("LON", [word |-> "b", n |-> n])>>

\* A file of two clusters, one of which shares a byte with the free one; a
\* deleted entry in front of an AIOS.ENV of two clusters; a full directory; and
\* a full disk.
MCDisks == {Volume(<<File("other", 4, 24), File("end", 0, 0), File("end", 0, 0)>>,
                   4 :> 2 @@ 2 :> 4095, <<>>, <<>>),
            Volume(<<File("other", 2, 7), File("deleted", 3, 0), File("env", 3, 24)>>,
                   2 :> 4095 @@ 3 :> 4 @@ 4 :> 4095, <<3, 4>>, Word(1)),
            Volume(<<File("other", 0, 0), File("other", 2, 7), File("other", 0, 0)>>,
                   2 :> 4095, <<>>, <<>>),
            Volume(<<File("other", 2, 24), File("other", 3, 7), File("end", 0, 0)>>,
                   2 :> 4 @@ 3 :> 4095 @@ 4 :> 4095, <<>>, <<>>)}

\* No volume: other bytes in the place of the FATs and the directory.
MCImages == {[root   |-> [e \in 0 .. 2 |-> File(IF e = 1 THEN "end" ELSE "other", 300 + e, 9)],
              fat    |-> [f \in 1 .. 2 |-> [b \in 0 .. 9 |-> IF b \in 6 .. 7 THEN 0 ELSE 20 * f + b]],
              data   |-> [c \in 2 .. 4 |-> Word(c - 2)],
              chain  |-> <<>>,
              volume |-> FALSE]}
=============================================================================
