---------------------------- MODULE MCProviderSave ----------------------------
(***************************************************************************)
(* Two transfers of a share with two files, into one folder or two.        *)
(***************************************************************************)
EXTENDS ProviderSave

Shared(n, c) == Entry(Share, n, FALSE, c, TRUE, None)
In0(n, dir, c) == Entry(Root, n, dir, c, TRUE, None)

Job(folder, source) ==
  [folder |-> folder, source |-> source, name |-> IF source = 1 THEN "f" ELSE "g", content |-> IF source = 1 THEN "c" ELSE "d"]

\* Each file into a folder of its own, or the first one into both.
MCAssignments == {[j \in {1, 2} |-> Job(IF j = 1 THEN "T" ELSE "U", j)],
                  [j \in {1, 2} |-> Job(IF j = 1 THEN "T" ELSE "U", 1)]}

\* One folder is there, on the second page, and holds an entry; the other is not.
MCDrives == {<<Shared("f", "c"), Shared("g", "d"), In0("T", TRUE, ""), In0("x", FALSE, "x"),
               In0("y", FALSE, "y"), Entry(3, "x", FALSE, "x", TRUE, None)>>}

\* A file of the name of a folder; one of the name of a job with other content, and
\* one with the same.
MCOthers == {In0("U", FALSE, "z"), Entry(Gone, "f", FALSE, "z", TRUE, None),
             Entry(Gone, "f", FALSE, "c", TRUE, None)}
===============================================================================
