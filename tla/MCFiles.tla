------------------------------ MODULE MCFiles ------------------------------
(* An instance of Files for TLC: a root with a link to /tmp, a link to     *)
(* itself and a terminal.                                                  *)
EXTENDS Files, TLC

MCRootDir == [tmp |-> "DIR", l |-> "SYMLINK", o |-> "SYMLINK", con |-> "DEV"]
MCName == {"a", "b"} \cup DOMAIN MCRootDir
MCLink == [l |-> <<"tmp">>, o |-> <<"o">>]

\* Two places for tmpfs, /tmp and the link to itself, which vfs_mount does not
\* look up, and what a race in its table may leave: a name twice, and a page that
\* is not counted.
MCMountPaths == {<<"tmp">>, <<"o">>}
Torn == [node |-> [i \in Ino |-> [BlankInode EXCEPT
           !.active = TRUE, !.type = IF i = RootIno THEN "DIR" ELSE "FILE",
           !.name = IF i = RootIno THEN NoName ELSE "a", !.page = i # RootIno]],
         used |-> 0, torn |-> TRUE]
MCTables == {Torn}

Call(op, path) == [op |-> op, path |-> path, to |-> << >>, flags |-> {}]
Open(path, flags) == [op |-> "open", path |-> path, to |-> << >>, flags |-> flags]

\* Calls of every kind, by names that collide and through the link.
MCCalls == { Open(<<"tmp", "a">>, {"creat", "trunc", "append"}),
             Open(<<"con">>, {}), Call("stat", <<"o">>), Call("unlink", <<"l", "a">>),
             Call("mkdir", <<"tmp", "a">>),
             [op |-> "rename", path |-> <<"tmp", "a">>, to |-> <<"tmp", "b">>,
              flags |-> {}],
             [op |-> "link", path |-> <<"tmp", "b">>, to |-> <<"tmp", "a">>,
              flags |-> {}] }

MCSym == Permutations(Proc)
=============================================================================
