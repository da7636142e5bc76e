---------------------------- MODULE MCRepoGroups ----------------------------
EXTENDS RepoGroups

(* Three repositories: two have directories of one name, and each imports another's package. *)
ThreeRepos == <<"web", "api", "lib">>
Basenames == [r \in Repositories |-> IF r = "lib" THEN "lib" ELSE "app"]
Packages == [r \in Repositories |-> r]
NoteId(k) == <<"note", k>>
FileId(r) == <<"file", r>>
FolderId(r) == <<"folder", r>>
ImportId(p) == <<"import", p>>
Estate(notes, by, links, code, arcs) == [notes |-> notes, by |-> by, links |-> links, code |-> code, arcs |-> arcs]
(* The store of "web" may hold a file of "api" too; then "api" has a graph of its own. *)
FromWeb(shared) ==
    Estate({NoteId("w"), NoteId("both")}, [x \in {NoteId("both")} |-> NoteId("a")],
           {<<NoteId("w"), NoteId("a")>>, <<NoteId("w"), FileId("web")>>},
           {FileId("web"), FolderId("web"), ImportId("api")} \cup shared,
           {<<FileId("web"), ImportId("api")>>, <<FolderId("web"), FileId("web")>>})
FromApi == Estate({NoteId("a"), NoteId("both")}, <<>>, {<<NoteId("both"), NoteId("l")>>},
                  {FolderId("api"), FileId("api"), ImportId("api")}, {<<FileId("api"), ImportId("api")>>})
FromLib == Estate({NoteId("l"), FileId("web")}, <<>>, {}, {FolderId("lib"), ImportId("web")}, {})
SomeEstates ==
    {[r \in Repositories |-> CASE r = "web" -> x[1] [] r = "api" -> x[2] [] r = "lib" -> FromLib] :
        x \in {<<FromWeb({FileId("api")}), FromApi>>,
               <<FromWeb({}), Estate({NoteId("a")}, <<>>, {}, {}, {})>>}}
Place(remote, hint, memory, graph) == [remote |-> remote, hint |-> hint, memory |-> memory, graph |-> graph]
(* "api" has no checkout by its remote, or none by its path; "lib" lacks one of its files. *)
SomeMachines ==
    {[r \in Repositories |-> CASE r = "web" -> Place(TRUE, "directory", TRUE, TRUE)
                               [] r = "api" -> x[1] [] r = "lib" -> x[2]] :
        x \in {<<Place(TRUE, "missing", TRUE, TRUE), Place(FALSE, "directory", TRUE, TRUE)>>,
               <<Place(FALSE, "directory", TRUE, TRUE), Place(FALSE, "directory", FALSE, TRUE)>>,
               <<Place(FALSE, "absolute", TRUE, TRUE), Place(TRUE, "directory", TRUE, FALSE)>>}}
=============================================================================
