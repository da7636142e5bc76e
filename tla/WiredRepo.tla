------------------------------ MODULE WiredRepo ------------------------------
(* `atlas wire install` and `uninstall` in a repository (src/cli/wire.ts,       *)
(* src/cli/gitHooks.ts): its own section, between two marker lines, in text      *)
(* files that others write too.  CLAUDE.md and AGENTS.md belong to a repository; *)
(* a git hook may be shared by all of them (core.hooksPath), so there the        *)
(* markers name the repository's path, and a path may begin with another's.      *)
(* An install writes file after file, and may die between two of them.          *)
EXTENDS Integers, SequencesExt

CONSTANTS
    Repos,
    PathBegins,                \* pairs <<r, q>>: the path of q may begin with that of r
    Commands,              \* what is asked for: [name, repo, ws]; names "install",
                           \* "memory" for an install of the hooks only, "uninstall"
    MaxCommands, MaxLines  \* bounds: commands, and lines the user adds

ASSUME WiredAssumption ==
    /\ Repos \cap {"none", "hook"} = {}
    /\ \A c \in Commands : /\ c.repo \in Repos /\ c.name \in {"install", "memory", "uninstall"}
                           /\ c.name # "uninstall" => c.ws \notin {"none", "cut", "removed"}
    /\ PathBegins \subseteq Repos \X Repos /\ {MaxCommands, MaxLines} \subseteq Nat

VARIABLES
    alike,                 \* the pairs of which it does
    md,                    \* CLAUDE.md of each repository
    gitHook,                  \* the git hook
    settings,              \* .claude/settings.json: the hooks in it, of {"ours", "theirs"},
                           \* or {"odd"} if it does not parse
    skills,                \* the repositories with the skills
    command,               \* under way: [name, repo, ws, left]
    last,                  \* of each repository, what was asked for last: "none",
                           \* "cut" short, "removed", or the workspace of an install
    own, mdCut,            \* history: the lines of the user; the repositories whose
    hookCut,               \* CLAUDE.md, and whose hook section, had a marker deleted
    commands

wiring == <<alike, md, gitHook, settings, skills, command, last, own, mdCut, hookCut, commands>>

NoCommand == [name |-> "none", repo |-> "none", ws |-> "none", left |-> <<>>]

WiringInit ==
    /\ alike \in {{}, PathBegins}
    /\ md = [r \in Repos |-> <<>>] /\ gitHook = <<>> /\ skills = {}
    /\ \E had \in {{"theirs"}, {"odd"}} : settings = [r \in Repos |-> had]
    /\ command = NoCommand /\ last = [r \in Repos |-> "none"]
    /\ own = {} /\ mdCut = {} /\ hookCut = {} /\ commands = 0

-----------------------------------------------------------------------------
(* Text: a sequence of lines [mark, repo, is]. *)
TextLine(mark, r, x) == [mark |-> mark, repo |-> r, is |-> x]
Section(r, ws) == <<TextLine("begin", r, ws), TextLine("end", r, ws)>>
UserLine(k) == TextLine("user", "none", k)

\* The line holds the text of r's marker.
Holds(line, mark, r) == line.mark = mark /\ (line.repo = r \/ <<r, line.repo>> \in alike)

\* From the first marker that opens to the first one that closes after it.
Spans(text, r) ==
    {s \in (DOMAIN text) \X (DOMAIN text) :
        /\ s[1] < s[2] /\ Holds(text[s[1]], "begin", r) /\ Holds(text[s[2]], "end", r)
        /\ \A i \in 1 .. s[1] - 1 : ~Holds(text[i], "begin", r)
        /\ \A j \in s[1] + 1 .. s[2] - 1 : ~Holds(text[j], "end", r)}

\* The span goes, and with it all of its last line that the pattern matched.
Replaced(text, s, r, section) ==
    SubSeq(text, 1, s[1] - 1) \o section
        \o (IF text[s[2]].repo = r THEN <<>> ELSE <<TextLine("scrap", "none", "none")>>)
        \o SubSeq(text, s[2] + 1, Len(text))

(* Mutant: a section is put at the end of the hook unless it is found whole. *)
HookWithUnlessWhole(r, ws) ==
    LET spans == Spans(gitHook, r)
    IN  IF spans = {} THEN gitHook \o Section(r, ws)
        ELSE Replaced(gitHook, CHOOSE s \in spans : TRUE, r, Section(r, ws))

\* installMarkerSection: a section that was opened is replaced, if it was closed.
HookWith(r, ws) ==
    LET spans == Spans(gitHook, r)
    IN  IF ~\E i \in DOMAIN gitHook : Holds(gitHook[i], "begin", r) THEN gitHook \o Section(r, ws)
        ELSE IF spans = {} THEN gitHook
        ELSE Replaced(gitHook, CHOOSE s \in spans : TRUE, r, Section(r, ws))

\* uninstallMarkerSection: every section of the repository goes.
HookWithout(r) ==
    LET gone[k \in 0 .. Len(gitHook)] ==
            IF k = 0 THEN gitHook
            ELSE LET text == gone[k - 1]  spans == Spans(text, r)
                 IN  IF spans = {} THEN text ELSE Replaced(text, CHOOSE s \in spans : TRUE, r, <<>>)
    IN  gone[Len(gitHook)]

\* writeMdBlock: the first section that is whole is replaced, or one is added.
MdWith(r, ws) ==
    LET spans == Spans(md[r], r)
    IN  IF spans = {} THEN md[r] \o Section(r, ws)
        ELSE Replaced(md[r], CHOOSE s \in spans : TRUE, r, Section(r, ws))

\* removeMdBlock: the first section that is whole goes.
MdWithout(r) ==
    LET spans == Spans(md[r], r)
    IN  IF spans = {} THEN md[r] ELSE Replaced(md[r], CHOOSE s \in spans : TRUE, r, <<>>)

-----------------------------------------------------------------------------
Asks(c) ==
    /\ command = NoCommand /\ commands < MaxCommands
    /\ commands' = commands + 1
    /\ command' = [name |-> c.name, repo |-> c.repo, ws |-> c.ws,
                   left |-> IF c.name = "memory" THEN <<"hook">> ELSE <<"settings", "md", "skills", "hook">>]
    /\ last' = [last EXCEPT ![c.repo] = "cut"]
    /\ UNCHANGED <<alike, md, gitHook, settings, skills, own, mdCut, hookCut>>

Turn(part) == command.left # <<>> /\ Head(command.left) = part

\* The file is done; the last one ends the command.
Moves ==
    LET rest == Tail(command.left)
        r == command.repo
    IN  /\ command' = IF rest = <<>> THEN NoCommand ELSE [command EXCEPT !.left = rest]
        /\ last' = IF rest # <<>> THEN last
                   ELSE [last EXCEPT ![r] = IF command.name = "uninstall" THEN "removed" ELSE command.ws]
        /\ UNCHANGED <<alike, own, mdCut, hookCut, commands>>

Removing == command.name = "uninstall"

\* A file that does not parse counts as an empty one: an install writes over it, a
\* removal leaves it.
WritesSettings ==
    /\ Turn("settings")
    /\ LET r == command.repo IN settings' = [settings EXCEPT ![r] =
           IF Removing THEN @ \ {"ours"} ELSE (@ \ {"odd"}) \cup {"ours"}]
    /\ Moves /\ UNCHANGED <<md, gitHook, skills>>

WritesMd ==
    /\ Turn("md")
    /\ LET r == command.repo
       IN  md' = [md EXCEPT ![r] = IF Removing THEN MdWithout(r) ELSE MdWith(r, command.ws)]
    /\ Moves /\ UNCHANGED <<gitHook, settings, skills>>

WritesSkills ==
    /\ Turn("skills")
    /\ skills' = IF Removing THEN skills \ {command.repo} ELSE skills \cup {command.repo}
    /\ Moves /\ UNCHANGED <<md, gitHook, settings>>

WritesHook ==
    /\ Turn("hook")
    /\ gitHook' = IF Removing THEN HookWithout(command.repo) ELSE HookWith(command.repo, command.ws)
    /\ Moves /\ UNCHANGED <<md, settings, skills>>

CommandDies ==
    /\ command # NoCommand
    /\ command' = NoCommand
    /\ UNCHANGED <<alike, md, gitHook, settings, skills, last, own, mdCut, hookCut, commands>>

\* The user adds a line at the end of a file, or deletes a marker from it.
AddsLine ==
    /\ command = NoCommand /\ Cardinality(own) < MaxLines
    /\ LET k == Cardinality(own) + 1
       IN  \/ gitHook' = Append(gitHook, UserLine(k)) /\ own' = own \cup {<<k, "hook">>} /\ UNCHANGED md
           \/ \E r \in Repos : /\ md' = [md EXCEPT ![r] = Append(@, UserLine(k))]
                               /\ own' = own \cup {<<k, r>>} /\ UNCHANGED gitHook
    /\ UNCHANGED <<alike, settings, skills, command, last, mdCut, hookCut, commands>>

DeletesMarker ==
    /\ command = NoCommand /\ mdCut \cup hookCut = {}
    /\ \/ \E i \in DOMAIN gitHook :
             /\ gitHook[i].mark \in {"begin", "end"}
             /\ gitHook' = RemoveAt(gitHook, i) /\ hookCut' = {gitHook[i].repo} /\ UNCHANGED <<md, mdCut>>
       \/ \E r \in Repos : \E i \in DOMAIN md[r] :
             /\ md[r][i].mark \in {"begin", "end"}
             /\ md' = [md EXCEPT ![r] = RemoveAt(@, i)]
             /\ mdCut' = {<<r, md[r][i].mark>>} /\ UNCHANGED <<gitHook, hookCut>>
    /\ UNCHANGED <<alike, settings, skills, command, last, own, commands>>

Wire ==
    \/ \E c \in Commands : Asks(c)
    \/ WritesSettings \/ WritesMd \/ WritesSkills \/ WritesHook
    \/ CommandDies \/ AddsLine \/ DeletesMarker

WiringSpec == WiringInit /\ [][Wire]_wiring

\* wireStatus.
HasMd(r) == \E i \in DOMAIN md[r] : md[r][i].mark = "begin"
HasHook(r) == \E i \in DOMAIN gitHook : Holds(gitHook[i], "begin", r)
Mode(r) ==
    LET parts == {"ours" \in settings[r], HasMd(r), r \in skills}
    IN  CASE parts = {TRUE} -> "full"
          [] parts = {FALSE} /\ HasHook(r) -> "memory-only"
          [] parts = {FALSE} /\ ~HasHook(r) -> "none"
          [] OTHER -> "partial"

-----------------------------------------------------------------------------
\* A user's line in a git hook survives every sequence of installs and removals, of
\* whichever repository, even after a marker was deleted by hand; unless the section
\* it was deleted from can be taken to end where another's does
\* (gitHooks.ts:186-192, 206-208).
HookLinesKept == \A x \in own : x[2] = "hook" /\ (hookCut = {} \/ alike = {}) => \E i \in DOMAIN gitHook : gitHook[i] = UserLine(x[1])

\* So does one in CLAUDE.md, unless a closing marker was deleted: then the next
\* install adds a section, and the one after it replaces all from the marker that
\* was left open (wire.ts:17-18, 182-193).
MdLinesKept ==
    \A x \in own : x[2] \in Repos /\ <<x[2], "end">> \notin mdCut =>
        \E i \in DOMAIN md[x[2]] : md[x[2]][i] = UserLine(x[1])

\* An install that is through has one section in the hook, of the workspace it was
\* given, and the repository is not said to lack anything; a removal that is through
\* leaves nothing; unless markers were deleted, or two paths begin alike.
LastIsDone ==
    \A r \in Repos : mdCut \cup hookCut = {} /\ (\A q \in Repos : {<<r, q>>, <<q, r>>} \cap alike = {}) =>
        /\ last[r] \notin {"none", "cut", "removed"} =>
              /\ {i \in DOMAIN gitHook : gitHook[i] = TextLine("begin", r, last[r])} # {}
              /\ Cardinality({i \in DOMAIN gitHook : gitHook[i].repo = r}) = 2
              /\ Mode(r) # "none"
        /\ last[r] = "removed" => Mode(r) = "none" /\ ~HasHook(r)

\* The lines of a repository in a text.
LinesOf(text, r) ==
    LET of[n \in 0 .. Len(text)] ==
            IF n = 0 THEN <<>> ELSE IF text[n].repo = r THEN Append(of[n - 1], text[n]) ELSE of[n - 1]
    IN  of[Len(text)]

\* A command for one repository leaves the gitHook sections of the others alone, unless
\* their paths begin with its own, or a section that lost a marker can be taken to end
\* where another's does, beyond theirs (gitHooks.ts:220-222).
OthersKept ==
    [][\A q \in Repos :
          /\ command # NoCommand /\ q # command.repo /\ <<command.repo, q>> \notin alike
          /\ hookCut = {} \/ alike = {}
          => LinesOf(gitHook', q) = LinesOf(gitHook, q)]_wiring

\* What is not of the command's repository stays, and what it asked for is done.
WiringKept == [](HookLinesKept /\ MdLinesKept /\ LastIsDone) /\ OthersKept
=============================================================================
