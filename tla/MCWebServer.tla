---------------------------- MODULE MCWebServer ----------------------------
(***************************************************************************)
(* Instances of WebServer: a file, a directory and a program, the requests *)
(* that take each route of process_rq, and the directories they meet.      *)
(***************************************************************************)
EXTENDS WebServer, TLC

CONSTANTS m, w1, w2, c1, c2, file, dir, prog

MCPaths == {file, dir, prog}

Ask(method, path) == [cmd |-> method, path |-> path]

\* One request for each route.
MCRequests ==
  { Ask("GET", file), Ask("HEAD", file), Ask("GET", dir), Ask("HEAD", dir),
    Ask("GET", prog), Ask("HEAD", prog), Ask("BREW", file) }

\* For the liveness run: a page, which may be missing.
MCFewRequests == { Ask("GET", file) }

Site(kind) == [path \in MCPaths |->
  CASE path = file -> kind [] path = dir -> "dir" [] path = prog -> "short"]

\* The page is short or long, unreadable or gone.
MCSites == {Site(kind) : kind \in {"short", "long", "noperm", "missing"}}

\* Also a directory whose program is gone.
MCSitesNoProgram ==
  MCSites \cup {[Site("short") EXCEPT ![prog] = "missing"]}

MCFewSites == {Site("short"), Site("missing")}

MCSymmetry == Permutations({w1, w2}) \cup Permutations({c1, c2})
=============================================================================
