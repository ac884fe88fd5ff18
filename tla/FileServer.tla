----------------------------- MODULE FileServer -----------------------------
(* Which answer a request for a path gets (netserve/fileserver.go), and a    *)
(* client that follows the redirects.  A URL is a sequence of names and      *)
(* whether a slash ends it; fs maps paths to "dir", "file", "denied" (no     *)
(* permission to open it) or "broken" (another error), the root being <<>>.  *)
EXTENDS Naturals, SequencesExt

CONSTANTS
  Names,        \* names of files and directories ...
  Index,        \* ... one of which is index.html
  FileSystems,  \* the trees of files that may be served
  Paths,        \* the paths that clients ask for
  NoReply

Parent(path) == Front(path)
Base(path) == Last(path)

Kinds == {"dir", "file", "denied", "broken"}

\* What is not at the root is in a directory.
ASSUME FileServerAssumption ==
  /\ Index \in Names /\ Paths \subseteq Seq(Names)
  /\ \A t \in FileSystems :
       /\ <<>> \in DOMAIN t /\ t[<<>>] = "dir"
       /\ \A p \in DOMAIN t : /\ p \in Seq(Names) /\ t[p] \in Kinds
                              /\ p # <<>> => Parent(p) \in DOMAIN t /\ t[Parent(p)] = "dir"

VARIABLES
  fs,
  asked,   \* the URL that the client asked for first
  url,     \* the URL that it asks for now
  hops,    \* redirects that it has followed
  answer   \* its answer in the end: a code, and the path of the content

fileVars == <<fs, asked, url, hops, answer>>

URLs == [path : Paths \ {<<>>}, slash : BOOLEAN] \cup {[path |-> <<>>, slash |-> TRUE]}

FileTypeOK ==
  /\ fs \in FileSystems /\ asked \in URLs /\ hops \in Nat
  /\ url.path \in Seq(Names) /\ url.slash \in BOOLEAN /\ (url.path = <<>> => url.slash)

FileInit ==
  /\ fs \in FileSystems
  /\ asked \in URLs /\ url = asked
  /\ hops = 0 /\ answer = NoReply

Kind(path) == IF path \in DOMAIN fs THEN fs[path] ELSE "none"
AsksIndex(u) == ~u.slash /\ Base(u.path) = Index
Opens(kind) == answer = NoReply /\ ~AsksIndex(url) /\ Kind(url.path) = kind

Answer(code, path) == [code |-> code, path |-> path]
Reply(code, path) == answer' = Answer(code, path) /\ UNCHANGED <<fs, asked, url, hops>>

\* localRedirect; the client resolves what it is sent against its URL.
Redirect(path, slash) ==
  /\ url' = [path |-> path, slash |-> slash] /\ hops' = hops + 1
  /\ UNCHANGED <<fs, asked, answer>>

\* toHTTPError, with a handler for what is not found.
ErrorCode(kind) ==
  CASE kind = "denied" -> "forbidden" [] kind = "broken" -> "internal" [] OTHER -> "notfound"

\* "./" for .../index.html: the directory it is in.
ToParent == answer = NoReply /\ AsksIndex(url) /\ Redirect(Parent(url.path), TRUE)

FileErr == \E kind \in {"none", "denied", "broken"} : Opens(kind) /\ Reply(ErrorCode(kind), <<>>)

\* "name/" for a directory.
ToDir == Opens("dir") /\ ~url.slash /\ Redirect(url.path, TRUE)

\* Mutant: "name" instead of "../name".
ToFileBelow == Opens("file") /\ url.slash /\ Redirect(Append(url.path, Base(url.path)), FALSE)

\* "../name" for a file.
ToFile == Opens("file") /\ url.slash /\ Redirect(url.path, FALSE)

ServeFile == Opens("file") /\ ~url.slash /\ Reply("content", url.path)

\* The index.html of a directory, if it can be opened and is a file.
ServeIndex ==
  /\ Opens("dir") /\ url.slash
  /\ LET index == Append(url.path, Index)
     IN  IF Kind(index) = "file" THEN Reply("content", index) ELSE Reply("notfound", <<>>)

FileNext == ToParent \/ FileErr \/ ToDir \/ ToFile \/ ServeFile \/ ServeIndex

FileSpec == FileInit /\ [][FileNext]_fileVars
-----------------------------------------------------------------------------
\* What the URL names: index.html stands for its directory, a slash or none
\* makes no difference.
Target(u) == IF AsksIndex(u) THEN Parent(u.path) ELSE u.path

Expected(path) ==
  LET index == Append(path, Index)
  IN  IF Kind(path) = "file" THEN Answer("content", path)
      ELSE IF Kind(path) = "dir" /\ Kind(index) = "file" THEN Answer("content", index)
      ELSE Answer(ErrorCode(Kind(path)), <<>>)

\* Redirects end, after at most three, in the file that the first URL names,
\* or in an error for it.
RedirectsSettle == hops <= 3 /\ (answer # NoReply => answer = Expected(Target(asked)))
=============================================================================
