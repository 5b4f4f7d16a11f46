--------------------------- MODULE ProjectProofs ---------------------------
(***************************************************************************)
(* Proofs about Project: whatever the platforms, the protos and the number *)
(* of commands, edits, failures and interruptions.                         *)
(*                                                                         *)
(* The argument.  The steps of a command are laid out in an order that     *)
(* what is left of it keeps: a step that takes something away is followed  *)
(* by one that brings it back, one that reads comes behind all that write. *)
(* Nothing else needs to be known of the lists.  What an artefact is worth *)
(* is then said of the steps still to come: as long as no step failed, it  *)
(* is right when no step that makes it is left.                            *)
(***************************************************************************)
EXTENDS Project, FiniteSetTheorems, WellFoundedInduction, TLAPS

-----------------------------------------------------------------------------
(* The order of the steps.                                                 *)

Has(s, do, on) == \E i \in DOMAIN s : s[i].do = do /\ s[i].on = on

\* After each step of A a step `do` comes.
Followed(s, A, do, on) ==
  \A i \in DOMAIN s : s[i].do \in A =>
    \E j \in DOMAIN s : i < j /\ s[j].do = do /\ s[j].on = on

\* After a step `do` none of A comes.
Behind(s, A, do) ==
  \A i, j \in DOMAIN s : i < j /\ s[i].do = do => s[j].do \notin A

\* The step `do` is the last one.
Ends(s, do) == \A i \in DOMAIN s : s[i].do = do => i = Len(s)

Unused(s, A) == \A i \in DOMAIN s : s[i].do \notin A

\* A clone is followed by its checkout, a created platform by its patches.
Paired(s) ==
  \A i \in DOMAIN s : s[i].do \in {"clone", "create"} =>
    /\ i + 1 \in DOMAIN s /\ s[i + 1].on = s[i].on
    /\ s[i + 1].do = IF s[i].do = "clone" THEN "checkout" ELSE "patch"

\* The commands that make everything, those that only look at platforms made,
\* and the steps that change what is committed besides the developer's files.
Full == {"new", "prepare", "upgrade", "web", "native"}
Owners == {"template", "go get", "write meta", "web assets", "stamp worker", "create web",
           "create", "patch", "apply config", "rm platforms"}

Generates(s) ==
  /\ Unused(s, {"rm generated", "rm platforms"})
  /\ Followed(s, {"template", "rm go/pb"}, "protoc go", "")
  /\ Followed(s, {"template", "rm go/pb"}, "protoc lite", "")
  /\ Followed(s, {"template", "rm lib/pb"}, "protoc dart", "")
  /\ Followed(s, {"template", "protoc lite"}, "write main", "")
  /\ Followed(s, {"template", "protoc lite"}, "write handlers", "")

PatchesManifest(s) ==
  /\ Followed(s, {"materialize"}, "patch manifest", "")
  /\ Behind(s, {"materialize", "protoc lite", "patch manifest"}, "patch manifest")

CreatesPlatforms(s) ==
  /\ Followed(s, {"template"}, "create web", "")
  /\ \A p \in Platforms : Followed(s, {"template"}, "create", p)

Laid(name, s) ==
  /\ \A i \in DOMAIN s : s[i].do = "template" => i = 1 /\ name = "new"
  /\ Paired(s)
  /\ name = "upgrade" => Ends(s, "commit")
  /\ name = "new" => Followed(s, Owners, "commit", "")
  /\ name \in Full => Generates(s)
  /\ name \in Full \ {"new"} => PatchesManifest(s)
  /\ name \in {"new", "prepare", "upgrade"} => CreatesPlatforms(s)
  /\ Unused(s, {"build app"}) \/ (name = "native" /\ Ends(s, "build app"))
  /\ name = "native" => Behind(s, {"write main"}, "go build")
                        /\ Behind(s, {"go build"}, "build lib")

\* What a command has to do when it starts.
Complete(name, s) ==
  /\ name = "new" => Has(s, "template", "") /\ Has(s, "commit", "")
  /\ name \in Full => /\ Has(s, "protoc go", "") /\ Has(s, "protoc lite", "")
                      /\ Has(s, "protoc dart", "") /\ Has(s, "write main", "")
                      /\ Has(s, "write handlers", "") /\ Has(s, "write entrypoint", "")
  /\ name \in Full \ {"new"} => Has(s, "materialize", "") /\ Has(s, "patch manifest", "")
  /\ name \in {"new", "prepare", "upgrade"} =>
       Has(s, "create web", "") /\ \A p \in Platforms : Has(s, "create", p)
  /\ name = "native" =>
       \A p \in Platforms : /\ Has(s, "build app", p) => Has(s, "build lib", p)
                            /\ Has(s, "build lib", p) => Has(s, "go build", p)

-----------------------------------------------------------------------------
(* The inductive invariant.                                                *)

Ahead(do, on) == Has(cmd.rest, do, on)

\* A command that ran to its end has no steps left; one that runs has the rest
\* of a proper list, reads the protos it was started on and, before it has
\* written the template, finds no project.
Underway ==
  /\ cmd.sound /\ Idle => cmd.rest = << >>
  /\ ~Idle => /\ Laid(cmd.name, cmd.rest) /\ fs.protos = cmd.protos
              /\ Running("template") => dir = "none"
  /\ dir # "project" => fs.entry # "custom"

\* The generated code, as far as the steps to come do not make it.
Generated ==
  cmd.sound /\ cmd.name \in Full =>
    /\ ~Ahead("protoc go", "") => fs.goStd = cmd.protos
    /\ ~Ahead("protoc lite", "") => fs.goLite = cmd.protos
    /\ ~Ahead("protoc dart", "") => fs.dartPb = cmd.protos
    /\ ~Ahead("write main", "") => fs.main = cmd.protos
    /\ ~Ahead("write handlers", "") => fs.handlers = cmd.protos
    /\ ~Ahead("write entrypoint", "") => fs.entry # "none"

Patched ==
  cmd.sound /\ cmd.name \in Full \ {"new"} /\ dep = "version" =>
    /\ ~Ahead("patch manifest", "") => fs.manifest = cmd.protos
    /\ ~Ahead("materialize", "") /\ Ahead("patch manifest", "") => fs.manifest = Marker

Created ==
  cmd.sound /\ cmd.name \in {"new", "prepare", "upgrade"} =>
    /\ ~Ahead("create web", "") => fs.web # {}
    /\ \A p \in Platforms : ~Ahead("create", p) => fs.platform[p] # "none"

\* What go build made for the library that is built next, that library, and the
\* app of this command.
Built ==
  /\ \A p \in Platforms :
       cmd.sound /\ cmd.name = "native" /\ Ahead("build lib", p) /\ ~Ahead("go build", p)
       => fs.archive[p] = cmd.protos
  /\ \A p \in Platforms :
       cmd.sound /\ cmd.name = "native" /\ Ahead("build app", p) /\ ~Ahead("build lib", p)
       => fs.lib[p] = cmd.protos
  /\ \A p \in Platforms :
       /\ fs.app[p].run =< commands
       /\ cmd.sound /\ fs.app[p].run = commands /\ (p \in AppleOnes => dep = "version")
          => fs.app[p].client = fs.app[p].symbols

\* The commits of `godash new` and of `godash upgrade`.
Committed ==
  /\ cmd.name = "new" /\ cmd.sound /\ ~Ahead("commit", "") => Own(fs) = Own(head)
  /\ cmd.name = "upgrade" /\ ~Idle => head.user = cmd.user
  /\ cmd.name = "new" /\ cmd.status = "failed" => dir # "project"

\* Without an accident, only the step before leaves something half done.
HalfDone ==
  accidents = 0 =>
    /\ \A p \in Platforms : fs.platform[p] = "created" =>
         Running("patch") /\ On = p /\ cmd.block
    /\ checkout = "cloned" => Running("checkout") /\ cmd.block
    /\ "half-made" \notin fs.web /\ \A p \in Platforms : fs.platform[p] # "half-made"

IInv == /\ TypeOK /\ Underway /\ Generated /\ Patched /\ Created /\ Built /\ Committed
        /\ HalfDone

-----------------------------------------------------------------------------
(* The rest of a list.                                                     *)

LEMMA TailFacts ==
  ASSUME NEW S, NEW s \in Seq(S), s # << >>
  PROVE  /\ Tail(s) \in Seq(S) /\ Len(s) \in Nat \ {0} /\ Len(Tail(s)) = Len(s) - 1
         /\ DOMAIN s = 1 .. Len(s) /\ DOMAIN Tail(s) = 1 .. Len(s) - 1
         /\ \A i \in 1 .. Len(s) - 1 : Tail(s)[i] = s[i + 1]
         /\ Head(s) = s[1] /\ Head(s) \in S
<1>1. Tail(s) \in Seq(S) /\ Len(s) \in Nat \ {0} /\ Len(Tail(s)) = Len(s) - 1
  OBVIOUS
<1>2. DOMAIN s = 1 .. Len(s) /\ DOMAIN Tail(s) = 1 .. Len(s) - 1
  BY <1>1
<1>3. Head(s) = s[1] /\ Head(s) \in S
  BY <1>1
<1> QED  BY <1>1, <1>2, <1>3

\* A step is the next one or among the others.
LEMMA HasTail ==
  ASSUME NEW s \in Seq(StepTypes), s # << >>, NEW do, NEW on
  PROVE  Has(s, do, on) <=> (Head(s).do = do /\ Head(s).on = on) \/ Has(Tail(s), do, on)
<1>1. ASSUME NEW i \in DOMAIN s, s[i].do = do, s[i].on = on, i # 1
      PROVE  Has(Tail(s), do, on)
  <2>1. i - 1 \in DOMAIN Tail(s) /\ Tail(s)[i - 1] = s[i]
    BY <1>1, TailFacts
  <2> QED  BY <1>1, <2>1 DEF Has
<1>2. ASSUME NEW i \in DOMAIN Tail(s), Tail(s)[i].do = do, Tail(s)[i].on = on
      PROVE  Has(s, do, on)
  <2>1. i + 1 \in DOMAIN s /\ Tail(s)[i] = s[i + 1]
    BY TailFacts
  <2> QED  BY <1>2, <2>1 DEF Has
<1>3. 1 \in DOMAIN s /\ Head(s) = s[1]
  BY TailFacts
<1> QED  BY <1>1, <1>2, <1>3 DEF Has

\* What follows the next step is among the others.
LEMMA FollowedHead ==
  ASSUME NEW s \in Seq(StepTypes), s # << >>, NEW A, NEW do, NEW on,
         Followed(s, A, do, on), Head(s).do \in A
  PROVE  Has(Tail(s), do, on)
<1>1. 1 \in DOMAIN s /\ Head(s) = s[1]
  BY TailFacts
<1>2. PICK j \in DOMAIN s : 1 < j /\ s[j].do = do /\ s[j].on = on
  BY <1>1 DEF Followed
<1>3. j - 1 \in DOMAIN Tail(s) /\ Tail(s)[j - 1] = s[j]
  BY <1>2, TailFacts
<1> QED  BY <1>2, <1>3 DEF Has

LEMMA BehindHead ==
  ASSUME NEW s \in Seq(StepTypes), s # << >>, NEW A, NEW do,
         Behind(s, A, do), Head(s).do = do
  PROVE  \A on : \A a \in A : ~Has(Tail(s), a, on)
<1> SUFFICES ASSUME NEW a \in A, NEW on, NEW i \in DOMAIN Tail(s), Tail(s)[i].do = a
             PROVE  FALSE
  BY DEF Has
<1>1. 1 \in DOMAIN s /\ Head(s) = s[1] /\ i + 1 \in DOMAIN s /\ 1 < i + 1
      /\ Tail(s)[i] = s[i + 1]
  BY TailFacts
<1> QED  BY <1>1 DEF Behind

LEMMA FollowedTail ==
  ASSUME NEW s \in Seq(StepTypes), s # << >>, NEW A, NEW do, NEW on,
         Followed(s, A, do, on)
  PROVE  Followed(Tail(s), A, do, on)
<1> SUFFICES ASSUME NEW i \in DOMAIN Tail(s), Tail(s)[i].do \in A
             PROVE  \E j \in DOMAIN Tail(s) : i < j /\ Tail(s)[j].do = do
                                                    /\ Tail(s)[j].on = on
  BY DEF Followed
<1>1. i + 1 \in DOMAIN s /\ s[i + 1] = Tail(s)[i] /\ i \in Nat
  BY TailFacts
<1>2. PICK j \in DOMAIN s : i + 1 < j /\ s[j].do = do /\ s[j].on = on
  BY <1>1 DEF Followed
<1>3. j - 1 \in DOMAIN Tail(s) /\ i < j - 1 /\ Tail(s)[j - 1] = s[j]
  BY <1>1, <1>2, TailFacts
<1> QED  BY <1>2, <1>3

LEMMA OthersTail ==
  ASSUME NEW s \in Seq(StepTypes), s # << >>, NEW A, NEW do
  PROVE  /\ Behind(s, A, do) => Behind(Tail(s), A, do)
         /\ Ends(s, do) => Ends(Tail(s), do)
         /\ Unused(s, A) => Unused(Tail(s), A)
         /\ Paired(s) => Paired(Tail(s))
<1>1. /\ DOMAIN s = 1 .. Len(s) /\ DOMAIN Tail(s) = 1 .. Len(s) - 1
      /\ Len(s) \in Nat /\ Len(Tail(s)) = Len(s) - 1
      /\ \A i \in 1 .. Len(s) - 1 : Tail(s)[i] = s[i + 1]
  BY TailFacts
<1> DEFINE t == Tail(s)
<1> HIDE DEF t
<1>2. \A i \in DOMAIN t : i + 1 \in DOMAIN s /\ t[i] = s[i + 1] /\ i \in Nat
  BY <1>1 DEF t
<1>3. Behind(s, A, do) => Behind(t, A, do)
  <2> SUFFICES ASSUME Behind(s, A, do), NEW i \in DOMAIN t, NEW j \in DOMAIN t, i < j,
                      t[i].do = do
               PROVE  t[j].do \notin A
    BY DEF Behind
  <2>1. i + 1 < j + 1
    BY <1>2
  <2> QED  BY <1>2, <2>1 DEF Behind
<1>4. Ends(s, do) => Ends(t, do)
  BY <1>1, <1>2 DEF Ends, t
<1>5. Unused(s, A) => Unused(t, A)
  BY <1>2 DEF Unused
<1>6. Paired(s) => Paired(t)
  <2> SUFFICES ASSUME Paired(s), NEW i \in DOMAIN t, t[i].do \in {"clone", "create"}
               PROVE  /\ i + 1 \in DOMAIN t /\ t[i + 1].on = t[i].on
                      /\ t[i + 1].do = IF t[i].do = "clone" THEN "checkout" ELSE "patch"
    BY DEF Paired
  <2>1. /\ i + 1 + 1 \in DOMAIN s /\ s[i + 1 + 1].on = s[i + 1].on
        /\ s[i + 1 + 1].do = IF s[i + 1].do = "clone" THEN "checkout" ELSE "patch"
    BY <1>2 DEF Paired
  <2>2. i + 1 \in DOMAIN t
    BY <1>1, <1>2, <2>1 DEF t
  <2> QED  BY <1>2, <2>1, <2>2
<1> QED  BY <1>3, <1>4, <1>5, <1>6 DEF t

\* What is left of a proper list is one.
LEMMA LaidTail ==
  ASSUME NEW s \in Seq(StepTypes), s # << >>, NEW name, Laid(name, s)
  PROVE  Laid(name, Tail(s)) /\ ~Has(Tail(s), "template", "")
<1>1. \A i \in DOMAIN Tail(s) : Tail(s)[i].do # "template"
  <2>1. \A i \in DOMAIN Tail(s) : i + 1 \in DOMAIN s /\ Tail(s)[i] = s[i + 1] /\ i + 1 # 1
    BY TailFacts
  <2> QED  BY <2>1 DEF Laid
<1>2. Paired(Tail(s)) /\ (name = "upgrade" => Ends(Tail(s), "commit"))
  BY OthersTail DEF Laid
<1>3. name = "new" => Followed(Tail(s), Owners, "commit", "")
  BY FollowedTail DEF Laid
<1>4. name \in Full => Generates(Tail(s))
  BY FollowedTail, OthersTail DEF Laid, Generates
<1>5. name \in Full \ {"new"} => PatchesManifest(Tail(s))
  BY FollowedTail, OthersTail DEF Laid, PatchesManifest
<1>6. name \in {"new", "prepare", "upgrade"} => CreatesPlatforms(Tail(s))
  BY FollowedTail DEF Laid, CreatesPlatforms
<1>7. Unused(Tail(s), {"build app"}) \/ (name = "native" /\ Ends(Tail(s), "build app"))
  BY OthersTail DEF Laid
<1>8. name = "native" => /\ Behind(Tail(s), {"write main"}, "go build")
                         /\ Behind(Tail(s), {"go build"}, "build lib")
  BY OthersTail DEF Laid
<1> QED  BY <1>1, <1>2, <1>3, <1>4, <1>5, <1>6, <1>7, <1>8 DEF Laid, Has

-----------------------------------------------------------------------------
(* Lists put together.                                                     *)

Dos(s) == {s[i].do : i \in DOMAIN s}

LEMMA CatFacts ==
  ASSUME NEW S, NEW s \in Seq(S), NEW t \in Seq(S)
  PROVE  /\ s \o t \in Seq(S) /\ Len(s \o t) = Len(s) + Len(t)
         /\ Len(s) \in Nat /\ Len(t) \in Nat
         /\ DOMAIN s = 1 .. Len(s) /\ DOMAIN t = 1 .. Len(t)
         /\ DOMAIN (s \o t) = 1 .. Len(s) + Len(t)
         /\ \A i \in 1 .. Len(s) : (s \o t)[i] = s[i]
         /\ \A i \in 1 .. Len(t) : (s \o t)[Len(s) + i] = t[i]
OBVIOUS

\* Where the steps of two lists come to stand, and where a step comes from.
Joined(s, t, u) ==
  /\ \A i \in DOMAIN s : i \in DOMAIN u /\ u[i] = s[i]
  /\ \A i \in DOMAIN t : Len(s) + i \in DOMAIN u /\ u[Len(s) + i] = t[i]
  /\ \A i \in DOMAIN u : \/ i \in DOMAIN s
                         \/ i - Len(s) \in DOMAIN t /\ i = Len(s) + (i - Len(s))
  /\ \A i \in DOMAIN s, j \in DOMAIN t : i < Len(s) + j
  /\ \A i, j \in DOMAIN t : i < j <=> Len(s) + i < Len(s) + j

LEMMA CatJoined ==
  ASSUME NEW s \in Seq(StepTypes), NEW t \in Seq(StepTypes)
  PROVE  Joined(s, t, s \o t) /\ s \o t \in Seq(StepTypes)
<1> DEFINE u == s \o t
<1>1. /\ u \in Seq(StepTypes) /\ Len(s) \in Nat /\ Len(t) \in Nat
      /\ DOMAIN s = 1 .. Len(s) /\ DOMAIN t = 1 .. Len(t)
      /\ DOMAIN u = 1 .. Len(s) + Len(t)
      /\ \A i \in 1 .. Len(s) : u[i] = s[i]
      /\ \A i \in 1 .. Len(t) : u[Len(s) + i] = t[i]
  BY CatFacts
<1> HIDE DEF u
<1>2. \A i \in DOMAIN s : i \in DOMAIN u /\ u[i] = s[i]
  BY <1>1
<1>3. \A i \in DOMAIN t : Len(s) + i \in DOMAIN u /\ u[Len(s) + i] = t[i]
  BY <1>1
<1>4. \A i \in DOMAIN u : \/ i \in DOMAIN s
                          \/ i - Len(s) \in DOMAIN t /\ i = Len(s) + (i - Len(s))
  BY <1>1
<1>5. \A i \in DOMAIN s, j \in DOMAIN t : i < Len(s) + j
  BY <1>1
<1>6. \A i, j \in DOMAIN t : i < j <=> Len(s) + i < Len(s) + j
  BY <1>1
<1> QED  BY <1>1, <1>2, <1>3, <1>4, <1>5, <1>6 DEF Joined, u

LEMMA HasCat ==
  ASSUME NEW s \in Seq(StepTypes), NEW t \in Seq(StepTypes), NEW do, NEW on
  PROVE  Has(s \o t, do, on) <=> Has(s, do, on) \/ Has(t, do, on)
<1> DEFINE u == s \o t
<1>1. Joined(s, t, u)
  BY CatJoined
<1> HIDE DEF u
<1>2. Has(u, do, on) => Has(s, do, on) \/ Has(t, do, on)
  BY <1>1 DEF Has, Joined
<1>3. Has(s, do, on) => Has(u, do, on)
  BY <1>1 DEF Has, Joined
<1>4. Has(t, do, on) => Has(u, do, on)
  BY <1>1 DEF Has, Joined
<1> QED  BY <1>2, <1>3, <1>4 DEF u

LEMMA DosCat ==
  ASSUME NEW s \in Seq(StepTypes), NEW t \in Seq(StepTypes)
  PROVE  Dos(s \o t) = Dos(s) \cup Dos(t)
<1> DEFINE u == s \o t
<1>1. Joined(s, t, u)
  BY CatJoined
<1> HIDE DEF u
<1>2. Dos(s) \cup Dos(t) \subseteq Dos(u)
  BY <1>1 DEF Dos, Joined
<1>3. Dos(u) \subseteq Dos(s) \cup Dos(t)
  BY <1>1 DEF Dos, Joined
<1> QED  BY <1>2, <1>3 DEF u

LEMMA FollowedCat ==
  ASSUME NEW s \in Seq(StepTypes), NEW t \in Seq(StepTypes), NEW A, NEW do, NEW on,
         Followed(s, A, do, on) \/ Has(t, do, on), Followed(t, A, do, on)
  PROVE  Followed(s \o t, A, do, on)
<1> DEFINE u == s \o t
<1>1. Joined(s, t, u)
  BY CatJoined
<1> HIDE DEF u
<1> SUFFICES ASSUME NEW i \in DOMAIN u, u[i].do \in A
             PROVE  \E j \in DOMAIN u : i < j /\ u[j].do = do /\ u[j].on = on
  BY DEF Followed, u
<1>2. CASE i \in DOMAIN s /\ Followed(s, A, do, on)
  BY <1>1, <1>2 DEF Followed, Joined
<1>3. CASE i \in DOMAIN s /\ Has(t, do, on)
  BY <1>1, <1>3 DEF Has, Joined
<1>4. CASE i \notin DOMAIN s
  <2> DEFINE k == i - Len(s)
  <2>1. k \in DOMAIN t /\ i = Len(s) + k
    BY <1>1, <1>4 DEF Joined
  <2> HIDE DEF k
  <2>2. t[k].do \in A
    BY <1>1, <2>1 DEF Joined
  <2>3. PICK j \in DOMAIN t : k < j /\ t[j].do = do /\ t[j].on = on
    BY <2>1, <2>2 DEF Followed
  <2>4. Len(s) + j \in DOMAIN u /\ u[Len(s) + j] = t[j] /\ i < Len(s) + j
    BY <1>1, <2>1, <2>3 DEF Joined
  <2> QED  BY <2>3, <2>4
<1> QED  BY <1>2, <1>3, <1>4

LEMMA BehindCat ==
  ASSUME NEW s \in Seq(StepTypes), NEW t \in Seq(StepTypes), NEW A, NEW do,
         Behind(s, A, do), Behind(t, A, do), do \notin Dos(s) \/ Dos(t) \cap A = {}
  PROVE  Behind(s \o t, A, do)
<1> DEFINE u == s \o t
<1>1. Joined(s, t, u)
  BY CatJoined
<1> HIDE DEF u
<1> SUFFICES ASSUME NEW i \in DOMAIN u, NEW j \in DOMAIN u, i < j, u[i].do = do
             PROVE  u[j].do \notin A
  BY DEF Behind, u
<1>0. Len(s) \in Nat /\ DOMAIN s = 1 .. Len(s) /\ DOMAIN t = 1 .. Len(t) /\ Len(t) \in Nat
  BY CatFacts
<1>2. CASE i \in DOMAIN s /\ j \in DOMAIN s
  BY <1>1, <1>2 DEF Behind, Joined
<1>3. CASE i \in DOMAIN s /\ j \notin DOMAIN s
  BY <1>1, <1>3 DEF Joined, Dos
<1>4. CASE i \notin DOMAIN s /\ j \in DOMAIN s
  <2>1. i \in Int /\ j \in Int /\ i - Len(s) \in DOMAIN t /\ i = Len(s) + (i - Len(s))
    BY <1>0, <1>1, <1>4 DEF Joined
  <2>2. j < i
    BY <1>1, <1>4, <2>1 DEF Joined
  <2> QED  BY <2>1, <2>2
<1>5. CASE i \notin DOMAIN s /\ j \notin DOMAIN s
  <2> DEFINE k == i - Len(s)  m == j - Len(s)
  <2>1. k \in DOMAIN t /\ m \in DOMAIN t /\ i = Len(s) + k /\ j = Len(s) + m
    BY <1>1, <1>5 DEF Joined
  <2> HIDE DEF k, m
  <2>2. t[k] = u[i] /\ t[m] = u[j] /\ k < m
    BY <1>1, <2>1 DEF Joined
  <2> QED  BY <2>1, <2>2 DEF Behind
<1> QED  BY <1>2, <1>3, <1>4, <1>5

LEMMA EndsCat ==
  ASSUME NEW s \in Seq(StepTypes), NEW t \in Seq(StepTypes), NEW do,
         do \notin Dos(s), Ends(t, do)
  PROVE  Ends(s \o t, do)
<1> SUFFICES ASSUME NEW i \in DOMAIN (s \o t), (s \o t)[i].do = do
             PROVE  i = Len(s \o t)
  BY DEF Ends
<1>1. Joined(s, t, s \o t) /\ Len(s \o t) = Len(s) + Len(t)
  BY CatJoined, CatFacts
<1>2. i \notin DOMAIN s
  BY <1>1 DEF Dos, Joined
<1>3. i - Len(s) \in DOMAIN t /\ i = Len(s) + (i - Len(s))
  BY <1>1, <1>2 DEF Joined
<1>4. t[i - Len(s)].do = do
  BY <1>1, <1>3 DEF Joined
<1> QED  BY <1>1, <1>3, <1>4 DEF Ends

LEMMA PairedCat ==
  ASSUME NEW s \in Seq(StepTypes), NEW t \in Seq(StepTypes), Paired(s), Paired(t)
  PROVE  Paired(s \o t)
<1> DEFINE u == s \o t
<1>1. Joined(s, t, u)
  BY CatJoined
<1>0. Len(s) \in Nat /\ DOMAIN s = 1 .. Len(s) /\ DOMAIN t = 1 .. Len(t) /\ Len(t) \in Nat
  BY CatFacts
<1> HIDE DEF u
<1> SUFFICES ASSUME NEW i \in DOMAIN u, u[i].do \in {"clone", "create"}
             PROVE  /\ i + 1 \in DOMAIN u /\ u[i + 1].on = u[i].on
                    /\ u[i + 1].do = IF u[i].do = "clone" THEN "checkout" ELSE "patch"
  BY DEF Paired, u
<1>2. CASE i \in DOMAIN s
  <2>1. u[i] = s[i]
    BY <1>1, <1>2 DEF Joined
  <2>2. /\ i + 1 \in DOMAIN s /\ s[i + 1].on = s[i].on
        /\ s[i + 1].do = IF s[i].do = "clone" THEN "checkout" ELSE "patch"
    BY <1>2, <2>1 DEF Paired
  <2> QED  BY <1>1, <2>1, <2>2 DEF Joined
<1>3. CASE i \notin DOMAIN s
  <2> DEFINE k == i - Len(s)
  <2>1. k \in DOMAIN t /\ i = Len(s) + k
    BY <1>1, <1>3 DEF Joined
  <2> HIDE DEF k
  <2>2. u[i] = t[k]
    BY <1>1, <2>1 DEF Joined
  <2>3. /\ k + 1 \in DOMAIN t /\ t[k + 1].on = t[k].on
        /\ t[k + 1].do = IF t[k].do = "clone" THEN "checkout" ELSE "patch"
    BY <2>1, <2>2 DEF Paired
  <2>4. Len(s) + (k + 1) = i + 1
    BY <1>0, <2>1
  <2>5. Len(s) + (k + 1) \in DOMAIN u /\ u[Len(s) + (k + 1)] = t[k + 1]
    BY <1>1, <2>3 DEF Joined
  <2> QED  BY <2>2, <2>3, <2>4, <2>5
<1> QED  BY <1>2, <1>3

\* Of steps that a list does not have.
LEMMA DosFacts ==
  ASSUME NEW s \in Seq(StepTypes), NEW A, NEW do, NEW on
  PROVE  /\ Unused(s, A) <=> Dos(s) \cap A = {}
         /\ Dos(s) \cap A = {} => Followed(s, A, do, on)
         /\ do \notin Dos(s) => Behind(s, A, do) /\ Ends(s, do) /\ ~Has(s, do, on)
         /\ Dos(s) \cap A = {} => Behind(s, A, do)
BY DEF Unused, Dos, Followed, Behind, Ends, Has

-----------------------------------------------------------------------------
(* The parts of the commands.                                              *)

LEMMA StepFacts ==
  ASSUME NEW do \in StepNames, NEW on \in Platforms \cup {""}
  PROVE  /\ Soft(do, on) \in StepTypes /\ Soft(do, on).do = do /\ Soft(do, on).on = on
         /\ Hard(do, on) \in StepTypes /\ Hard(do, on).do = do /\ Hard(do, on).on = on
BY DEF Soft, Hard, StepTypes

\* Lists of one step and of two.
LEMMA OneStep ==
  ASSUME NEW a \in StepTypes
  PROVE  /\ << a >> \in Seq(StepTypes) /\ Dos(<< a >>) = {a.do} /\ Has(<< a >>, a.do, a.on)
         /\ Ends(<< a >>, a.do)
<1>1. << a >> \in Seq(StepTypes) /\ DOMAIN << a >> = {1} /\ << a >>[1] = a
      /\ Len(<< a >>) = 1
  OBVIOUS
<1> QED  BY <1>1 DEF Dos, Has, Ends

LEMMA TwoSteps ==
  ASSUME NEW a \in StepTypes, NEW b \in StepTypes
  PROVE  /\ << a, b >> \in Seq(StepTypes) /\ Dos(<< a, b >>) = {a.do, b.do}
         /\ Has(<< a, b >>, a.do, a.on) /\ Has(<< a, b >>, b.do, b.on)
         /\ a.do # b.do => Ends(<< a, b >>, b.do)
         /\ a.on = b.on /\ b.do \notin {"clone", "create"}
            /\ (a.do = "clone" => b.do = "checkout") /\ (a.do = "create" => b.do = "patch")
            => Paired(<< a, b >>)
<1> DEFINE s == << a, b >>
<1>1. s \in Seq(StepTypes) /\ DOMAIN s = {1, 2} /\ s[1] = a /\ s[2] = b /\ Len(s) = 2
      /\ 1 < 2
  OBVIOUS
<1> HIDE DEF s
<1>2. Dos(s) = {a.do, b.do} /\ Has(s, a.do, a.on) /\ Has(s, b.do, b.on)
  BY <1>1 DEF Dos, Has
<1>3. a.do # b.do => Ends(s, b.do)
  BY <1>1 DEF Ends
<1>4. a.on = b.on /\ b.do \notin {"clone", "create"}
      /\ (a.do = "clone" => b.do = "checkout") /\ (a.do = "create" => b.do = "patch")
      => Paired(s)
  BY <1>1 DEF Paired
<1> QED  BY <1>1, <1>2, <1>3, <1>4 DEF s

LEMMA SecondFollows ==
  ASSUME NEW a \in StepTypes, NEW b \in StepTypes, NEW A, b.do \notin A
  PROVE  Followed(<< a, b >>, A, b.do, b.on)
<1> DEFINE s == << a, b >>
<1>1. DOMAIN s = {1, 2} /\ s[1] = a /\ s[2] = b /\ 1 < 2
  OBVIOUS
<1> HIDE DEF s
<1> QED  BY <1>1 DEF Followed, s

LEMMA NonePaired ==
  ASSUME NEW s \in Seq(StepTypes), Dos(s) \cap {"clone", "create"} = {}
  PROVE  Paired(s)
BY DEF Paired, Dos

LEMMA EnvFacts ==
  /\ LoadProjectEnv \in Seq(StepTypes) /\ Dos(LoadProjectEnv) = {"clone", "checkout"}
  /\ Paired(LoadProjectEnv)
<1>1. Hard("clone", "") \in StepTypes /\ Hard("checkout", "") \in StepTypes
  BY DEF Hard, StepTypes, StepNames
<1>2. /\ Hard("clone", "").do = "clone" /\ Hard("clone", "").on = ""
      /\ Hard("checkout", "").do = "checkout" /\ Hard("checkout", "").on = ""
  BY DEF Hard
<1> QED  BY <1>1, <1>2, TwoSteps DEF LoadProjectEnv

LEMMA BootstrapFacts ==
  /\ ModuleBootstrap \in Seq(StepTypes)
  /\ Dos(ModuleBootstrap) = {"list module", "materialize"} /\ Paired(ModuleBootstrap)
  /\ Has(ModuleBootstrap, "materialize", "")
<1>1. Hard("list module", "") \in StepTypes /\ Soft("materialize", "") \in StepTypes
  BY DEF Hard, Soft, StepTypes, StepNames
<1>2. /\ Hard("list module", "").do = "list module"
      /\ Soft("materialize", "").do = "materialize" /\ Soft("materialize", "").on = ""
  BY DEF Hard, Soft
<1>3. ModuleBootstrap \in Seq(StepTypes) /\ Has(ModuleBootstrap, "materialize", "")
      /\ Dos(ModuleBootstrap) = {"list module", "materialize"}
  BY <1>1, <1>2, TwoSteps DEF ModuleBootstrap
<1> QED  BY <1>3, NonePaired

LEMMA GoScriptFacts ==
  /\ ProtoGoScript \in Seq(StepTypes)
  /\ Dos(ProtoGoScript) = {"rm go/pb", "protoc go", "protoc lite"}
  /\ Has(ProtoGoScript, "protoc go", "") /\ Has(ProtoGoScript, "protoc lite", "")
  /\ Followed(ProtoGoScript, {"template", "rm go/pb"}, "protoc go", "")
  /\ Followed(ProtoGoScript, {"template", "rm go/pb"}, "protoc lite", "")
<1> DEFINE s == ProtoGoScript
           a == Soft("rm go/pb", "")  b == Soft("protoc go", "")  c == Soft("protoc lite", "")
<1>0. s = << a, b, c >>
  BY DEF ProtoGoScript
<1>a. a \in StepTypes /\ b \in StepTypes /\ c \in StepTypes
  BY DEF Soft, StepTypes, StepNames
<1>1. /\ a.do = "rm go/pb" /\ b.do = "protoc go" /\ c.do = "protoc lite"
      /\ b.on = "" /\ c.on = ""
  BY DEF Soft
<1> HIDE DEF s, a, b, c
<1>2. s \in Seq(StepTypes) /\ DOMAIN s = {1, 2, 3} /\ s[1] = a /\ s[2] = b /\ s[3] = c
  <2>1. << a, b, c >> \in Seq(StepTypes) /\ DOMAIN << a, b, c >> = {1, 2, 3}
    BY <1>a
  <2>2. << a, b, c >>[1] = a /\ << a, b, c >>[2] = b /\ << a, b, c >>[3] = c
    OBVIOUS
  <2> QED  BY <1>0, <2>1, <2>2
<1>3. /\ s[1].do = "rm go/pb" /\ s[2].do = "protoc go" /\ s[3].do = "protoc lite"
      /\ s[2].on = "" /\ s[3].on = ""
  BY <1>1, <1>2
<1>4. 1 < 2 /\ 1 < 3
  OBVIOUS
<1>5. Dos(s) = {"rm go/pb", "protoc go", "protoc lite"}
  BY <1>2, <1>3 DEF Dos
<1>6. Has(s, "protoc go", "") /\ Has(s, "protoc lite", "")
  BY <1>2, <1>3 DEF Has
<1>7. \A i \in DOMAIN s : s[i].do \in {"template", "rm go/pb"} => i = 1
  BY <1>2, <1>3
<1>8. /\ Followed(s, {"template", "rm go/pb"}, "protoc go", "")
      /\ Followed(s, {"template", "rm go/pb"}, "protoc lite", "")
  BY <1>2, <1>3, <1>4, <1>7 DEF Followed
<1> QED  BY <1>2, <1>5, <1>6, <1>8 DEF s

LEMMA DartScriptFacts ==
  /\ ProtoDartScript \in Seq(StepTypes) /\ Dos(ProtoDartScript) = {"rm lib/pb", "protoc dart"}
  /\ Has(ProtoDartScript, "protoc dart", "")
  /\ Followed(ProtoDartScript, {"template", "rm lib/pb"}, "protoc dart", "")
<1> DEFINE a == Soft("rm lib/pb", "")  b == Hard("protoc dart", "")
<1>1. /\ a \in StepTypes /\ b \in StepTypes
      /\ a.do = "rm lib/pb" /\ b.do = "protoc dart" /\ b.on = ""
  BY DEF Hard, Soft, StepTypes, StepNames
<1>2. ProtoDartScript = << a, b >>
  BY DEF ProtoDartScript
<1> HIDE DEF a, b
<1>3. b.do \notin {"template", "rm lib/pb"}
  BY <1>1
<1>4. Followed(<< a, b >>, {"template", "rm lib/pb"}, b.do, b.on)
  BY <1>1, <1>3, SecondFollows
<1> QED  BY <1>1, <1>2, <1>4, TwoSteps

LEMMA WiringFilesFacts ==
  /\ WriteWiringFiles \in Seq(StepTypes)
  /\ Dos(WriteWiringFiles) = {"write main", "write handlers", "write entrypoint",
                              "patch manifest"}
  /\ Has(WriteWiringFiles, "write main", "") /\ Has(WriteWiringFiles, "write handlers", "")
  /\ Has(WriteWiringFiles, "write entrypoint", "")
  /\ Has(WriteWiringFiles, "patch manifest", "")
  /\ Behind(WriteWiringFiles, {"materialize", "protoc lite", "patch manifest"},
            "patch manifest")
<1> DEFINE s == WriteWiringFiles
           a == Hard("write main", "")        b == Hard("write handlers", "")
           c == Hard("write entrypoint", "")  d == Hard("patch manifest", "")
<1>0. s = << a, b, c, d >>
  BY DEF WriteWiringFiles
<1>a. a \in StepTypes /\ b \in StepTypes /\ c \in StepTypes /\ d \in StepTypes
  BY DEF Hard, StepTypes, StepNames
<1>1. /\ a.do = "write main" /\ b.do = "write handlers"
      /\ c.do = "write entrypoint" /\ d.do = "patch manifest"
      /\ a.on = "" /\ b.on = "" /\ c.on = "" /\ d.on = ""
  BY DEF Hard
<1> HIDE DEF s, a, b, c, d
<1>2. /\ s \in Seq(StepTypes) /\ DOMAIN s = {1, 2, 3, 4}
      /\ s[1] = a /\ s[2] = b /\ s[3] = c /\ s[4] = d
  <2>1. << a, b, c, d >> \in Seq(StepTypes) /\ DOMAIN << a, b, c, d >> = {1, 2, 3, 4}
    BY <1>a
  <2>2. /\ << a, b, c, d >>[1] = a /\ << a, b, c, d >>[2] = b
        /\ << a, b, c, d >>[3] = c /\ << a, b, c, d >>[4] = d
    OBVIOUS
  <2> QED  BY <1>0, <2>1, <2>2
<1>3. /\ s[1].do = "write main" /\ s[2].do = "write handlers"
      /\ s[3].do = "write entrypoint" /\ s[4].do = "patch manifest"
      /\ s[1].on = "" /\ s[2].on = "" /\ s[3].on = "" /\ s[4].on = ""
  BY <1>1, <1>2
<1>4. Dos(s) = {"write main", "write handlers", "write entrypoint", "patch manifest"}
  <2>1. Dos(s) = {s[1].do, s[2].do, s[3].do, s[4].do}
    BY <1>2 DEF Dos
  <2> QED  BY <1>3, <2>1
<1>5. /\ Has(s, "write main", "") /\ Has(s, "write handlers", "")
      /\ Has(s, "write entrypoint", "") /\ Has(s, "patch manifest", "")
  BY <1>2, <1>3 DEF Has
<1>6. \A i \in DOMAIN s : s[i].do = "patch manifest" => \A j \in DOMAIN s : ~(i < j)
  <2>1. \A i \in DOMAIN s : s[i].do = "patch manifest" => i = 4
    BY <1>2, <1>3
  <2>2. \A j \in {1, 2, 3, 4} : ~(4 < j)
    OBVIOUS
  <2> QED  BY <1>2, <2>1, <2>2
<1>7. Behind(s, {"materialize", "protoc lite", "patch manifest"}, "patch manifest")
  BY <1>6 DEF Behind
<1> QED  BY <1>2, <1>4, <1>5, <1>7 DEF s

Makes(s) ==
  /\ Has(s, "protoc go", "") /\ Has(s, "protoc lite", "") /\ Has(s, "protoc dart", "")
  /\ Has(s, "write main", "") /\ Has(s, "write handlers", "")
  /\ Has(s, "write entrypoint", "")

WiringDos == {"list module", "materialize", "rm go/pb", "protoc go", "protoc lite",
              "rm lib/pb", "protoc dart", "write main", "write handlers",
              "write entrypoint", "patch manifest"}

\* What runProtoAndWiring makes: everything, in the right order.
LEMMA WiringFacts ==
  /\ ProtoAndWiring \in Seq(StepTypes) /\ Dos(ProtoAndWiring) = WiringDos
  /\ Paired(ProtoAndWiring) /\ Makes(ProtoAndWiring)
  /\ Generates(ProtoAndWiring) /\ PatchesManifest(ProtoAndWiring)
  /\ Has(ProtoAndWiring, "materialize", "") /\ Has(ProtoAndWiring, "patch manifest", "")
<1> DEFINE a == ModuleBootstrap \o ProtoGoScript
           b == a \o ProtoDartScript
           s == b \o WriteWiringFiles
<1>1. ProtoAndWiring = s
  BY DEF ProtoAndWiring
<1>2. /\ a \in Seq(StepTypes)
      /\ Dos(a) = {"list module", "materialize", "rm go/pb", "protoc go", "protoc lite"}
      /\ Has(a, "protoc go", "") /\ Has(a, "protoc lite", "") /\ Has(a, "materialize", "")
      /\ Followed(a, {"template", "rm go/pb"}, "protoc go", "")
      /\ Followed(a, {"template", "rm go/pb"}, "protoc lite", "")
  <2>1. Dos(a) = Dos(ModuleBootstrap) \cup Dos(ProtoGoScript)
    BY BootstrapFacts, GoScriptFacts, DosCat
  <2> QED  BY <2>1, BootstrapFacts, GoScriptFacts, CatJoined, HasCat, FollowedCat
<1> HIDE DEF a
<1>3. /\ b \in Seq(StepTypes)
      /\ Dos(b) = {"list module", "materialize", "rm go/pb", "protoc go", "protoc lite",
                   "rm lib/pb", "protoc dart"}
      /\ Has(b, "protoc go", "") /\ Has(b, "protoc lite", "") /\ Has(b, "materialize", "")
      /\ Has(b, "protoc dart", "")
  <2>1. Dos(b) = Dos(a) \cup Dos(ProtoDartScript)
    BY <1>2, DartScriptFacts, DosCat
  <2> QED  BY <1>2, <2>1, DartScriptFacts, CatJoined, HasCat
<1>4. /\ Followed(b, {"template", "rm go/pb"}, "protoc go", "")
      /\ Followed(b, {"template", "rm go/pb"}, "protoc lite", "")
  <2>1. Dos(ProtoDartScript) \cap {"template", "rm go/pb"} = {}
    BY DartScriptFacts
  <2>2. \A on, do : Followed(ProtoDartScript, {"template", "rm go/pb"}, do, on)
    BY <2>1, DartScriptFacts, DosFacts
  <2> QED  BY <1>2, <2>2, DartScriptFacts, FollowedCat
<1>5. Followed(b, {"template", "rm lib/pb"}, "protoc dart", "")
  BY <1>2, DartScriptFacts, FollowedCat
<1> HIDE DEF b
<1>6. /\ s \in Seq(StepTypes) /\ Dos(s) = WiringDos
  <2>1. Dos(s) = Dos(b) \cup Dos(WriteWiringFiles)
    BY <1>3, WiringFilesFacts, DosCat
  <2> QED  BY <1>3, <2>1, WiringFilesFacts, CatJoined DEF WiringDos
<1>7. /\ Has(s, "protoc go", "") /\ Has(s, "protoc lite", "") /\ Has(s, "protoc dart", "")
      /\ Has(s, "write main", "") /\ Has(s, "write handlers", "")
      /\ Has(s, "write entrypoint", "") /\ Has(s, "materialize", "")
      /\ Has(s, "patch manifest", "")
  BY <1>3, WiringFilesFacts, HasCat
<1>8. \A do, on : /\ Followed(WriteWiringFiles, {"template", "rm go/pb"}, do, on)
                  /\ Followed(WriteWiringFiles, {"template", "rm lib/pb"}, do, on)
                  /\ Followed(WriteWiringFiles, {"template", "protoc lite"}, do, on)
                  /\ Followed(WriteWiringFiles, {"materialize"}, do, on)
  <2>1. /\ Dos(WriteWiringFiles) \cap {"template", "rm go/pb"} = {}
        /\ Dos(WriteWiringFiles) \cap {"template", "rm lib/pb"} = {}
        /\ Dos(WriteWiringFiles) \cap {"template", "protoc lite"} = {}
        /\ Dos(WriteWiringFiles) \cap {"materialize"} = {}
    BY WiringFilesFacts
  <2> QED  BY <2>1, WiringFilesFacts, DosFacts
<1>9. Generates(s)
  <2>1. Unused(s, {"rm generated", "rm platforms"})
    <3>1. Dos(s) \cap {"rm generated", "rm platforms"} = {}
      BY <1>6 DEF WiringDos
    <3> QED  BY <1>6, <3>1, DosFacts
  <2>2. /\ Followed(s, {"template", "rm go/pb"}, "protoc go", "")
        /\ Followed(s, {"template", "rm go/pb"}, "protoc lite", "")
        /\ Followed(s, {"template", "rm lib/pb"}, "protoc dart", "")
    BY <1>3, <1>4, <1>5, <1>8, WiringFilesFacts, FollowedCat
  <2>3. /\ Followed(s, {"template", "protoc lite"}, "write main", "")
        /\ Followed(s, {"template", "protoc lite"}, "write handlers", "")
    BY <1>3, <1>8, WiringFilesFacts, FollowedCat
  <2> QED  BY <2>1, <2>2, <2>3 DEF Generates
<1>10. PatchesManifest(s)
  <2>1. Followed(s, {"materialize"}, "patch manifest", "")
    BY <1>3, <1>8, WiringFilesFacts, FollowedCat
  <2>2. "patch manifest" \notin Dos(b)
    BY <1>3
  <2>3. Behind(b, {"materialize", "protoc lite", "patch manifest"}, "patch manifest")
    BY <1>3, <2>2, DosFacts
  <2>4. Behind(s, {"materialize", "protoc lite", "patch manifest"}, "patch manifest")
    BY <1>3, <2>2, <2>3, WiringFilesFacts, BehindCat
  <2> QED  BY <2>1, <2>4 DEF PatchesManifest
<1>11. Paired(s)
  <2>1. Dos(s) \cap {"clone", "create"} = {}
    BY <1>6 DEF WiringDos
  <2> QED  BY <1>6, <2>1, NonePaired
<1> HIDE DEF s
<1> QED  BY <1>1, <1>6, <1>7, <1>9, <1>10, <1>11 DEF Makes

-----------------------------------------------------------------------------
(* The list of the platforms.                                              *)

\* SetToSeq lists every platform.
LEMMA PlatformOrder ==
  LET order == SetToSeq(Platforms)
  IN  /\ order \in Seq(Platforms) /\ DOMAIN order = 1 .. Len(order) /\ Len(order) \in Nat
      /\ \A p \in Platforms : \E i \in 1 .. Len(order) : order[i] = p
<1> DEFINE n == Cardinality(Platforms)
           order == SetToSeq(Platforms)
<1>1. IsFiniteSet(Platforms) /\ n \in Nat /\ ExistsBijection(1 .. n, Platforms)
  BY ProjectAssumption, FS_CardinalityType
<1> HIDE DEF n
<1>2. \E f \in [1 .. n -> Platforms] : IsInjective(f)
  BY <1>1 DEF ExistsBijection, Bijection, Injection
<1>3. order \in [1 .. n -> Platforms] /\ IsInjective(order)
  BY <1>2 DEF SetToSeq, n
<1> HIDE DEF order
<1>4. order \in Injection(1 .. n, Platforms)
  BY <1>3 DEF Injection
<1>5. Cardinality(1 .. n) = n
  BY <1>1, FS_Interval
<1>6. order \in Surjection(1 .. n, Platforms)
  BY <1>1, <1>4, <1>5, FS_Injection DEF n
<1>7. order \in Seq(Platforms) /\ Len(order) = n
  BY <1>1, <1>3
<1>8. \A p \in Platforms : \E i \in 1 .. n : order[i] = p
  BY <1>6 DEF Surjection
<1> QED  BY <1>1, <1>3, <1>7, <1>8 DEF order

\* FlattenSeq, which puts the blocks of the platforms together.
FlatStep(g, q, i) == IF i = 1 THEN q[i] ELSE g[i - 1] \o q[i]
IsFlat(g, q, n) == g = [i \in 1 .. n |-> FlatStep(g, q, i)]
Flat(q) == CHOOSE g : IsFlat(g, q, Len(q))

LEMMA SmallestNat ==
  ASSUME NEW T, T \subseteq Nat, T # {}
  PROVE  \E n \in T : \A m \in T : n =< m
<1>1. PICK n \in T : \A m \in T : ~(<<m, n>> \in OpToRel(<, Nat))
  BY NatLessThanWellFounded, WFMin
<1>2. \A m \in T : m \in Nat /\ ~(m < n)
  BY <1>1 DEF OpToRel
<1>3. n \in Nat
  OBVIOUS
<1> QED  BY <1>2, <1>3

\* The recursion of FlattenSeq has a solution.
LEMMA FlatExists ==
  ASSUME NEW q, NEW n \in Nat
  PROVE  \E g : IsFlat(g, q, n)
<1> DEFINE Bad == {m \in Nat : ~ \E g : IsFlat(g, q, m)}
<1> SUFFICES ASSUME Bad # {} PROVE FALSE
  OBVIOUS
<1>1. PICK m \in Bad : \A k \in Bad : m =< k
  <2>1. Bad \subseteq Nat
    OBVIOUS
  <2> HIDE DEF Bad
  <2> QED  BY <2>1, SmallestNat
<1>2. m \in Nat /\ ~ \E g : IsFlat(g, q, m)
  OBVIOUS
<1>3. m # 0
  <2> DEFINE e == [i \in 1 .. 0 |-> {}]
  <2>1. 1 .. 0 = {}
    OBVIOUS
  <2>2. IsFlat(e, q, 0)
    BY <2>1 DEF IsFlat
  <2> QED  BY <1>2, <2>2
<1>4. m - 1 \in Nat /\ m - 1 \notin Bad
  <2>1. m - 1 \in Nat /\ ~(m =< m - 1)
    BY <1>2, <1>3
  <2> HIDE DEF Bad
  <2> QED  BY <1>1, <2>1
<1>5. PICK h : IsFlat(h, q, m - 1)
  BY <1>4
<1> DEFINE g == [i \in 1 .. m |-> IF i = m THEN FlatStep(h, q, m) ELSE h[i]]
<1>6. ASSUME NEW i \in 1 .. m PROVE g[i] = FlatStep(g, q, i)
  <2>1. i # 1 => i - 1 \in 1 .. m /\ i - 1 # m /\ i - 1 \in 1 .. m - 1
    BY <1>2
  <2>2. i # 1 => g[i - 1] = h[i - 1]
    BY <2>1
  <2>3. g[i] = IF i = m THEN FlatStep(h, q, m) ELSE h[i]
    OBVIOUS
  <2>4. i # m => i \in 1 .. m - 1
    BY <1>2
  <2>5. i # m => h[i] = FlatStep(h, q, i)
    BY <1>5, <2>4 DEF IsFlat
  <2> HIDE DEF g
  <2>6. FlatStep(g, q, i) = FlatStep(h, q, i)
    BY <2>2 DEF FlatStep
  <2> QED  BY <2>3, <2>5, <2>6
<1>7. IsFlat(g, q, m)
  <2>1. g = [i \in 1 .. m |-> g[i]]
    OBVIOUS
  <2> HIDE DEF g
  <2> QED  BY <1>6, <2>1 DEF IsFlat
<1> QED  BY <1>2, <1>7

\* So it takes in the sequences one after the other.
LEMMA FlattenSteps ==
  ASSUME NEW q, Len(q) \in Nat \ {0}
  PROVE  /\ FlattenSeq(q) = Flat(q)[Len(q)]
         /\ \A i \in 1 .. Len(q) : Flat(q)[i] = FlatStep(Flat(q), q, i)
<1>1. FlattenSeq(q) = Flat(q)[Len(q)]
  BY DEF FlattenSeq, FlatStep, IsFlat, Flat
<1>2. IsFlat(Flat(q), q, Len(q))
  BY FlatExists DEF Flat
<1> QED  BY <1>1, <1>2 DEF IsFlat

\* The blocks of the platforms: one per platform, each closed by its patches.
LEMMA BlocksFacts ==
  /\ FlutterCreateBlocks \in Seq(StepTypes) /\ Paired(FlutterCreateBlocks)
  /\ Dos(FlutterCreateBlocks) \subseteq {"create web", "create", "patch"}
  /\ Has(FlutterCreateBlocks, "create web", "")
  /\ \A p \in Platforms : Has(FlutterCreateBlocks, "create", p)
<1> DEFINE order == SetToSeq(Platforms)
           block(i) == << Soft("create", order[i]),
                          IF i = Len(order) THEN Hard("patch", order[i])
                          ELSE Soft("patch", order[i]) >>
           q == [i \in DOMAIN order |-> block(i)]
           web == << Soft("create web", "") >>
           P(x, i) == /\ x \in Seq(StepTypes) /\ Paired(x)
                      /\ Dos(x) \subseteq {"create", "patch"}
                      /\ \A k \in 1 .. i : Has(x, "create", order[k])
<1>1. /\ order \in Seq(Platforms) /\ DOMAIN order = 1 .. Len(order) /\ Len(order) \in Nat
      /\ \A p \in Platforms : \E i \in 1 .. Len(order) : order[i] = p
  BY PlatformOrder
<1> HIDE DEF order
<1>2. ASSUME NEW i \in 1 .. Len(order)
      PROVE  P(block(i), 0) /\ Has(block(i), "create", order[i])
  <2>1. order[i] \in Platforms
    BY <1>1
  <2>2. \E b \in StepTypes : /\ block(i) = << Soft("create", order[i]), b >>
                             /\ b.do = "patch" /\ b.on = order[i]
    <3>1. "create" \in StepNames /\ "patch" \in StepNames
      BY DEF StepNames
    <3> DEFINE c == IF i = Len(order) THEN Hard("patch", order[i])
                    ELSE Soft("patch", order[i])
    <3>2. c \in StepTypes /\ c.do = "patch" /\ c.on = order[i]
      <4> HIDE DEF block
      <4>1. /\ Hard("patch", order[i]) \in StepTypes /\ Hard("patch", order[i]).do = "patch"
            /\ Hard("patch", order[i]).on = order[i]
            /\ Soft("patch", order[i]) \in StepTypes /\ Soft("patch", order[i]).do = "patch"
            /\ Soft("patch", order[i]).on = order[i]
        BY <2>1, <3>1, StepFacts
      <4> QED  BY <4>1
    <3>3. block(i) = << Soft("create", order[i]), c >>
      OBVIOUS
    <3> HIDE DEF block, c
    <3> QED  BY <3>2, <3>3
  <2> HIDE DEF block
  <2>3. PICK b \in StepTypes : /\ block(i) = << Soft("create", order[i]), b >>
                               /\ b.do = "patch" /\ b.on = order[i]
    BY <2>2
  <2>4. /\ Soft("create", order[i]) \in StepTypes /\ Soft("create", order[i]).do = "create"
        /\ Soft("create", order[i]).on = order[i]
    <3>1. "create" \in StepNames
      BY DEF StepNames
    <3> QED  BY <2>1, <3>1, StepFacts
  <2>5. /\ block(i) \in Seq(StepTypes) /\ Dos(block(i)) = {"create", "patch"}
        /\ Has(block(i), "create", order[i]) /\ Paired(block(i))
    BY <2>3, <2>4, TwoSteps
  <2> QED  BY <2>5
<1>3. Len(q) = Len(order) /\ \A i \in 1 .. Len(order) : q[i] = block(i)
  <2> HIDE DEF block
  <2> QED  BY <1>1
<1> HIDE DEF q, block
<1>4. P(FlattenSeq(q), Len(order))
  <2>1. CASE Len(order) = 0
    <3>1. FlattenSeq(q) = q /\ q = << >>
      BY <1>1, <1>3, <2>1 DEF FlattenSeq, q
    <3> QED  BY <2>1, <3>1 DEF Paired, Dos
  <2>2. CASE Len(order) # 0
    <3>1. /\ FlattenSeq(q) = Flat(q)[Len(order)]
          /\ \A i \in 1 .. Len(order) : Flat(q)[i] = FlatStep(Flat(q), q, i)
      BY <1>1, <1>3, <2>2, FlattenSteps
    <3> DEFINE Bad == {i \in 1 .. Len(order) : ~P(Flat(q)[i], i)}
    <3>2. Bad = {}
      <4> SUFFICES ASSUME Bad # {} PROVE FALSE
        OBVIOUS
      <4>1. PICK i \in Bad : \A j \in Bad : i =< j
        <5>1. Bad \subseteq Nat
          OBVIOUS
        <5> HIDE DEF Bad
        <5> QED  BY <5>1, SmallestNat
      <4>2. i \in 1 .. Len(order) /\ ~P(Flat(q)[i], i)
        OBVIOUS
      <4>3. P(block(i), 0) /\ Has(block(i), "create", order[i])
        BY <1>2, <4>2
      <4>4. CASE i = 1
        <5>1. Flat(q)[i] = block(i)
          BY <1>3, <3>1, <4>2, <4>4 DEF FlatStep
        <5> QED  BY <4>2, <4>3, <4>4, <5>1
      <4>5. CASE i # 1
        <5> DEFINE x == Flat(q)[i - 1]
        <5>1. i - 1 \in 1 .. Len(order) /\ i - 1 \notin Bad
          <6>1. i - 1 \in 1 .. Len(order) /\ ~(i =< i - 1)
            BY <1>1, <4>2, <4>5
          <6> HIDE DEF Bad
          <6> QED  BY <4>1, <6>1
        <5>2. P(x, i - 1)
          BY <5>1
        <5> HIDE DEF x
        <5>3. Flat(q)[i] = x \o block(i)
          BY <1>3, <3>1, <4>2, <4>5 DEF FlatStep, x
        <5>4. /\ x \o block(i) \in Seq(StepTypes) /\ Paired(x \o block(i))
              /\ Dos(x \o block(i)) \subseteq {"create", "patch"}
          BY <4>3, <5>2, CatJoined, PairedCat, DosCat
        <5>5. \A k \in 1 .. i : Has(x \o block(i), "create", order[k])
          <6> SUFFICES ASSUME NEW k \in 1 .. i
                       PROVE  Has(x \o block(i), "create", order[k])
            OBVIOUS
          <6>1. k = i \/ k \in 1 .. i - 1
            BY <4>2
          <6> QED  BY <4>3, <5>2, <6>1, HasCat
        <5> QED  BY <4>2, <5>3, <5>4, <5>5
      <4> QED  BY <4>4, <4>5
    <3>3. Len(order) \in 1 .. Len(order)
      BY <1>1, <2>2
    <3> QED  BY <3>1, <3>2, <3>3
  <2> QED  BY <2>1, <2>2
<1>5. FlutterCreateBlocks = web \o FlattenSeq(q)
  BY DEF FlutterCreateBlocks, order, block, q
<1>6. /\ web \in Seq(StepTypes) /\ Dos(web) = {"create web"} /\ Has(web, "create web", "")
      /\ Paired(web)
  <2>1. /\ Soft("create web", "") \in StepTypes /\ Soft("create web", "").do = "create web"
        /\ Soft("create web", "").on = ""
    BY DEF Soft, StepTypes, StepNames
  <2>2. /\ web \in Seq(StepTypes) /\ Dos(web) = {"create web"}
        /\ Has(web, "create web", "")
    BY <2>1, OneStep
  <2> QED  BY <2>2, NonePaired
<1> HIDE DEF web
<1>7. \A p \in Platforms : Has(FlattenSeq(q), "create", p)
  BY <1>1, <1>4
<1> QED  BY <1>4, <1>5, <1>6, <1>7, CatJoined, PairedCat, DosCat, HasCat

-----------------------------------------------------------------------------
(* The commands.                                                           *)

LEMMA NotEmpty ==
  ASSUME NEW s, NEW do, NEW on, Has(s, do, on) PROVE s # << >>
<1>1. DOMAIN << >> = {}
  OBVIOUS
<1> QED  BY <1>1 DEF Has

\* What may come before a list that makes everything, and after it.
LEMMA GeneratesBefore ==
  ASSUME NEW pre \in Seq(StepTypes), NEW s \in Seq(StepTypes), Generates(s), Makes(s),
         Dos(pre) \cap {"rm generated", "rm platforms"} = {}
  PROVE  Generates(pre \o s) /\ Makes(pre \o s)
<1>1. Makes(pre \o s)
  BY HasCat DEF Makes
<1>2. pre \o s \in Seq(StepTypes) /\ Dos(pre \o s) = Dos(pre) \cup Dos(s)
  BY CatJoined, DosCat
<1>3. Unused(pre \o s, {"rm generated", "rm platforms"})
  <2>1. Dos(s) \cap {"rm generated", "rm platforms"} = {}
    BY DosFacts DEF Generates
  <2>2. Dos(pre \o s) \cap {"rm generated", "rm platforms"} = {}
    BY <1>2, <2>1
  <2> QED  BY <1>2, <2>2, DosFacts
<1>4. /\ Followed(pre \o s, {"template", "rm go/pb"}, "protoc go", "")
      /\ Followed(pre \o s, {"template", "rm go/pb"}, "protoc lite", "")
      /\ Followed(pre \o s, {"template", "rm lib/pb"}, "protoc dart", "")
      /\ Followed(pre \o s, {"template", "protoc lite"}, "write main", "")
      /\ Followed(pre \o s, {"template", "protoc lite"}, "write handlers", "")
  BY FollowedCat DEF Generates, Makes
<1> QED  BY <1>1, <1>3, <1>4 DEF Generates

LEMMA GeneratesAfter ==
  ASSUME NEW s \in Seq(StepTypes), NEW post \in Seq(StepTypes), Generates(s), Makes(s),
         Dos(post) \cap {"template", "rm go/pb", "rm lib/pb", "protoc lite",
                         "rm generated", "rm platforms"} = {}
  PROVE  Generates(s \o post) /\ Makes(s \o post)
<1>1. Makes(s \o post)
  BY HasCat DEF Makes
<1>2. s \o post \in Seq(StepTypes) /\ Dos(s \o post) = Dos(s) \cup Dos(post)
  BY CatJoined, DosCat
<1>3. Unused(s \o post, {"rm generated", "rm platforms"})
  <2>1. Dos(s) \cap {"rm generated", "rm platforms"} = {}
    BY DosFacts DEF Generates
  <2>2. Dos(s \o post) \cap {"rm generated", "rm platforms"} = {}
    BY <1>2, <2>1
  <2> QED  BY <1>2, <2>2, DosFacts
<1>4. \A do : /\ Followed(post, {"template", "rm go/pb"}, do, "")
              /\ Followed(post, {"template", "rm lib/pb"}, do, "")
              /\ Followed(post, {"template", "protoc lite"}, do, "")
  <2>1. /\ Dos(post) \cap {"template", "rm go/pb"} = {}
        /\ Dos(post) \cap {"template", "rm lib/pb"} = {}
        /\ Dos(post) \cap {"template", "protoc lite"} = {}
    OBVIOUS
  <2> QED  BY <2>1, DosFacts
<1>5. /\ Followed(s \o post, {"template", "rm go/pb"}, "protoc go", "")
      /\ Followed(s \o post, {"template", "rm go/pb"}, "protoc lite", "")
      /\ Followed(s \o post, {"template", "rm lib/pb"}, "protoc dart", "")
      /\ Followed(s \o post, {"template", "protoc lite"}, "write main", "")
      /\ Followed(s \o post, {"template", "protoc lite"}, "write handlers", "")
  BY <1>4, FollowedCat DEF Generates
<1> QED  BY <1>1, <1>3, <1>5 DEF Generates

LEMMA PatchesBefore ==
  ASSUME NEW pre \in Seq(StepTypes), NEW s \in Seq(StepTypes), PatchesManifest(s),
         Has(s, "patch manifest", ""), "patch manifest" \notin Dos(pre)
  PROVE  PatchesManifest(pre \o s) /\ Has(pre \o s, "patch manifest", "")
<1>1. Behind(pre, {"materialize", "protoc lite", "patch manifest"}, "patch manifest")
  BY DosFacts
<1> QED  BY <1>1, HasCat, FollowedCat, BehindCat DEF PatchesManifest

LEMMA PatchesAfter ==
  ASSUME NEW s \in Seq(StepTypes), NEW post \in Seq(StepTypes), PatchesManifest(s),
         Dos(post) \cap {"materialize", "protoc lite", "patch manifest"} = {}
  PROVE  PatchesManifest(s \o post)
<1>1. Dos(post) \cap {"materialize"} = {}
  OBVIOUS
<1>2. /\ Behind(post, {"materialize", "protoc lite", "patch manifest"}, "patch manifest")
      /\ Followed(post, {"materialize"}, "patch manifest", "")
  BY <1>1, DosFacts
<1> QED  BY <1>2, FollowedCat, BehindCat DEF PatchesManifest

\* runProtoAndWiring with other steps before it and after it.
Around == {"template", "rm generated", "rm platforms", "build app", "go build", "build lib"}
          \cup WiringDos

LEMMA AroundWiring ==
  ASSUME NEW pre \in Seq(StepTypes), NEW post \in Seq(StepTypes), Paired(pre), Paired(post),
         Dos(pre) \cap Around = {},
         Dos(post) \cap (Around \ {"build app", "go build", "build lib"}) = {},
         NEW s, s = (pre \o ProtoAndWiring) \o post
  PROVE  /\ s \in Seq(StepTypes) /\ Paired(s) /\ Generates(s) /\ Makes(s)
         /\ PatchesManifest(s)
         /\ Has(s, "materialize", "") /\ Has(s, "patch manifest", "")
         /\ Dos(s) = Dos(pre) \cup WiringDos \cup Dos(post)
<1> DEFINE t == pre \o ProtoAndWiring
<1>1. /\ Dos(pre) \cap {"rm generated", "rm platforms"} = {}
      /\ "patch manifest" \notin Dos(pre)
      /\ Dos(post) \cap {"template", "rm go/pb", "rm lib/pb", "protoc lite",
                         "rm generated", "rm platforms"} = {}
      /\ Dos(post) \cap {"materialize", "protoc lite", "patch manifest"} = {}
  BY DEF Around, WiringDos
<1>2. /\ t \in Seq(StepTypes) /\ Paired(t) /\ Dos(t) = Dos(pre) \cup WiringDos
      /\ Has(t, "materialize", "")
  BY WiringFacts, CatJoined, PairedCat, DosCat, HasCat
<1>3. Generates(t) /\ Makes(t)
  BY <1>1, WiringFacts, GeneratesBefore
<1>4. PatchesManifest(t) /\ Has(t, "patch manifest", "")
  BY <1>1, WiringFacts, PatchesBefore
<1> DEFINE u == t \o post
<1>5. s = u
  OBVIOUS
<1> HIDE DEF t
<1>6. u \in Seq(StepTypes) /\ Paired(u) /\ Dos(u) = Dos(t) \cup Dos(post)
  BY <1>2, CatJoined, PairedCat, DosCat
<1>7. Generates(u) /\ Makes(u) /\ PatchesManifest(u)
  BY <1>1, <1>2, <1>3, <1>4, GeneratesAfter, PatchesAfter
<1>8. Has(u, "materialize", "") /\ Has(u, "patch manifest", "")
  BY <1>2, <1>4, HasCat
<1> HIDE DEF u
<1> QED  BY <1>2, <1>5, <1>6, <1>7, <1>8

\* A list without a template creates the platforms, if it does, once and for all.
LEMMA NoTemplate ==
  ASSUME NEW s \in Seq(StepTypes), "template" \notin Dos(s)
  PROVE  CreatesPlatforms(s) /\ \A i \in DOMAIN s : s[i].do # "template"
<1>1. Dos(s) \cap {"template"} = {}
  OBVIOUS
<1> QED  BY <1>1, DosFacts DEF CreatesPlatforms, Dos

LEMMA PlainLaid ==
  ASSUME NEW s \in Seq(StepTypes), NEW name, name \notin Full, Paired(s),
         Dos(s) \cap {"template", "build app"} = {}
  PROVE  Laid(name, s) /\ Complete(name, s)
<1>1. "template" \notin Dos(s) /\ Dos(s) \cap {"build app"} = {}
  OBVIOUS
<1>2. (\A i \in DOMAIN s : s[i].do # "template") /\ Unused(s, {"build app"})
  BY <1>1, NoTemplate, DosFacts
<1>3. name \notin {"new", "prepare", "upgrade", "web", "native"}
  BY DEF Full
<1>4. name # "new" /\ name # "prepare" /\ name # "upgrade" /\ name # "native"
  BY <1>3
<1> QED  BY <1>2, <1>4 DEF Laid, Complete

LEMMA WebAssetsStep ==
  LET w == << Soft("web assets", "") >>
      pre == LoadProjectEnv \o w
  IN  /\ w \in Seq(StepTypes) /\ Dos(w) = {"web assets"} /\ Paired(w)
      /\ pre \in Seq(StepTypes) /\ Paired(pre)
      /\ Dos(pre) = {"clone", "checkout", "web assets"}
<1> DEFINE a == Soft("web assets", "")
           w == << a >>
           pre == LoadProjectEnv \o w
<1>1. a \in StepTypes /\ a.do = "web assets"
  BY DEF Soft, StepTypes, StepNames
<1> HIDE DEF a
<1>2. w \in Seq(StepTypes) /\ Dos(w) = {"web assets"}
  BY <1>1, OneStep
<1>3. Paired(w)
  BY <1>2, NonePaired
<1> HIDE DEF w
<1>4. Dos(pre) = Dos(LoadProjectEnv) \cup Dos(w)
  BY <1>2, EnvFacts, DosCat
<1>5. pre \in Seq(StepTypes) /\ Paired(pre)
  BY <1>2, <1>3, EnvFacts, CatJoined, PairedCat
<1> QED  BY <1>2, <1>3, <1>4, <1>5, EnvFacts DEF w, a

LEMMA PrepareLaid == Prepare \in Seq(StepTypes) /\ Laid("prepare", Prepare)
                     /\ Complete("prepare", Prepare) /\ Prepare # << >>
<1> DEFINE pre == LoadProjectEnv \o << Soft("web assets", "") >>
           s == Prepare
<1>2. s = (pre \o ProtoAndWiring) \o FlutterCreateBlocks
  BY DEF Prepare
<1>4. /\ pre \in Seq(StepTypes) /\ Paired(pre)
      /\ Dos(pre) = {"clone", "checkout", "web assets"}
  BY WebAssetsStep
<1> HIDE DEF pre, s
<1>5. /\ Dos(pre) \cap Around = {}
      /\ Dos(FlutterCreateBlocks) \cap (Around \ {"build app", "go build", "build lib"}) = {}
  BY <1>4, BlocksFacts DEF Around, WiringDos
<1>6. /\ s \in Seq(StepTypes) /\ Paired(s) /\ Generates(s) /\ Makes(s)
      /\ PatchesManifest(s)
      /\ Has(s, "materialize", "") /\ Has(s, "patch manifest", "")
      /\ Dos(s) = Dos(pre) \cup WiringDos \cup Dos(FlutterCreateBlocks)
  BY <1>2, <1>4, <1>5, BlocksFacts, AroundWiring
<1>7. "template" \notin Dos(s) /\ Dos(s) \cap {"build app"} = {}
  BY <1>4, <1>6, BlocksFacts DEF WiringDos
<1>8. /\ CreatesPlatforms(s) /\ Unused(s, {"build app"})
      /\ \A i \in DOMAIN s : s[i].do # "template"
  BY <1>6, <1>7, NoTemplate, DosFacts
<1>9. /\ Has(s, "create web", "") /\ \A p \in Platforms : Has(s, "create", p)
  <2>1. pre \o ProtoAndWiring \in Seq(StepTypes)
    BY <1>4, WiringFacts, CatJoined
  <2> QED  BY <1>2, <2>1, BlocksFacts, HasCat
<1>10. Laid("prepare", s)
  BY <1>6, <1>8 DEF Laid
<1>11. Complete("prepare", s)
  BY <1>6, <1>9 DEF Complete, Makes
<1>12. s # << >>
  BY <1>9, NotEmpty
<1> QED  BY <1>6, <1>10, <1>11, <1>12 DEF s

LEMMA ProtoLaid == Proto \in Seq(StepTypes) /\ Laid("proto", Proto)
                   /\ Complete("proto", Proto) /\ Proto # << >>
<1> DEFINE a == LoadProjectEnv \o ProtoGoScript
           s == a \o ProtoDartScript
<1>1. s = Proto
  BY DEF Proto
<1>2. Paired(ProtoGoScript) /\ Paired(ProtoDartScript)
  BY GoScriptFacts, DartScriptFacts, NonePaired
<1>3. /\ a \in Seq(StepTypes) /\ Paired(a)
      /\ Dos(a) = Dos(LoadProjectEnv) \cup Dos(ProtoGoScript)
  BY <1>2, EnvFacts, GoScriptFacts, CatJoined, PairedCat, DosCat
<1> HIDE DEF a
<1>4. /\ s \in Seq(StepTypes) /\ Paired(s)
      /\ Dos(s) = Dos(a) \cup Dos(ProtoDartScript) /\ Has(s, "protoc dart", "")
  BY <1>2, <1>3, DartScriptFacts, CatJoined, PairedCat, DosCat, HasCat
<1> HIDE DEF s
<1>5. Dos(s) \cap {"template", "build app"} = {}
  BY <1>3, <1>4, EnvFacts, GoScriptFacts, DartScriptFacts
<1>6. "proto" \notin Full
  BY DEF Full
<1>7. Laid("proto", s) /\ Complete("proto", s)
  BY <1>4, <1>5, <1>6, PlainLaid
<1> QED  BY <1>1, <1>4, <1>7, NotEmpty

LEMMA LibLaid ==
  ASSUME NEW p \in Platforms
  PROVE  /\ LibBuild(p) \in Seq(StepTypes) /\ Laid("lib", LibBuild(p))
         /\ Complete("lib", LibBuild(p)) /\ LibBuild(p) # << >>
<1> DEFINE g == Soft("go build", p)  l == Hard("build lib", p)
           t == << g, l >>
           a == LoadProjectEnv \o ModuleBootstrap
           s == a \o t
<1>1. s = LibBuild(p)
  BY DEF LibBuild
<1>2. g \in StepTypes /\ g.do = "go build" /\ l \in StepTypes /\ l.do = "build lib"
  BY DEF Hard, Soft, StepTypes, StepNames
<1> HIDE DEF g, l
<1>3. t \in Seq(StepTypes) /\ Dos(t) = {"go build", "build lib"} /\ Has(t, l.do, l.on)
  BY <1>2, TwoSteps
<1> HIDE DEF t
<1>4. Paired(t)
  BY <1>3, NonePaired
<1>5. /\ a \in Seq(StepTypes) /\ Paired(a)
      /\ Dos(a) = Dos(LoadProjectEnv) \cup Dos(ModuleBootstrap)
  BY EnvFacts, BootstrapFacts, CatJoined, PairedCat, DosCat
<1> HIDE DEF a
<1>6. /\ s \in Seq(StepTypes) /\ Paired(s)
      /\ Dos(s) = Dos(a) \cup {"go build", "build lib"} /\ Has(s, l.do, l.on)
  <2>1. s \in Seq(StepTypes) /\ Paired(s)
    BY <1>3, <1>4, <1>5, CatJoined, PairedCat
  <2>2. Dos(s) = Dos(a) \cup {"go build", "build lib"}
    <3>1. Dos(s) = Dos(a) \cup Dos(t)
      BY <1>3, <1>5, DosCat
    <3> QED  BY <1>3, <3>1
  <2>3. Has(s, l.do, l.on)
    BY <1>3, <1>5, HasCat
  <2> QED  BY <2>1, <2>2, <2>3
<1> HIDE DEF s
<1>7. Dos(s) \cap {"template", "build app"} = {}
  BY <1>5, <1>6, EnvFacts, BootstrapFacts
<1>8. "lib" \notin Full
  BY DEF Full
<1>9. Laid("lib", s) /\ Complete("lib", s)
  BY <1>6, <1>7, <1>8, PlainLaid
<1> QED  BY <1>1, <1>6, <1>9, NotEmpty

LEMMA CleanLaid == Clean \in Seq(StepTypes) /\ Laid("clean", Clean)
                   /\ Complete("clean", Clean) /\ Clean # << >>
<1> DEFINE a == Soft("rm generated", "")  b == Hard("flutter clean", "")
           t == << a, b >>
           s == LoadProjectEnv \o t
<1>1. s = Clean
  BY DEF Clean
<1>2. /\ a \in StepTypes /\ b \in StepTypes
      /\ a.do = "rm generated" /\ b.do = "flutter clean"
  BY DEF Hard, Soft, StepTypes, StepNames
<1> HIDE DEF a, b
<1>3. t \in Seq(StepTypes) /\ Dos(t) = {"rm generated", "flutter clean"}
      /\ Has(t, b.do, b.on)
  BY <1>2, TwoSteps
<1> HIDE DEF t
<1>4. Paired(t)
  BY <1>3, NonePaired
<1>5. /\ s \in Seq(StepTypes) /\ Paired(s) /\ Dos(s) = Dos(LoadProjectEnv) \cup Dos(t)
      /\ Has(s, b.do, b.on)
  BY <1>3, <1>4, EnvFacts, CatJoined, PairedCat, DosCat, HasCat
<1> HIDE DEF s
<1>6. Dos(s) \cap {"template", "build app"} = {}
  BY <1>3, <1>5, EnvFacts
<1>7. "clean" \notin Full
  BY DEF Full
<1>8. Laid("clean", s) /\ Complete("clean", s)
  BY <1>5, <1>6, <1>7, PlainLaid
<1> QED  BY <1>1, <1>5, <1>8, NotEmpty

LEMMA ResetLaid == Reset \in Seq(StepTypes) /\ Laid("reset", Reset)
                   /\ Complete("reset", Reset) /\ Reset # << >>
<1> DEFINE a == Soft("rm generated", "")  b == Soft("flutter clean", "")
           c == Hard("rm platforms", "")
           t == << a, b, c >>
           s == LoadProjectEnv \o t
<1>1. s = Reset
  BY DEF Reset
<1>2. a \in StepTypes /\ b \in StepTypes /\ c \in StepTypes
  BY DEF Hard, Soft, StepTypes, StepNames
<1>3. a.do = "rm generated" /\ b.do = "flutter clean" /\ c.do = "rm platforms"
  BY DEF Hard, Soft
<1> HIDE DEF a, b, c
<1>4. t \in Seq(StepTypes) /\ DOMAIN t = {1, 2, 3}
  BY <1>2
<1>5. t[1] = a /\ t[2] = b /\ t[3] = c
  OBVIOUS
<1> HIDE DEF t
<1>6. Dos(t) = {"rm generated", "flutter clean", "rm platforms"} /\ Has(t, a.do, a.on)
  BY <1>3, <1>4, <1>5 DEF Dos, Has
<1>7. Paired(t)
  BY <1>4, <1>6, NonePaired
<1>8. /\ s \in Seq(StepTypes) /\ Paired(s) /\ Dos(s) = Dos(LoadProjectEnv) \cup Dos(t)
      /\ Has(s, a.do, a.on)
  BY <1>4, <1>6, <1>7, EnvFacts, CatJoined, PairedCat, DosCat, HasCat
<1> HIDE DEF s
<1>9. Dos(s) \cap {"template", "build app"} = {}
  BY <1>6, <1>8, EnvFacts
<1>10. "reset" \notin Full
  BY DEF Full
<1>11. Laid("reset", s) /\ Complete("reset", s)
  BY <1>8, <1>9, <1>10, PlainLaid
<1> QED  BY <1>1, <1>8, <1>11, NotEmpty

LEMMA WebLaid == WebBuild \in Seq(StepTypes) /\ Laid("web", WebBuild)
                 /\ Complete("web", WebBuild) /\ WebBuild # << >>
<1> DEFINE a == Soft("wasm", "")  b == Soft("stamp worker", "")
           c == Hard("build web", "")
           t == << a, b, c >>
           pre == LoadProjectEnv \o << Soft("web assets", "") >>
           s == WebBuild
<1>1. s = (pre \o ProtoAndWiring) \o t
  BY DEF WebBuild
<1>2. a \in StepTypes /\ b \in StepTypes /\ c \in StepTypes
  BY DEF Hard, Soft, StepTypes, StepNames
<1>3. a.do = "wasm" /\ b.do = "stamp worker" /\ c.do = "build web"
  BY DEF Hard, Soft
<1> HIDE DEF a, b, c
<1>4. t \in Seq(StepTypes) /\ DOMAIN t = {1, 2, 3}
  BY <1>2
<1>5. t[1] = a /\ t[2] = b /\ t[3] = c
  OBVIOUS
<1> HIDE DEF t
<1>6. Dos(t) = {"wasm", "stamp worker", "build web"}
  BY <1>3, <1>4, <1>5 DEF Dos
<1>7. Paired(t)
  BY <1>4, <1>6, NonePaired
<1>8. /\ pre \in Seq(StepTypes) /\ Paired(pre)
      /\ Dos(pre) = {"clone", "checkout", "web assets"}
  BY WebAssetsStep
<1> HIDE DEF pre, s
<1>9. /\ Dos(pre) \cap Around = {}
      /\ Dos(t) \cap (Around \ {"build app", "go build", "build lib"}) = {}
  BY <1>6, <1>8 DEF Around, WiringDos
<1>10. /\ s \in Seq(StepTypes) /\ Paired(s) /\ Generates(s) /\ Makes(s)
       /\ PatchesManifest(s)
       /\ Has(s, "materialize", "") /\ Has(s, "patch manifest", "")
       /\ Dos(s) = Dos(pre) \cup WiringDos \cup Dos(t)
  BY <1>1, <1>4, <1>7, <1>8, <1>9, AroundWiring
<1>11. "template" \notin Dos(s) /\ Dos(s) \cap {"build app"} = {}
  BY <1>6, <1>8, <1>10 DEF WiringDos
<1>12. Unused(s, {"build app"}) /\ \A i \in DOMAIN s : s[i].do # "template"
  BY <1>10, <1>11, NoTemplate, DosFacts
<1>13. Laid("web", s)
  BY <1>10, <1>12 DEF Laid
<1>14. Complete("web", s)
  BY <1>10 DEF Complete, Makes
<1> QED  BY <1>10, <1>13, <1>14, NotEmpty DEF s

LEMMA NativeLaid ==
  ASSUME NEW p \in Platforms
  PROVE  /\ NativeBuild(p) \in Seq(StepTypes) /\ Laid("native", NativeBuild(p))
         /\ Complete("native", NativeBuild(p)) /\ NativeBuild(p) # << >>
<1> DEFINE a == Soft("go build", p)  b == Soft("build lib", p)  c == Hard("build app", p)
           t == << a, b, c >>
           pre == LoadProjectEnv \o ProtoAndWiring
           s == NativeBuild(p)
<1>1. s = pre \o t
  BY DEF NativeBuild
<1>2. /\ a \in StepTypes /\ b \in StepTypes /\ c \in StepTypes
      /\ a.do = "go build" /\ b.do = "build lib" /\ c.do = "build app"
      /\ a.on = p /\ b.on = p /\ c.on = p
  BY DEF Hard, Soft, StepTypes, StepNames
<1> HIDE DEF a, b, c
<1>3. /\ t \in Seq(StepTypes) /\ Dos(t) = {"go build", "build lib", "build app"}
      /\ Has(t, "go build", p) /\ Has(t, "build lib", p)
      /\ Ends(t, "build app") /\ Behind(t, {"go build"}, "build lib")
      /\ \A q : Has(t, "build app", q) \/ Has(t, "build lib", q) => q = p
  <2>0. a \in StepTypes /\ b \in StepTypes /\ c \in StepTypes
    BY <1>2
  <2>1. t \in Seq(StepTypes) /\ DOMAIN t = {1, 2, 3}
    BY <2>0
  <2>2. t[1] = a /\ t[2] = b /\ t[3] = c /\ Len(t) = 3
    OBVIOUS
  <2> HIDE DEF t
  <2>3. Dos(t) = {"go build", "build lib", "build app"}
    BY <1>2, <2>1, <2>2 DEF Dos
  <2>4. /\ Has(t, "go build", p) /\ Has(t, "build lib", p)
        /\ \A q : Has(t, "build app", q) \/ Has(t, "build lib", q) => q = p
    BY <1>2, <2>1, <2>2 DEF Has
  <2>5. Ends(t, "build app")
    BY <1>2, <2>1, <2>2 DEF Ends
  <2>6. Behind(t, {"go build"}, "build lib")
    <3>1. \A j \in DOMAIN t : t[j].do = "go build" => j = 1
      BY <1>2, <2>1, <2>2
    <3>2. \A i \in DOMAIN t : ~(i < 1)
      BY <2>1
    <3> QED  BY <3>1, <3>2 DEF Behind
  <2> QED  BY <2>1, <2>3, <2>4, <2>5, <2>6
<1>5. Paired(t)
  BY <1>3, NonePaired
<1> HIDE DEF t, s
<1>6. /\ Dos(LoadProjectEnv) \cap Around = {}
      /\ Dos(t) \cap (Around \ {"build app", "go build", "build lib"}) = {}
  BY <1>3, EnvFacts DEF Around, WiringDos
<1>7. /\ s \in Seq(StepTypes) /\ Paired(s) /\ Generates(s) /\ Makes(s)
      /\ PatchesManifest(s)
      /\ Has(s, "materialize", "") /\ Has(s, "patch manifest", "")
      /\ Dos(s) = Dos(LoadProjectEnv) \cup WiringDos \cup Dos(t)
  BY <1>1, <1>3, <1>5, <1>6, EnvFacts, AroundWiring
<1>8. \A i \in DOMAIN s : s[i].do # "template"
  <2>1. "template" \notin Dos(s)
    BY <1>3, <1>7, EnvFacts DEF WiringDos
  <2> QED  BY <1>7, <2>1, NoTemplate
<1>9. /\ pre \in Seq(StepTypes) /\ "go build" \notin Dos(pre)
      /\ "build lib" \notin Dos(pre) /\ "build app" \notin Dos(pre)
  <2>1. pre \in Seq(StepTypes) /\ Dos(pre) = Dos(LoadProjectEnv) \cup Dos(ProtoAndWiring)
    BY EnvFacts, WiringFacts, CatJoined, DosCat
  <2> QED  BY <2>1, EnvFacts, WiringFacts DEF WiringDos
<1> HIDE DEF pre
<1>10. Ends(s, "build app")
  BY <1>1, <1>3, <1>9, EndsCat
<1>11. Behind(s, {"write main"}, "go build") /\ Behind(s, {"go build"}, "build lib")
  <2>1. Dos(t) \cap {"write main"} = {}
    BY <1>3
  <2>2. /\ Behind(pre, {"write main"}, "go build") /\ Behind(t, {"write main"}, "go build")
        /\ Behind(pre, {"go build"}, "build lib")
    BY <1>3, <1>9, <2>1, DosFacts
  <2>3. Behind(s, {"write main"}, "go build")
    BY <1>1, <1>3, <1>9, <2>1, <2>2, BehindCat
  <2>4. Behind(s, {"go build"}, "build lib")
    BY <1>1, <1>3, <1>9, <2>2, BehindCat
  <2> QED  BY <2>3, <2>4
<1>12. \A q \in Platforms : /\ Has(s, "build app", q) => Has(s, "build lib", q)
                            /\ Has(s, "build lib", q) => Has(s, "go build", q)
  <2>1. \A q : ~Has(pre, "build app", q) /\ ~Has(pre, "build lib", q)
    BY <1>9, DosFacts
  <2>2. Has(s, "go build", p) /\ Has(s, "build lib", p)
    BY <1>1, <1>3, <1>9, HasCat
  <2>3. \A q : /\ Has(s, "build app", q) => Has(t, "build app", q)
               /\ Has(s, "build lib", q) => Has(t, "build lib", q)
    BY <1>1, <1>3, <1>9, <2>1, HasCat
  <2>4. \A q : Has(t, "build app", q) \/ Has(t, "build lib", q) => q = p
    BY <1>3
  <2>5. \A q : Has(s, "build app", q) \/ Has(s, "build lib", q) => q = p
    BY <2>3, <2>4
  <2> QED  BY <2>2, <2>5
<1>13. Laid("native", s)
  BY <1>7, <1>8, <1>10, <1>11 DEF Laid
<1>14. Complete("native", s)
  BY <1>7, <1>12 DEF Complete, Makes
<1> QED  BY <1>7, <1>13, <1>14, NotEmpty DEF s

\* The steps with which upgrade begins and ends.
LEMMA UpgradeSteps ==
  LET pre == ((LoadProjectEnv \o (IF dep = "path" THEN << Soft("pull", "") >>
                                  ELSE << Hard("go get", "") >>))
              \o << Hard("refresh", "") >>) \o << Soft("web assets", "") >>
      end == << Hard("write meta", ""), Soft("commit", "") >>
  IN  /\ pre \in Seq(StepTypes) /\ Paired(pre)
      /\ Dos(pre) \subseteq {"clone", "checkout", "pull", "go get", "refresh", "web assets"}
      /\ end \in Seq(StepTypes) /\ Paired(end) /\ Dos(end) = {"write meta", "commit"}
      /\ Ends(end, "commit") /\ Has(end, "commit", "")
<1> DEFINE pull == Soft("pull", "")       get == Hard("go get", "")
           fresh == Hard("refresh", "")   web == Soft("web assets", "")
           meta == Hard("write meta", "") com == Soft("commit", "")
           g == IF dep = "path" THEN << pull >> ELSE << get >>
           f == << fresh >>  w == << web >>  end == << meta, com >>
           b == LoadProjectEnv \o g
           c == b \o f
           pre == c \o w
<1>1. /\ pull \in StepTypes /\ get \in StepTypes /\ fresh \in StepTypes
      /\ web \in StepTypes /\ meta \in StepTypes /\ com \in StepTypes
  BY DEF Hard, Soft, StepTypes, StepNames
<1>2. /\ pull.do = "pull" /\ get.do = "go get" /\ fresh.do = "refresh"
      /\ web.do = "web assets" /\ meta.do = "write meta" /\ com.do = "commit"
      /\ com.on = ""
  BY DEF Hard, Soft
<1> HIDE DEF pull, get, fresh, web, meta, com
<1>3. g \in Seq(StepTypes) /\ Dos(g) \subseteq {"pull", "go get"}
  <2>1. /\ << pull >> \in Seq(StepTypes) /\ Dos(<< pull >>) = {"pull"}
        /\ << get >> \in Seq(StepTypes) /\ Dos(<< get >>) = {"go get"}
    BY <1>1, <1>2, OneStep
  <2> QED  BY <2>1
<1>4. /\ f \in Seq(StepTypes) /\ Dos(f) = {"refresh"}
      /\ w \in Seq(StepTypes) /\ Dos(w) = {"web assets"}
  BY <1>1, <1>2, OneStep
<1>5. /\ end \in Seq(StepTypes) /\ Dos(end) = {"write meta", "commit"}
      /\ Ends(end, "commit") /\ Has(end, "commit", "")
  BY <1>1, <1>2, TwoSteps
<1> HIDE DEF g, f, w, end
<1>6. Paired(g) /\ Paired(f) /\ Paired(w) /\ Paired(end)
  BY <1>3, <1>4, <1>5, NonePaired
<1>7. b \in Seq(StepTypes) /\ Paired(b) /\ Dos(b) = Dos(LoadProjectEnv) \cup Dos(g)
  BY <1>3, <1>6, EnvFacts, CatJoined, PairedCat, DosCat
<1> HIDE DEF b
<1>8. c \in Seq(StepTypes) /\ Paired(c) /\ Dos(c) = Dos(b) \cup Dos(f)
  BY <1>4, <1>6, <1>7, CatJoined, PairedCat, DosCat
<1> HIDE DEF c
<1>9. pre \in Seq(StepTypes) /\ Paired(pre) /\ Dos(pre) = Dos(c) \cup Dos(w)
  BY <1>4, <1>6, <1>8, CatJoined, PairedCat, DosCat
<1>10. Dos(pre) \subseteq {"clone", "checkout", "pull", "go get", "refresh", "web assets"}
  BY <1>3, <1>4, <1>7, <1>8, <1>9, EnvFacts
<1> QED
  BY <1>5, <1>6, <1>9, <1>10
  DEF pre, c, b, g, f, w, end, pull, get, fresh, web, meta, com

LEMMA UpgradeLaid == Upgrade \in Seq(StepTypes) /\ Laid("upgrade", Upgrade)
                     /\ Complete("upgrade", Upgrade) /\ Upgrade # << >>
<1> DEFINE pre == ((LoadProjectEnv \o (IF dep = "path" THEN << Soft("pull", "") >>
                                       ELSE << Hard("go get", "") >>))
                   \o << Hard("refresh", "") >>) \o << Soft("web assets", "") >>
           end == << Hard("write meta", ""), Soft("commit", "") >>
           m == (pre \o ProtoAndWiring) \o FlutterCreateBlocks
           s == Upgrade
<1>1. s = m \o end
  BY DEF Upgrade
<1>2. /\ pre \in Seq(StepTypes) /\ Paired(pre)
      /\ Dos(pre) \subseteq {"clone", "checkout", "pull", "go get", "refresh",
                              "web assets"}
      /\ end \in Seq(StepTypes) /\ Paired(end) /\ Dos(end) = {"write meta", "commit"}
      /\ Ends(end, "commit") /\ Has(end, "commit", "")
  BY UpgradeSteps
<1> HIDE DEF pre, end
<1>3. m = (pre \o ProtoAndWiring) \o FlutterCreateBlocks
  OBVIOUS
<1>b. pre \o ProtoAndWiring \in Seq(StepTypes)
  BY <1>2, WiringFacts, CatJoined
<1>9. /\ Has(m, "create web", "") /\ \A p \in Platforms : Has(m, "create", p)
  BY <1>b, BlocksFacts, HasCat
<1> HIDE DEF m, s
<1>5. /\ Dos(pre) \cap Around = {}
      /\ Dos(FlutterCreateBlocks) \cap (Around \ {"build app", "go build", "build lib"}) = {}
  BY <1>2, BlocksFacts DEF Around, WiringDos
<1>6. /\ m \in Seq(StepTypes) /\ Paired(m) /\ Generates(m) /\ Makes(m)
      /\ PatchesManifest(m)
      /\ Has(m, "materialize", "") /\ Has(m, "patch manifest", "")
      /\ Dos(m) = Dos(pre) \cup WiringDos \cup Dos(FlutterCreateBlocks)
  BY <1>2, <1>3, <1>5, BlocksFacts, AroundWiring
<1>7. Dos(m) \cap {"template", "build app", "commit"} = {}
  BY <1>2, <1>6, BlocksFacts DEF WiringDos
<1>8. /\ s \in Seq(StepTypes) /\ Paired(s) /\ Dos(s) = Dos(m) \cup Dos(end)
      /\ Has(s, "materialize", "") /\ Has(s, "patch manifest", "")
      /\ Has(s, "create web", "") /\ \A p \in Platforms : Has(s, "create", p)
  <2>1. s \in Seq(StepTypes) /\ Paired(s) /\ Dos(s) = Dos(m) \cup Dos(end)
    BY <1>1, <1>2, <1>6, CatJoined, PairedCat, DosCat
  <2>2. /\ Has(s, "materialize", "") /\ Has(s, "patch manifest", "")
        /\ Has(s, "create web", "")
    BY <1>1, <1>2, <1>6, <1>9, HasCat
  <2>3. \A p \in Platforms : Has(s, "create", p)
    BY <1>1, <1>2, <1>6, <1>9, HasCat
  <2> QED  BY <2>1, <2>2, <2>3
<1>10. Generates(s) /\ Makes(s)
  <2>1. Dos(end) \cap {"template", "rm go/pb", "rm lib/pb", "protoc lite",
                       "rm generated", "rm platforms"} = {}
    BY <1>2
  <2> QED  BY <1>1, <1>2, <1>6, <2>1, GeneratesAfter
<1>11. PatchesManifest(s)
  <2>1. Dos(end) \cap {"materialize", "protoc lite", "patch manifest"} = {}
    BY <1>2
  <2> QED  BY <1>1, <1>2, <1>6, <2>1, PatchesAfter
<1>12. Ends(s, "commit")
  <2>1. "commit" \notin Dos(m)
    BY <1>7
  <2> QED  BY <1>1, <1>2, <1>6, <2>1, EndsCat
<1>13. /\ CreatesPlatforms(s) /\ Unused(s, {"build app"})
       /\ \A i \in DOMAIN s : s[i].do # "template"
  <2>1. "template" \notin Dos(s) /\ Dos(s) \cap {"build app"} = {}
    BY <1>2, <1>7, <1>8
  <2> QED  BY <1>8, <2>1, NoTemplate, DosFacts
<1>14. Laid("upgrade", s)
  BY <1>8, <1>10, <1>11, <1>12, <1>13 DEF Laid
<1>15. Complete("upgrade", s)
  BY <1>8, <1>10 DEF Complete, Makes
<1> QED  BY <1>8, <1>14, <1>15, NotEmpty DEF s

\* A step that only a list's first one is stays so.
LEMMA FirstCat ==
  ASSUME NEW s \in Seq(StepTypes), NEW t \in Seq(StepTypes), NEW do,
         \A i \in DOMAIN s : s[i].do = do => i = 1, do \notin Dos(t)
  PROVE  \A i \in DOMAIN (s \o t) : (s \o t)[i].do = do => i = 1
<1> DEFINE u == s \o t
<1>1. Joined(s, t, u)
  BY CatJoined
<1> HIDE DEF u
<1> SUFFICES ASSUME NEW i \in DOMAIN u, u[i].do = do PROVE i = 1
  BY DEF u
<1>2. CASE i \in DOMAIN s
  BY <1>1, <1>2 DEF Joined
<1>3. CASE i \notin DOMAIN s
  <2>1. i - Len(s) \in DOMAIN t /\ i = Len(s) + (i - Len(s))
    BY <1>1, <1>3 DEF Joined
  <2>2. t[i - Len(s)].do = do
    BY <1>1, <2>1 DEF Joined
  <2> QED  BY <2>1, <2>2 DEF Dos
<1> QED  BY <1>2, <1>3

\* More steps after the rest of `godash new`.
LEMMA NewAfter ==
  ASSUME NEW s \in Seq(StepTypes), NEW t \in Seq(StepTypes), Paired(s), Paired(t),
         Generates(s), Makes(s), CreatesPlatforms(s),
         \A i \in DOMAIN s : s[i].do = "template" => i = 1,
         Dos(t) \cap (Around \ {"materialize", "list module"}) = {},
         NEW u, u = s \o t
  PROVE  /\ u \in Seq(StepTypes) /\ Paired(u) /\ Generates(u) /\ Makes(u)
         /\ CreatesPlatforms(u) /\ Dos(u) = Dos(s) \cup Dos(t)
         /\ \A i \in DOMAIN u : u[i].do = "template" => i = 1
         /\ \A do, on : Has(s, do, on) => Has(u, do, on)
<1>1. u \in Seq(StepTypes) /\ Paired(u) /\ Dos(u) = Dos(s) \cup Dos(t)
  BY CatJoined, PairedCat, DosCat
<1>2. Generates(u) /\ Makes(u)
  <2>1. Dos(t) \cap {"template", "rm go/pb", "rm lib/pb", "protoc lite",
                     "rm generated", "rm platforms"} = {}
    BY DEF Around, WiringDos
  <2> QED  BY <2>1, GeneratesAfter
<1>3. "template" \notin Dos(t) /\ Dos(t) \cap {"template"} = {}
  <2>1. "template" \in Around \ {"materialize", "list module"}
    BY DEF Around
  <2> QED  BY <2>1
<1>4. CreatesPlatforms(u)
  <2>1. \A do, on : Followed(t, {"template"}, do, on)
    BY <1>3, DosFacts
  <2> QED  BY <2>1, FollowedCat DEF CreatesPlatforms
<1>5. \A i \in DOMAIN u : u[i].do = "template" => i = 1
  BY <1>3, FirstCat
<1>6. \A do, on : Has(s, do, on) => Has(u, do, on)
  BY HasCat
<1> QED  BY <1>1, <1>2, <1>4, <1>5, <1>6

\* The steps of `godash new` around those of prepare.
LEMMA NewSteps ==
  LET first == << Hard("template", ""), Hard("parameterize", ""), Hard("custom.mk", ""),
                  Hard("git init", "") >>
      meta == << Hard("write meta", ""), Hard("commit", "") >>
      last == << Hard("apply config", ""), Hard("commit", ""), Hard("web assets", ""),
                 Soft("commit", "") >>
      test == << Hard("wasm test", "") >>
  IN  /\ first \in Seq(StepTypes) /\ Has(first, "template", "")
      /\ Dos(first) = {"template", "parameterize", "custom.mk", "git init"}
      /\ \A i \in DOMAIN first : first[i].do = "template" => i = 1
      /\ meta \in Seq(StepTypes) /\ Dos(meta) = {"write meta", "commit"}
      /\ last \in Seq(StepTypes) /\ Dos(last) = {"apply config", "commit", "web assets"}
      /\ Has(last, "commit", "") /\ Followed(last, Owners, "commit", "")
      /\ test \in Seq(StepTypes) /\ Dos(test) = {"wasm test"}
      /\ Paired(first) /\ Paired(meta) /\ Paired(last) /\ Paired(test)
<1> DEFINE a == Hard("template", "")      b == Hard("parameterize", "")
           c == Hard("custom.mk", "")     d == Hard("git init", "")
           e == Hard("write meta", "")    f == Hard("commit", "")
           g == Hard("apply config", "")  h == Hard("web assets", "")
           k == Soft("commit", "")        l == Hard("wasm test", "")
           first == << a, b, c, d >>
           meta == << e, f >>
           last == << g, f, h, k >>
           test == << l >>
<1>1. /\ a \in StepTypes /\ b \in StepTypes /\ c \in StepTypes /\ d \in StepTypes
      /\ e \in StepTypes /\ f \in StepTypes /\ g \in StepTypes /\ h \in StepTypes
      /\ k \in StepTypes /\ l \in StepTypes
  BY DEF Hard, Soft, StepTypes, StepNames
<1>2. /\ a.do = "template" /\ b.do = "parameterize" /\ c.do = "custom.mk"
      /\ d.do = "git init" /\ e.do = "write meta" /\ f.do = "commit"
      /\ g.do = "apply config" /\ h.do = "web assets" /\ k.do = "commit"
      /\ l.do = "wasm test" /\ a.on = "" /\ k.on = ""
  BY DEF Hard, Soft
<1> HIDE DEF a, b, c, d, e, f, g, h, k, l
<1>3. first \in Seq(StepTypes) /\ DOMAIN first = {1, 2, 3, 4}
  BY <1>1
<1>4. last \in Seq(StepTypes) /\ DOMAIN last = {1, 2, 3, 4}
  BY <1>1
<1>5. first[1] = a /\ first[2] = b /\ first[3] = c /\ first[4] = d
  OBVIOUS
<1>6. last[1] = g /\ last[2] = f /\ last[3] = h /\ last[4] = k
  OBVIOUS
<1>7. meta \in Seq(StepTypes) /\ Dos(meta) = {"write meta", "commit"}
  BY <1>1, <1>2, TwoSteps
<1>8. test \in Seq(StepTypes) /\ Dos(test) = {"wasm test"}
  BY <1>1, <1>2, OneStep
<1> HIDE DEF first, meta, last, test
<1>9. /\ Has(first, "template", "")
      /\ Dos(first) = {"template", "parameterize", "custom.mk", "git init"}
      /\ \A i \in DOMAIN first : first[i].do = "template" => i = 1
  <2>1. /\ first[1].do = "template" /\ first[2].do = "parameterize"
        /\ first[3].do = "custom.mk" /\ first[4].do = "git init" /\ first[1].on = ""
    BY <1>2, <1>5
  <2>2. Dos(first) = {"template", "parameterize", "custom.mk", "git init"}
    BY <1>3, <2>1 DEF Dos
  <2>3. Has(first, "template", "")
    BY <1>3, <2>1 DEF Has
  <2>4. \A i \in DOMAIN first : first[i].do = "template" => i = 1
    BY <1>3, <2>1
  <2> QED  BY <2>2, <2>3, <2>4
<1>10. Dos(last) = {"apply config", "commit", "web assets"} /\ Has(last, "commit", "")
  <2>1. /\ last[1].do = "apply config" /\ last[2].do = "commit"
        /\ last[3].do = "web assets" /\ last[4].do = "commit" /\ last[4].on = ""
    BY <1>2, <1>6
  <2>2. Dos(last) = {"apply config", "commit", "web assets"}
    BY <1>4, <2>1 DEF Dos
  <2>3. Has(last, "commit", "")
    BY <1>4, <2>1 DEF Has
  <2> QED  BY <2>2, <2>3
<1>11. Followed(last, Owners, "commit", "")
  <2>1. \A i \in DOMAIN last : last[i].do \in Owners => i = 1 \/ i = 3
    BY <1>2, <1>4, <1>6 DEF Owners
  <2>2. 1 < 4 /\ 3 < 4 /\ 4 \in DOMAIN last
    BY <1>4
  <2> QED  BY <1>2, <1>6, <2>1, <2>2 DEF Followed
<1>12. Paired(first) /\ Paired(meta) /\ Paired(last) /\ Paired(test)
  BY <1>3, <1>4, <1>7, <1>8, <1>9, <1>10, NonePaired
<1> QED
  BY <1>3, <1>4, <1>7, <1>8, <1>9, <1>10, <1>11, <1>12
  DEF first, meta, last, test, a, b, c, d, e, f, g, h, k, l

LEMMA NewLaid == New \in Seq(StepTypes) /\ Laid("new", New) /\ Complete("new", New)
                 /\ New # << >>
<1> DEFINE first == << Hard("template", ""), Hard("parameterize", ""),
                       Hard("custom.mk", ""), Hard("git init", "") >>
           meta == << Hard("write meta", ""), Hard("commit", "") >>
           last == << Hard("apply config", ""), Hard("commit", ""),
                      Hard("web assets", ""), Soft("commit", "") >>
           test == << Hard("wasm test", "") >>
           pre == (first \o LoadProjectEnv) \o meta
           w == pre \o ProtoAndWiring
           f == w \o FlutterCreateBlocks
           l == f \o last
           m == l \o ModuleBootstrap
           s == m \o test
<1>1. New = s
  BY DEF New
<1>2. /\ first \in Seq(StepTypes) /\ Has(first, "template", "")
      /\ Dos(first) = {"template", "parameterize", "custom.mk", "git init"}
      /\ \A i \in DOMAIN first : first[i].do = "template" => i = 1
      /\ meta \in Seq(StepTypes) /\ Dos(meta) = {"write meta", "commit"}
      /\ last \in Seq(StepTypes) /\ Dos(last) = {"apply config", "commit", "web assets"}
      /\ Has(last, "commit", "") /\ Followed(last, Owners, "commit", "")
      /\ test \in Seq(StepTypes) /\ Dos(test) = {"wasm test"}
      /\ Paired(first) /\ Paired(meta) /\ Paired(last) /\ Paired(test)
  BY NewSteps
<1> HIDE DEF first, meta, last, test
<1>3. /\ pre \in Seq(StepTypes) /\ Paired(pre) /\ Has(pre, "template", "")
      /\ Dos(pre) = {"template", "parameterize", "custom.mk", "git init", "clone",
                     "checkout", "write meta", "commit"}
      /\ \A i \in DOMAIN pre : pre[i].do = "template" => i = 1
  <2> DEFINE x == first \o LoadProjectEnv
  <2>1. /\ x \in Seq(StepTypes) /\ Paired(x) /\ Has(x, "template", "")
        /\ Dos(x) = Dos(first) \cup Dos(LoadProjectEnv)
    BY <1>2, EnvFacts, CatJoined, PairedCat, DosCat, HasCat
  <2>2. \A i \in DOMAIN x : x[i].do = "template" => i = 1
    <3>1. "template" \notin Dos(LoadProjectEnv)
      BY EnvFacts
    <3> QED  BY <1>2, <3>1, EnvFacts, FirstCat
  <2> HIDE DEF x
  <2>3. /\ pre \in Seq(StepTypes) /\ Paired(pre) /\ Has(pre, "template", "")
        /\ Dos(pre) = Dos(x) \cup Dos(meta) /\ pre = x \o meta
    BY <1>2, <2>1, CatJoined, PairedCat, DosCat, HasCat DEF x
  <2>4. \A i \in DOMAIN pre : pre[i].do = "template" => i = 1
    <3>1. "template" \notin Dos(meta)
      BY <1>2
    <3> QED  BY <1>2, <2>1, <2>2, <2>3, <3>1, FirstCat
  <2>5. Dos(pre) = {"template", "parameterize", "custom.mk", "git init", "clone",
                    "checkout", "write meta", "commit"}
    BY <1>2, <2>1, <2>3, EnvFacts
  <2> QED  BY <2>3, <2>4, <2>5
<1> HIDE DEF pre
<1>4. /\ w \in Seq(StepTypes) /\ Paired(w) /\ Has(w, "template", "")
      /\ Dos(w) = Dos(pre) \cup WiringDos /\ Generates(w) /\ Makes(w)
      /\ \A i \in DOMAIN w : w[i].do = "template" => i = 1
  <2>1. /\ w \in Seq(StepTypes) /\ Paired(w) /\ Has(w, "template", "")
        /\ Dos(w) = Dos(pre) \cup WiringDos
    BY <1>3, WiringFacts, CatJoined, PairedCat, DosCat, HasCat
  <2>2. Generates(w) /\ Makes(w)
    <3>1. Dos(pre) \cap {"rm generated", "rm platforms"} = {}
      BY <1>3
    <3> QED  BY <1>3, <3>1, WiringFacts, GeneratesBefore
  <2>3. "template" \notin Dos(ProtoAndWiring)
    BY WiringFacts DEF WiringDos
  <2>4. \A i \in DOMAIN w : w[i].do = "template" => i = 1
    BY <1>3, <2>3, WiringFacts, FirstCat
  <2> QED  BY <2>1, <2>2, <2>4
<1> HIDE DEF w
<1>5. /\ f \in Seq(StepTypes) /\ Paired(f) /\ Generates(f) /\ Makes(f)
      /\ CreatesPlatforms(f) /\ Dos(f) = Dos(w) \cup Dos(FlutterCreateBlocks)
      /\ \A i \in DOMAIN f : f[i].do = "template" => i = 1
      /\ Has(f, "template", "") /\ Has(f, "create web", "")
      /\ \A p \in Platforms : Has(f, "create", p)
  <2>1. /\ f \in Seq(StepTypes) /\ Paired(f)
        /\ Dos(f) = Dos(w) \cup Dos(FlutterCreateBlocks)
    BY <1>4, BlocksFacts, CatJoined, PairedCat, DosCat
  <2>2. Generates(f) /\ Makes(f)
    <3>1. Dos(FlutterCreateBlocks)
            \cap {"template", "rm go/pb", "rm lib/pb", "protoc lite", "rm generated",
                  "rm platforms"} = {}
      BY BlocksFacts
    <3> QED  BY <1>4, <3>1, BlocksFacts, GeneratesAfter
  <2>3. /\ "template" \notin Dos(FlutterCreateBlocks)
        /\ Dos(FlutterCreateBlocks) \cap {"template"} = {}
    BY BlocksFacts
  <2>4. CreatesPlatforms(f)
    <3>1. \A do, on : Followed(FlutterCreateBlocks, {"template"}, do, on)
      BY <2>3, BlocksFacts, DosFacts
    <3> QED  BY <1>4, <3>1, BlocksFacts, FollowedCat DEF CreatesPlatforms
  <2>5. Has(f, "template", "") /\ Has(f, "create web", "")
    BY <1>4, BlocksFacts, HasCat
  <2>6. \A p \in Platforms : Has(f, "create", p)
    BY <1>4, BlocksFacts, HasCat
  <2>7. \A i \in DOMAIN f : f[i].do = "template" => i = 1
    BY <1>4, <2>3, BlocksFacts, FirstCat
  <2> QED  BY <2>1, <2>2, <2>4, <2>5, <2>6, <2>7
<1> HIDE DEF f
<1>6. /\ l \in Seq(StepTypes) /\ Paired(l) /\ Generates(l) /\ Makes(l)
      /\ CreatesPlatforms(l) /\ Dos(l) = Dos(f) \cup Dos(last)
      /\ \A i \in DOMAIN l : l[i].do = "template" => i = 1
      /\ \A do, on : Has(f, do, on) => Has(l, do, on)
      /\ Followed(l, Owners, "commit", "") /\ Has(l, "commit", "")
  <2>1. Dos(last) \cap (Around \ {"materialize", "list module"}) = {}
    BY <1>2 DEF Around, WiringDos
  <2>2. Followed(l, Owners, "commit", "") /\ Has(l, "commit", "")
    BY <1>2, <1>5, FollowedCat, HasCat
  <2>3. l = f \o last
    OBVIOUS
  <2> HIDE DEF l
  <2> QED  BY <1>2, <1>5, <2>1, <2>2, <2>3, NewAfter
<1> HIDE DEF l
<1>7. /\ m \in Seq(StepTypes) /\ Paired(m) /\ Generates(m) /\ Makes(m)
      /\ CreatesPlatforms(m) /\ Dos(m) = Dos(l) \cup Dos(ModuleBootstrap)
      /\ \A i \in DOMAIN m : m[i].do = "template" => i = 1
      /\ \A do, on : Has(l, do, on) => Has(m, do, on)
      /\ Followed(m, Owners, "commit", "")
  <2>1. Dos(ModuleBootstrap) \cap (Around \ {"materialize", "list module"}) = {}
    BY BootstrapFacts DEF Around, WiringDos
  <2>2. Dos(ModuleBootstrap) \cap Owners = {}
    BY BootstrapFacts DEF Owners
  <2>3. Followed(m, Owners, "commit", "")
    BY <1>6, <2>2, BootstrapFacts, DosFacts, FollowedCat
  <2>4. m = l \o ModuleBootstrap
    OBVIOUS
  <2> HIDE DEF m
  <2> QED  BY <1>6, <2>1, <2>3, <2>4, BootstrapFacts, NewAfter
<1> HIDE DEF m
<1>8. /\ s \in Seq(StepTypes) /\ Paired(s) /\ Generates(s) /\ Makes(s)
      /\ CreatesPlatforms(s) /\ Dos(s) = Dos(m) \cup Dos(test)
      /\ \A i \in DOMAIN s : s[i].do = "template" => i = 1
      /\ \A do, on : Has(m, do, on) => Has(s, do, on)
      /\ Followed(s, Owners, "commit", "")
  <2>1. Dos(test) \cap (Around \ {"materialize", "list module"}) = {}
    BY <1>2 DEF Around, WiringDos
  <2>2. Dos(test) \cap Owners = {}
    BY <1>2 DEF Owners
  <2>3. Followed(s, Owners, "commit", "")
    BY <1>2, <1>7, <2>2, DosFacts, FollowedCat
  <2>4. s = m \o test
    OBVIOUS
  <2> HIDE DEF s
  <2> QED  BY <1>2, <1>7, <2>1, <2>3, <2>4, NewAfter
<1> HIDE DEF s
<1>9. Dos(s) \cap {"build app"} = {}
  <2>1. Dos(m) \cap {"build app"} = {}
    BY <1>2, <1>3, <1>4, <1>5, <1>6, <1>7, BlocksFacts, BootstrapFacts DEF WiringDos
  <2> QED  BY <1>2, <1>8, <2>1
<1>10. Unused(s, {"build app"})
  BY <1>8, <1>9, DosFacts
<1>11. Laid("new", s)
  BY <1>8, <1>10 DEF Laid
<1>12. \A do, on : Has(f, do, on) \/ Has(l, do, on) => Has(s, do, on)
  BY <1>6, <1>7, <1>8
<1>13. Complete("new", s)
  BY <1>5, <1>6, <1>8, <1>12 DEF Complete, Makes
<1> QED  BY <1>1, <1>8, <1>11, <1>13, NotEmpty DEF Complete

-----------------------------------------------------------------------------
(* What a step does.                                                       *)

\* What a step that succeeds does to the files; the template apart.
Changes(do, on, f) ==
  /\ f \in FileTypes /\ f.protos = fs.protos /\ f.user = fs.user
  /\ f.goStd = IF do \in {"rm go/pb", "rm generated"} THEN Gone
               ELSE IF do = "protoc go" THEN fs.protos ELSE fs.goStd
  /\ f.goLite = IF do \in {"rm go/pb", "rm generated"} THEN Gone
                ELSE IF do = "protoc lite" THEN fs.protos ELSE fs.goLite
  /\ f.dartPb = IF do \in {"rm lib/pb", "rm generated"} THEN Gone
                ELSE IF do = "protoc dart" THEN fs.protos ELSE fs.dartPb
  /\ f.main = IF do = "write main" THEN ScanHotMethods ELSE fs.main
  /\ f.handlers = IF do = "write handlers" THEN ScanHotMethods ELSE fs.handlers
  /\ f.entry = IF do = "write entrypoint" /\ fs.entry = "none" THEN "default" ELSE fs.entry
  /\ f.manifest = IF do = "materialize" /\ dep = "version" THEN Marker
                  ELSE IF do = "patch manifest" /\ fs.manifest = Marker THEN ScanHotMethods
                  ELSE fs.manifest
  /\ f.web = {} => do = "rm platforms" \/ (fs.web = {} /\ do # "create web")
  /\ "half-made" \in f.web => "half-made" \in fs.web
  /\ \A p \in Platforms :
       /\ f.platform[p] = "none" => \/ do = "rm platforms"
                                    \/ fs.platform[p] = "none" /\ ~(do = "create" /\ on = p)
       /\ f.platform[p] = "created" =>
            \/ do = "create" /\ on = p /\ fs.platform[p] = "none"
            \/ fs.platform[p] = "created" /\ ~(do = "patch" /\ on = p /\ cmd.block)
       /\ f.platform[p] = "half-made" => fs.platform[p] = "half-made"
       /\ f.archive[p] = IF do = "rm generated" THEN Gone
                         ELSE IF do = "go build" /\ on = p THEN fs.main ELSE fs.archive[p]
       /\ f.lib[p] = IF do = "rm generated" THEN Gone
                     ELSE IF do = "build lib" /\ on = p THEN fs.archive[p] ELSE fs.lib[p]
       /\ f.app[p] = IF do = "build app" /\ on = p
                     THEN [client |-> fs.dartPb, run |-> commands,
                           symbols |-> IF p \in AppleOnes
                                       THEN IF fs.manifest \in {Gone, Marker} THEN {}
                                            ELSE fs.lib[p] \cap fs.manifest
                                       ELSE fs.lib[p]]
                     ELSE fs.app[p]
  /\ do \notin Owners => Own(f) = Own(fs)

Passed(c) ==
  c.rest = Tail(cmd.rest) /\ c.status = IF Len(cmd.rest) = 1 THEN "done" ELSE "running"

Advanced(c) ==
  /\ c \in CommandTypes /\ c.name = cmd.name /\ c.user = cmd.user
  /\ c.protos = cmd.protos /\ Passed(c)

\* A step that succeeds, the template apart.
Stepped ==
  LET do == Head(cmd.rest).do
  IN  /\ cmd.status = "running" /\ do # "template"
      /\ Advanced(cmd') /\ cmd'.sound = cmd.sound
      /\ Changes(do, On, fs')
      /\ IF do = "commit" THEN fs' = fs /\ head' = Tracked(fs) ELSE head' = head
      /\ do = "create" /\ fs.platform[On] = "none" => cmd'.block
      /\ checkout' \in {"none", "cloned", "at ref"}
      /\ checkout' = "cloned" => \/ do = "clone" /\ cmd'.block
                                 \/ checkout = "cloned" /\ ~(do = "checkout" /\ cmd.block)
      /\ UNCHANGED << dep, dir, edits, commands, accidents >>

LEMMA AdvanceFacts ==
  ASSUME TypeOK, cmd.status = "running"
  PROVE  /\ Advanced(Advance(cmd)) /\ Advance(cmd).sound = cmd.sound
         /\ \A b \in BOOLEAN :
              /\ Advanced([Advance(cmd) EXCEPT !.block = b])
              /\ [Advance(cmd) EXCEPT !.block = b].block = b
              /\ [Advance(cmd) EXCEPT !.block = b].sound = cmd.sound
              /\ Advanced([Advance(cmd) EXCEPT !.moduleDir = b])
              /\ [Advance(cmd) EXCEPT !.moduleDir = b].sound = cmd.sound
         /\ Advanced([Advance(cmd) EXCEPT !.sound = FALSE, !.block = FALSE])
         /\ [Advance(cmd) EXCEPT !.sound = FALSE, !.block = FALSE].sound = FALSE
<1> DEFINE c == Advance(cmd)
<1>1. cmd \in CommandTypes /\ Tail(cmd.rest) \in Seq(StepTypes)
  <2>1. cmd \in CommandTypes /\ cmd.rest # << >>
    BY DEF TypeOK
  <2>2. cmd.rest \in Seq(StepTypes)
    BY <2>1 DEF CommandTypes
  <2> QED  BY <2>1, <2>2, TailFacts
<1>2. Len(cmd.rest) = 1 \/ Len(cmd.rest) # 1
  OBVIOUS
<1>3. Advanced(c) /\ c.sound = cmd.sound
  BY <1>1, <1>2 DEF Advance, Advanced, Passed, CommandTypes
<1> HIDE DEF c
<1>4. ASSUME NEW b \in BOOLEAN
      PROVE  /\ Advanced([c EXCEPT !.block = b]) /\ [c EXCEPT !.block = b].block = b
             /\ [c EXCEPT !.block = b].sound = cmd.sound
             /\ Advanced([c EXCEPT !.moduleDir = b])
             /\ [c EXCEPT !.moduleDir = b].sound = cmd.sound
  BY <1>3 DEF Advanced, Passed, CommandTypes
<1>5. /\ Advanced([c EXCEPT !.sound = FALSE, !.block = FALSE])
      /\ [c EXCEPT !.sound = FALSE, !.block = FALSE].sound = FALSE
  BY <1>3 DEF Advanced, Passed, CommandTypes
<1> QED  BY <1>3, <1>4, <1>5 DEF c

\* What code is written.
LEMMA CodeFacts ==
  ASSUME TypeOK
  PROVE  /\ ProtoSets \subseteq Code /\ Gone \in Code /\ Marker \in Code /\ {} \in Code
         /\ ScanHotMethods \in Code /\ fs \in FileTypes /\ fs.protos \in Code
         /\ Gone \notin ProtoSets /\ Marker \notin ProtoSets /\ Gone # Marker
         /\ cmd.protos \in ProtoSets
<1>1. fs \in FileTypes /\ cmd \in CommandTypes
  BY DEF TypeOK
<1>2. ProtoSets \subseteq Code /\ Gone \in Code /\ Marker \in Code /\ {} \in Code
  <2>1. {} \in Code
    BY DEF Code
  <2>2. \A x \in Protos : x \subseteq UNION Protos
    OBVIOUS
  <2>3. \A x \in Protos : x \in Code
    BY <2>2 DEF Code
  <2>4. Gone \in Code /\ Marker \in Code
    <3>1. /\ Gone \subseteq (UNION Protos) \cup Gone \cup Marker
          /\ Marker \subseteq (UNION Protos) \cup Gone \cup Marker
      OBVIOUS
    <3> QED  BY <3>1 DEF Code
  <2>5. ProtoSets \subseteq Code
    BY <2>1, <2>3 DEF ProtoSets
  <2> QED  BY <2>1, <2>4, <2>5
<1>3. fs.goLite \in Code /\ fs.protos \in ProtoSets /\ cmd.protos \in ProtoSets
  BY <1>1 DEF FileTypes, CommandTypes
<1>4. Gone \notin ProtoSets /\ Marker \notin ProtoSets /\ Gone # Marker
  BY ProjectAssumption DEF ProtoSets, Gone, Marker
<1> QED  BY <1>1, <1>2, <1>3, <1>4 DEF ScanHotMethods

\* A step that only changes files.
LEMMA FilesStep ==
  ASSUME TypeOK, NEW do, NEW f, Files(do, f), Changes(do, On, f),
         do \notin {"template", "commit", "clone", "checkout", "create"}
  PROVE  Stepped
<1>1. cmd.status = "running" /\ Head(cmd.rest).do = do /\ fs' = f /\ cmd' = Advance(cmd)
  BY DEF Files, Running
<1>2. Advanced(cmd') /\ cmd'.sound = cmd.sound
  BY <1>1, AdvanceFacts
<1>3. checkout' = checkout /\ checkout \in {"none", "cloned", "at ref"}
  BY DEF Files, TypeOK
<1>4. head' = head /\ UNCHANGED << dep, dir, edits, commands, accidents >>
  BY DEF Files
<1> QED  BY <1>1, <1>2, <1>3, <1>4 DEF Stepped

\* Steps that change no file of the model, and those that change what is
\* committed besides the developer's files.
LEMMA OtherSteps ==
  ASSUME TypeOK,
         \/ Wasm \/ BuildWeb \/ Parameterize \/ SetupCustomMk \/ GitInit
         \/ PullGodashRepo \/ Refresh \/ FlutterClean \/ PrepareWasmTest
         \/ WebAssets \/ StampWorker \/ CreateWeb \/ GoGet \/ WriteMeta
         \/ ApplyConfig \/ RmPlatforms \/ Patch
  PROVE  Stepped
<1> USE CodeFacts
<1>1. ASSUME NEW do \in {"wasm", "build web", "parameterize", "custom.mk", "git init", "pull",
                        "refresh", "flutter clean", "wasm test"}, Files(do, fs)
      PROVE  Stepped
  <2>1. Changes(do, On, fs)
    BY DEF Changes
  <2> QED  BY <1>1, <2>1, FilesStep
<1>2. Wasm \/ BuildWeb \/ Parameterize \/ SetupCustomMk \/ GitInit \/ PullGodashRepo
      \/ Refresh \/ FlutterClean \/ PrepareWasmTest => Stepped
  BY <1>1 DEF Wasm, BuildWeb, Parameterize, SetupCustomMk, GitInit, PullGodashRepo, Refresh,
              FlutterClean, PrepareWasmTest
<1>3. CASE WebAssets
  <2> DEFINE f == [fs EXCEPT !.web = @ \cup {"assets"}, !.worker = "asset"]
  <2>1. Changes("web assets", On, f)
    BY DEF Changes, FileTypes, WebParts, Workers, Owners
  <2>2. Files("web assets", f)
    BY <1>3 DEF WebAssets
  <2> HIDE DEF f
  <2> QED  BY <2>1, <2>2, FilesStep
<1>4. CASE StampWorker
  <2>1. Changes("stamp worker", On, [fs EXCEPT !.worker = "stamped"])
    BY DEF Changes, FileTypes, Workers, Owners
  <2> QED  BY <1>4, <2>1, FilesStep DEF StampWorker
<1>5. CASE CreateWeb
  <2>1. Changes("create web", On, [fs EXCEPT !.web = IF @ = {} THEN {"flutter"} ELSE @])
    BY DEF Changes, FileTypes, WebParts, Owners
  <2> QED  BY <1>5, <2>1, FilesStep DEF CreateWeb
<1>6. CASE GoGet
  <2>1. PICK v \in {fs.goMod, 1} : Files("go get", [fs EXCEPT !.goMod = v])
    BY <1>6 DEF GoGet
  <2>2. Changes("go get", On, [fs EXCEPT !.goMod = v])
    BY DEF Changes, FileTypes, Owners
  <2> QED  BY <2>1, <2>2, FilesStep
<1>7. CASE WriteMeta
  <2>1. Changes("write meta", On, [fs EXCEPT !.meta = fs.goMod])
    BY DEF Changes, FileTypes, Owners
  <2> QED  BY <1>7, <2>1, FilesStep DEF WriteMeta
<1>8. CASE ApplyConfig
  <2> DEFINE g == [p \in Platforms |-> IF fs.platform[p] = "patched" THEN "configured"
                                      ELSE fs.platform[p]]
  <2>1. g \in Stages /\ \A p \in Platforms : g[p] = IF fs.platform[p] = "patched"
                                                   THEN "configured" ELSE fs.platform[p]
    BY DEF FileTypes, Stages
  <2> HIDE DEF g
  <2>2. Changes("apply config", On, [fs EXCEPT !.platform = g])
    BY <2>1 DEF Changes, FileTypes, Owners
  <2> QED  BY <1>8, <2>2, FilesStep DEF ApplyConfig, g
<1>9. CASE RmPlatforms
  <2> DEFINE g == [p \in Platforms |-> "none"]
  <2>1. g \in Stages /\ \A p \in Platforms : g[p] = "none"
    BY DEF Stages
  <2> HIDE DEF g
  <2> DEFINE f == [fs EXCEPT !.web = {}, !.worker = "none", !.platform = g]
  <2>2. Changes("rm platforms", On, f)
    BY <2>1 DEF Changes, FileTypes, Workers, Owners
  <2>3. Files("rm platforms", f)
    BY <1>9 DEF RmPlatforms, g
  <2> HIDE DEF f
  <2> QED  BY <2>2, <2>3, FilesStep
<1>10. CASE Patch
  <2> DEFINE g == [fs.platform EXCEPT ![On] = IF cmd.block /\ @ = "created" THEN "patched"
                                              ELSE @]
  <2>1. g \in Stages /\ \A p \in Platforms :
          g[p] = IF p = On /\ cmd.block /\ fs.platform[p] = "created" THEN "patched"
                 ELSE fs.platform[p]
    BY DEF FileTypes, Stages
  <2>2. [fs EXCEPT !.platform[On] = IF cmd.block /\ @ = "created" THEN "patched" ELSE @]
        = [fs EXCEPT !.platform = g]
    BY DEF FileTypes
  <2> HIDE DEF g
  <2>3. Changes("patch", On, [fs EXCEPT !.platform = g])
    BY <2>1 DEF Changes, FileTypes, Owners
  <2> QED  BY <1>10, <2>2, <2>3, FilesStep DEF Patch
<1> QED  BY <1>2, <1>3, <1>4, <1>5, <1>6, <1>7, <1>8, <1>9, <1>10

\* Steps that make, take away or read generated code.
LEMMA CodeSteps ==
  ASSUME TypeOK,
         \/ Materialize \/ RmGoPb \/ ProtocGo \/ ProtocLite \/ RmDartPb \/ ProtocDart
         \/ WriteMain \/ WriteHandlers \/ WriteEntrypoint \/ PatchManifest
         \/ GoBuild \/ BuildLib \/ BuildApp \/ RmGenerated
  PROVE  Stepped
<1> USE CodeFacts
<1>1. CASE Materialize
  <2>1. Changes("materialize", On,
                [fs EXCEPT !.manifest = IF dep = "version" THEN Marker ELSE @])
    BY DEF Changes, FileTypes, Own
  <2> QED  BY <1>1, <2>1, FilesStep DEF Materialize
<1>2. CASE RmGoPb
  <2> DEFINE f == [fs EXCEPT !.goStd = Gone, !.goLite = Gone]
  <2>1. Changes("rm go/pb", On, f)
    BY DEF Changes, FileTypes, Own
  <2>2. Files("rm go/pb", f)
    BY <1>2 DEF RmGoPb
  <2> HIDE DEF f
  <2> QED  BY <2>1, <2>2, FilesStep
<1>3. CASE ProtocGo
  <2>1. Changes("protoc go", On, [fs EXCEPT !.goStd = fs.protos])
    BY DEF Changes, FileTypes, Own
  <2> QED  BY <1>3, <2>1, FilesStep DEF ProtocGo
<1>4. CASE ProtocLite
  <2>1. Changes("protoc lite", On, [fs EXCEPT !.goLite = fs.protos])
    BY DEF Changes, FileTypes, Own
  <2> QED  BY <1>4, <2>1, FilesStep DEF ProtocLite
<1>5. CASE RmDartPb
  <2>1. Changes("rm lib/pb", On, [fs EXCEPT !.dartPb = Gone])
    BY DEF Changes, FileTypes, Own
  <2> QED  BY <1>5, <2>1, FilesStep DEF RmDartPb
<1>6. CASE ProtocDart
  <2>1. Changes("protoc dart", On, [fs EXCEPT !.dartPb = fs.protos])
    BY DEF Changes, FileTypes, Own
  <2> QED  BY <1>6, <2>1, FilesStep DEF ProtocDart
<1>7. CASE WriteMain
  <2>1. Changes("write main", On, [fs EXCEPT !.main = ScanHotMethods])
    BY DEF Changes, FileTypes, Own
  <2> QED  BY <1>7, <2>1, FilesStep DEF WriteMain
<1>8. CASE WriteHandlers
  <2>1. Changes("write handlers", On, [fs EXCEPT !.handlers = ScanHotMethods])
    BY DEF Changes, FileTypes, Own
  <2> QED  BY <1>8, <2>1, FilesStep DEF WriteHandlers
<1>9. CASE WriteEntrypoint
  <2>1. Changes("write entrypoint", On,
                [fs EXCEPT !.entry = IF @ = "none" THEN "default" ELSE @])
    BY DEF Changes, FileTypes, Entries, Own
  <2> QED  BY <1>9, <2>1, FilesStep DEF WriteEntrypoint
<1>10. CASE PatchManifest
  <2>1. Changes("patch manifest", On,
                [fs EXCEPT !.manifest = IF @ = Marker THEN ScanHotMethods ELSE @])
    BY DEF Changes, FileTypes, Own
  <2> QED  BY <1>10, <2>1, FilesStep DEF PatchManifest
<1>11. CASE BuildLib
  <2> DEFINE g == [fs.lib EXCEPT ![On] = fs.archive[On]]
             f == [fs EXCEPT !.lib = g]
  <2>1. g \in [Platforms -> Code]
        /\ \A p \in Platforms : g[p] = IF p = On THEN fs.archive[p] ELSE fs.lib[p]
    BY DEF FileTypes
  <2>2. f = [fs EXCEPT !.lib[On] = fs.archive[On]]
    BY DEF FileTypes
  <2> HIDE DEF g
  <2>3. Changes("build lib", On, f)
    BY <2>1 DEF Changes, FileTypes, Own
  <2>4. Files("build lib", f)
    BY <1>11, <2>2 DEF BuildLib
  <2> HIDE DEF f
  <2> QED  BY <2>3, <2>4, FilesStep
<1>12. CASE BuildApp
  <2> DEFINE v == [client |-> fs.dartPb, run |-> commands,
                   symbols |-> IF On \in AppleOnes
                               THEN IF fs.manifest \in {Gone, Marker} THEN {}
                                    ELSE fs.lib[On] \cap fs.manifest
                               ELSE fs.lib[On]]
             g == [fs.app EXCEPT ![On] = v]
             f == [fs EXCEPT !.app = g]
  <2>1. On \in Platforms => v \in [client : Code, symbols : Code, run : Nat]
    <3> SUFFICES ASSUME On \in Platforms
                 PROVE  v \in [client : Code, symbols : Code, run : Nat]
      OBVIOUS
    <3>1. fs.lib[On] \in Code /\ fs.dartPb \in Code /\ commands \in Nat
      BY DEF FileTypes, TypeOK
    <3>2. fs.lib[On] \cap fs.manifest \in Code
      BY <3>1 DEF Code
    <3> QED  BY <3>1, <3>2
  <2>2. \A p \in Platforms : p = On => v.symbols = IF p \in AppleOnes
                               THEN IF fs.manifest \in {Gone, Marker} THEN {}
                                    ELSE fs.lib[p] \cap fs.manifest
                               ELSE fs.lib[p]
    OBVIOUS
  <2>3. f = [fs EXCEPT !.app[On] =
       [client |-> fs.dartPb,
        run |-> commands,
        symbols |-> IF On \in AppleOnes
                    THEN IF fs.manifest \in {Gone, Marker} THEN {}
                         ELSE fs.lib[On] \cap fs.manifest
                    ELSE fs.lib[On]]]
    BY DEF FileTypes
  <2>4. v.client = fs.dartPb /\ v.run = commands
    OBVIOUS
  <2> HIDE DEF v
  <2>5. g \in [Platforms -> [client : Code, symbols : Code, run : Nat]]
        /\ \A p \in Platforms : g[p] = IF p = On THEN v ELSE fs.app[p]
    BY <2>1 DEF FileTypes
  <2> HIDE DEF g
  <2>6. Changes("build app", On, f)
    <3>1. /\ f \in FileTypes /\ f.protos = fs.protos /\ f.user = fs.user
          /\ f.goStd = fs.goStd /\ f.goLite = fs.goLite /\ f.dartPb = fs.dartPb
          /\ f.main = fs.main /\ f.handlers = fs.handlers /\ f.entry = fs.entry
          /\ f.manifest = fs.manifest /\ f.web = fs.web /\ f.platform = fs.platform
          /\ f.archive = fs.archive /\ f.lib = fs.lib /\ f.app = g /\ Own(f) = Own(fs)
      BY <2>5 DEF FileTypes, Own
    <3>2. \A p \in Platforms :
            f.app[p] = IF On = p
                       THEN [client |-> fs.dartPb, run |-> commands,
                             symbols |-> IF p \in AppleOnes
                                         THEN IF fs.manifest \in {Gone, Marker} THEN {}
                                              ELSE fs.lib[p] \cap fs.manifest
                                         ELSE fs.lib[p]]
                       ELSE fs.app[p]
      BY <2>5, <3>1 DEF v
    <3> HIDE DEF f
    <3> QED  BY <3>1, <3>2 DEF Changes
  <2>7. Files("build app", f)
    BY <1>12, <2>3 DEF BuildApp
  <2> HIDE DEF f
  <2> QED  BY <2>6, <2>7, FilesStep
<1>13. CASE RmGenerated
  <2> DEFINE g == [p \in Platforms |-> Gone]
             f == [fs EXCEPT !.goStd = Gone, !.goLite = Gone, !.dartPb = Gone,
                             !.archive = g, !.lib = g]
  <2>1. g \in [Platforms -> Code] /\ \A p \in Platforms : g[p] = Gone
    OBVIOUS
  <2> HIDE DEF g
  <2>2. Changes("rm generated", On, f)
    BY <2>1 DEF Changes, FileTypes, Own
  <2>3. Files("rm generated", f)
    BY <1>13 DEF RmGenerated, g
  <2> HIDE DEF f
  <2> QED  BY <2>2, <2>3, FilesStep
<1>14. CASE GoBuild
  <2> DEFINE g == [fs.archive EXCEPT ![On] = fs.main]
             f == [fs EXCEPT !.archive = g]
  <2>1. g \in [Platforms -> Code]
        /\ \A p \in Platforms : g[p] = IF p = On THEN fs.main ELSE fs.archive[p]
    BY DEF FileTypes
  <2>2. f = [fs EXCEPT !.archive[On] = fs.main]
    BY DEF FileTypes
  <2> HIDE DEF g
  <2>3. Changes("go build", On, f)
    BY <2>1 DEF Changes, FileTypes, Own
  <2>4. Files("go build", f)
    BY <1>14, <2>2 DEF GoBuild
  <2> HIDE DEF f
  <2> QED  BY <2>3, <2>4, FilesStep
<1> QED
  BY <1>1, <1>2, <1>3, <1>4, <1>5, <1>6, <1>7, <1>8, <1>9, <1>10, <1>11, <1>12, <1>13,
     <1>14

\* The checkout, the module, the platforms and the commits.
LEMMA PlainSteps ==
  ASSUME TypeOK, Clone \/ Checkout \/ ListModule \/ Create \/ Commit \/ CommitNothing
  PROVE  Stepped
<1> USE CodeFacts
<1>1. /\ Changes("clone", On, fs) /\ Changes("checkout", On, fs)
      /\ Changes("list module", On, fs) /\ Changes("commit", On, fs)
  <2>1. Changes("clone", On, fs)
    BY DEF Changes
  <2>2. Changes("checkout", On, fs)
    BY DEF Changes
  <2>3. Changes("list module", On, fs)
    BY DEF Changes
  <2>4. Changes("commit", On, fs)
    BY DEF Changes
  <2> QED  BY <2>1, <2>2, <2>3, <2>4
<1>2. checkout \in {"none", "cloned", "at ref"}
  BY DEF TypeOK
<1>3. CASE Clone
  <2>1. cmd.status = "running" /\ Head(cmd.rest).do = "clone" /\ head' = head
        /\ fs' = fs /\ UNCHANGED << dep, dir, edits, commands, accidents >>
    BY <1>3 DEF Clone, Running
  <2>2. /\ Advanced(cmd') /\ cmd'.sound = cmd.sound
        /\ checkout' \in {"none", "cloned", "at ref"}
        /\ checkout' = "cloned" => cmd'.block \/ checkout = "cloned"
    BY <1>2, <1>3, <2>1, AdvanceFacts DEF Clone
  <2> QED  BY <1>1, <2>1, <2>2 DEF Stepped
<1>4. CASE Checkout
  <2>1. cmd.status = "running" /\ Head(cmd.rest).do = "checkout" /\ head' = head
        /\ fs' = fs /\ UNCHANGED << dep, dir, edits, commands, accidents >>
    BY <1>4 DEF Checkout, Running
  <2>2. /\ Advanced(cmd') /\ cmd'.sound = cmd.sound
        /\ checkout' \in {"none", "cloned", "at ref"}
        /\ checkout' = "cloned" => checkout = "cloned" /\ ~cmd.block
    BY <1>2, <1>4, <2>1, AdvanceFacts DEF Checkout
  <2> QED  BY <1>1, <2>1, <2>2 DEF Stepped
<1>5. CASE ListModule
  <2>1. cmd.status = "running" /\ Head(cmd.rest).do = "list module" /\ head' = head
        /\ fs' = fs /\ checkout' = checkout
        /\ UNCHANGED << dep, dir, edits, commands, accidents >>
    BY <1>5 DEF ListModule, Running
  <2>2. Advanced(cmd') /\ cmd'.sound = cmd.sound
    BY <1>5, <2>1, AdvanceFacts DEF ListModule
  <2> QED  BY <1>1, <1>2, <2>1, <2>2 DEF Stepped
<1>6. CASE Create
  <2> DEFINE missing == fs.platform[On] = "none"
             g == [fs.platform EXCEPT ![On] = "created"]
             f == IF missing THEN [fs EXCEPT !.platform = g] ELSE fs
  <2>1. cmd.status = "running" /\ Head(cmd.rest).do = "create" /\ head' = head
        /\ checkout' = checkout /\ UNCHANGED << dep, dir, edits, commands, accidents >>
    BY <1>6 DEF Create, Running
  <2>2. Advanced(cmd') /\ cmd'.sound = cmd.sound /\ (missing => cmd'.block)
    <3>1. missing \in BOOLEAN /\ cmd' = [Advance(cmd) EXCEPT !.block = missing]
      BY <1>6 DEF Create
    <3> HIDE DEF missing
    <3> QED  BY <2>1, <3>1, AdvanceFacts
  <2>3. g \in Stages /\ \A p \in Platforms : g[p] = IF p = On THEN "created"
                                                  ELSE fs.platform[p]
    BY DEF FileTypes, Stages
  <2>4. fs' = f
    BY <1>6 DEF Create, FileTypes
  <2> HIDE DEF g
  <2>5. Changes("create", On, f)
    <3>1. CASE missing
      BY <2>3, <3>1 DEF Changes, FileTypes, Owners
    <3>2. CASE ~missing
      BY <3>2 DEF Changes
    <3> QED  BY <3>1, <3>2
  <2> HIDE DEF f
  <2> QED  BY <1>2, <2>1, <2>2, <2>4, <2>5 DEF Stepped
<1>7. CASE Commit \/ CommitNothing
  <2>1. cmd.status = "running" /\ Head(cmd.rest).do = "commit" /\ head' = Tracked(fs)
        /\ fs' = fs /\ checkout' = checkout /\ cmd' = Advance(cmd)
        /\ UNCHANGED << dep, dir, edits, commands, accidents >>
    BY <1>7 DEF Commit, CommitNothing, Running, Dirty
  <2>2. Advanced(cmd') /\ cmd'.sound = cmd.sound
    BY <2>1, AdvanceFacts
  <2> QED  BY <1>1, <1>2, <2>1, <2>2 DEF Stepped
<1> QED  BY <1>3, <1>4, <1>5, <1>6, <1>7

-----------------------------------------------------------------------------
(* What a step that succeeds preserves.                                    *)

LEMMA FileFacts ==
  /\ NoFiles \in FileTypes /\ {} \in ProtoSets
  /\ \A f \in FileTypes : /\ Tracked(f) \in CommitTypes
                          /\ Tracked(f).user = f.user /\ Own(Tracked(f)) = Own(f)
<1>1. Gone \in Code
  <2>1. Gone \subseteq (UNION Protos) \cup Gone \cup Marker
    OBVIOUS
  <2> QED  BY <2>1 DEF Code
<1>2. {} \in ProtoSets
  BY DEF ProtoSets
<1>3. NoFiles \in FileTypes
  <2>1. /\ [p \in Platforms |-> "none"] \in Stages
        /\ [p \in Platforms |-> Gone] \in [Platforms -> Code]
    BY <1>1 DEF Stages
  <2>2. [p \in Platforms |-> NoApp] \in [Platforms -> [client : Code, symbols : Code, run : Nat]]
    BY <1>1 DEF NoApp
  <2> QED  BY <1>1, <1>2, <2>1, <2>2 DEF NoFiles, FileTypes, Entries, Workers
<1>4. \A f \in FileTypes : /\ Tracked(f) \in CommitTypes
                           /\ Tracked(f).user = f.user /\ Own(Tracked(f)) = Own(f)
  BY DEF FileTypes, CommitTypes, Tracked, Own
<1> QED  BY <1>2, <1>3, <1>4

\* The steps to come after one that is done, or passed over.
LEMMA Progress ==
  ASSUME TypeOK, Underway, cmd.status = "running", Passed(cmd')
  PROVE  LET s == cmd.rest  r == cmd'.rest
         IN  /\ s \in Seq(StepTypes) /\ s # << >> /\ r \in Seq(StepTypes) /\ r = Tail(s)
             /\ \A d, o : Has(s, d, o) <=> (Head(s).do = d /\ On = o) \/ Has(r, d, o)
             /\ Laid(cmd.name, s) /\ Laid(cmd.name, r)
             /\ cmd'.status = IF r = << >> THEN "done" ELSE "running"
             /\ r # << >> => /\ Head(r).do # "template" /\ Head(r) = s[2]
                             /\ 1 \in DOMAIN s /\ Head(s) = s[1]
<1> DEFINE s == cmd.rest  r == cmd'.rest
<1>1. s \in Seq(StepTypes) /\ s # << >> /\ Laid(cmd.name, s)
  BY DEF TypeOK, CommandTypes, Underway, Idle
<1>2. r = Tail(s) /\ cmd'.status = IF Len(s) = 1 THEN "done" ELSE "running"
  BY DEF Passed
<1>3. On = Head(s).on
  BY DEF On
<1> HIDE DEF s, r
<1>4. r \in Seq(StepTypes) /\ Laid(cmd.name, r)
  BY <1>1, <1>2, TailFacts, LaidTail
<1>5. \A d, o : Has(s, d, o) <=> (Head(s).do = d /\ On = o) \/ Has(r, d, o)
  BY <1>1, <1>2, <1>3, HasTail
<1>6. r = << >> <=> Len(s) = 1
  <2>1. Len(s) \in Nat /\ Len(r) = Len(s) - 1
    BY <1>1, <1>2, TailFacts
  <2>2. r = << >> <=> Len(r) = 0
    BY <1>4
  <2> QED  BY <2>1, <2>2
<1>7. r # << >> => /\ Head(r).do # "template" /\ Head(r) = s[2]
                   /\ 1 \in DOMAIN s /\ Head(s) = s[1]
  <2> SUFFICES ASSUME r # << >> PROVE /\ Head(r).do # "template" /\ Head(r) = s[2]
                                      /\ 1 \in DOMAIN s /\ Head(s) = s[1]
    OBVIOUS
  <2>1. /\ Len(s) \in Nat \ {0} /\ DOMAIN s = 1 .. Len(s) /\ Head(s) = s[1]
        /\ Len(r) = Len(s) - 1 /\ \A i \in 1 .. Len(s) - 1 : r[i] = s[i + 1]
    BY <1>1, <1>2, TailFacts
  <2>2. Head(r) = r[1] /\ Len(r) \in Nat \ {0}
    BY <1>4, TailFacts
  <2>3. Head(r) = s[2] /\ 1 \in DOMAIN s /\ 2 \in DOMAIN s
    BY <2>1, <2>2
  <2>4. s[2].do # "template"
    <3>1. \A i \in DOMAIN s : s[i].do = "template" => i = 1
      BY <1>1 DEF Laid
    <3> QED  BY <2>3, <3>1
  <2> QED  BY <2>1, <2>3, <2>4
<1> QED  BY <1>1, <1>2, <1>4, <1>5, <1>6, <1>7 DEF s, r

\* Nothing of A is left when what has to follow it is not.
LEMMA NoneLeft ==
  ASSUME NEW s \in Seq(StepTypes), NEW A, NEW do, NEW on, Followed(s, A, do, on),
         ~Has(s, do, on)
  PROVE  \A o : \A a \in A : ~Has(s, a, o)
BY DEF Followed, Has

LEMMA StepTypeOK ==
  ASSUME TypeOK, Underway, Stepped
  PROVE  TypeOK'
<1>1. /\ cmd.status = "running" /\ Advanced(cmd') /\ fs' \in FileTypes
      /\ checkout' \in {"none", "cloned", "at ref"} /\ head' \in {head, Tracked(fs)}
      /\ UNCHANGED << dep, dir, edits, commands, accidents >>
  BY DEF Stepped, Changes
<1>2. cmd' \in CommandTypes /\ (cmd'.status = "running" => cmd'.rest # << >>)
  BY <1>1, Progress DEF Advanced
<1>3. head' \in CommitTypes
  BY <1>1, FileFacts DEF TypeOK
<1> QED  BY <1>1, <1>2, <1>3 DEF TypeOK

LEMMA StepUnderway ==
  ASSUME TypeOK, Underway, Stepped
  PROVE  Underway'
<1> DEFINE r == cmd'.rest
<1>1. /\ cmd.status = "running" /\ Advanced(cmd') /\ dir' = dir /\ fs'.protos = fs.protos
      /\ fs'.entry = "custom" => fs.entry = "custom"
  BY DEF Stepped, Changes
<1>2. /\ Laid(cmd.name, r) /\ cmd'.name = cmd.name /\ cmd'.protos = cmd.protos
      /\ cmd'.status = IF r = << >> THEN "done" ELSE "running"
      /\ r # << >> => Head(r).do # "template"
  BY <1>1, Progress DEF Advanced
<1>3. fs.protos = cmd.protos /\ (dir # "project" => fs.entry # "custom")
  BY <1>1 DEF Underway, Idle
<1>4. Idle' => r = << >>
  BY <1>2 DEF Idle
<1>5. ~Idle' => ~Running("template")'
  BY <1>2, <1>4 DEF Running, Idle
<1> QED  BY <1>1, <1>2, <1>3, <1>4, <1>5 DEF Underway

\* The generated code: what a step takes away, one to come makes again, and
\* main.go and the handlers are written when no protoc is left.
LEMMA StepGenerated ==
  ASSUME TypeOK, Underway, Generated, Stepped
  PROVE  Generated'
<1> DEFINE s == cmd.rest  r == cmd'.rest  do == Head(cmd.rest).do
<1> SUFFICES ASSUME cmd'.sound, cmd'.name \in Full
             PROVE  /\ ~Has(r, "protoc go", "") => fs'.goStd = cmd'.protos
                    /\ ~Has(r, "protoc lite", "") => fs'.goLite = cmd'.protos
                    /\ ~Has(r, "protoc dart", "") => fs'.dartPb = cmd'.protos
                    /\ ~Has(r, "write main", "") => fs'.main = cmd'.protos
                    /\ ~Has(r, "write handlers", "") => fs'.handlers = cmd'.protos
                    /\ ~Has(r, "write entrypoint", "") => fs'.entry # "none"
  BY DEF Generated, Ahead
<1>1. /\ cmd.status = "running" /\ Advanced(cmd') /\ cmd.sound /\ cmd.name \in Full
      /\ cmd'.protos = cmd.protos /\ Changes(do, On, fs')
  BY DEF Stepped, Advanced
<1>2. /\ s \in Seq(StepTypes) /\ s # << >> /\ r \in Seq(StepTypes) /\ r = Tail(s)
      /\ \A d, o : Has(s, d, o) <=> (do = d /\ On = o) \/ Has(r, d, o)
      /\ Generates(s) /\ Generates(r)
  BY <1>1, Progress DEF Laid, Advanced
<1>3. fs.protos = cmd.protos /\ cmd.protos # Gone
  BY <1>1, CodeFacts DEF Underway, Idle
<1>4. do # "rm generated"
  <2>1. 1 \in DOMAIN s /\ Head(s) = s[1]
    BY <1>2, TailFacts
  <2> QED  BY <1>2, <2>1 DEF Generates, Unused
<1>5. /\ ~Has(s, "protoc go", "") => fs.goStd = cmd.protos
      /\ ~Has(s, "protoc lite", "") => fs.goLite = cmd.protos
      /\ ~Has(s, "protoc dart", "") => fs.dartPb = cmd.protos
      /\ ~Has(s, "write main", "") => fs.main = cmd.protos
      /\ ~Has(s, "write handlers", "") => fs.handlers = cmd.protos
      /\ ~Has(s, "write entrypoint", "") => fs.entry # "none"
  BY <1>1 DEF Generated, Ahead
<1>6. /\ do = "rm go/pb" => Has(r, "protoc go", "") /\ Has(r, "protoc lite", "")
      /\ do = "rm lib/pb" => Has(r, "protoc dart", "")
  <2>1. /\ Followed(s, {"template", "rm go/pb"}, "protoc go", "")
        /\ Followed(s, {"template", "rm go/pb"}, "protoc lite", "")
        /\ Followed(s, {"template", "rm lib/pb"}, "protoc dart", "")
    BY <1>2 DEF Generates
  <2>2. ASSUME do = "rm go/pb" PROVE Has(r, "protoc go", "") /\ Has(r, "protoc lite", "")
    <3>1. Head(s).do \in {"template", "rm go/pb"}
      BY <2>2
    <3>2. Has(r, "protoc go", "")
      BY <1>2, <2>1, <3>1, FollowedHead
    <3>3. Has(r, "protoc lite", "")
      BY <1>2, <2>1, <3>1, FollowedHead
    <3> QED  BY <3>2, <3>3
  <2>3. do = "rm lib/pb" => Has(r, "protoc dart", "")
    BY <1>2, <2>1, FollowedHead
  <2> QED  BY <2>2, <2>3
<1>7. /\ ~Has(r, "write main", "") => ~Has(r, "protoc lite", "")
      /\ ~Has(r, "write handlers", "") => ~Has(r, "protoc lite", "")
  <2>1. /\ Followed(r, {"template", "protoc lite"}, "write main", "")
        /\ Followed(r, {"template", "protoc lite"}, "write handlers", "")
    BY <1>2 DEF Generates
  <2>2. \A d : Followed(r, {"template", "protoc lite"}, d, "") /\ ~Has(r, d, "")
              => ~Has(r, "protoc lite", "")
    <3> SUFFICES ASSUME NEW d, Followed(r, {"template", "protoc lite"}, d, ""),
                        ~Has(r, d, "")
                 PROVE  ~Has(r, "protoc lite", "")
      OBVIOUS
    <3>1. \A o : \A a \in {"template", "protoc lite"} : ~Has(r, a, o)
      BY <1>2, NoneLeft
    <3> QED  BY <3>1
  <2> QED  BY <2>1, <2>2
<1>8. \A d : do # d /\ ~Has(r, d, "") => ~Has(s, d, "")
  BY <1>2
<1>9. ScanHotMethods = IF fs.goLite = Gone THEN {} ELSE fs.goLite
  BY DEF ScanHotMethods
<1> HIDE DEF s, r, do
<1>10. ~Has(r, "protoc go", "") => fs'.goStd = cmd.protos
  BY <1>1, <1>3, <1>4, <1>5, <1>6, <1>8 DEF Changes
<1>11. ~Has(r, "protoc lite", "") => fs'.goLite = cmd.protos
  BY <1>1, <1>3, <1>4, <1>5, <1>6, <1>8 DEF Changes
<1>12. ~Has(r, "protoc dart", "") => fs'.dartPb = cmd.protos
  BY <1>1, <1>3, <1>4, <1>5, <1>6, <1>8 DEF Changes
<1>13. ~Has(r, "write main", "") => fs'.main = cmd.protos
  BY <1>1, <1>3, <1>5, <1>7, <1>8, <1>9 DEF Changes
<1>14. ~Has(r, "write handlers", "") => fs'.handlers = cmd.protos
  BY <1>1, <1>3, <1>5, <1>7, <1>8, <1>9 DEF Changes
<1>15. ~Has(r, "write entrypoint", "") => fs'.entry # "none"
  BY <1>1, <1>5, <1>8 DEF Changes
<1> QED  BY <1>1, <1>10, <1>11, <1>12, <1>13, <1>14, <1>15

\* The manifest is patched last, from the marker.
LEMMA StepPatched ==
  ASSUME TypeOK, Underway, Generated, Patched, Stepped
  PROVE  Patched'
<1> DEFINE s == cmd.rest  r == cmd'.rest  do == Head(cmd.rest).do
<1> SUFFICES ASSUME cmd'.sound, cmd'.name \in Full \ {"new"}, dep' = "version"
             PROVE  /\ ~Has(r, "patch manifest", "") => fs'.manifest = cmd'.protos
                    /\ ~Has(r, "materialize", "") /\ Has(r, "patch manifest", "")
                         => fs'.manifest = Marker
  BY DEF Patched, Ahead
<1>1. /\ cmd.status = "running" /\ Advanced(cmd') /\ cmd.sound
      /\ cmd.name \in Full \ {"new"} /\ dep = "version"
      /\ cmd'.protos = cmd.protos /\ Changes(do, On, fs')
  BY DEF Stepped, Advanced
<1>2. /\ s \in Seq(StepTypes) /\ s # << >> /\ r \in Seq(StepTypes) /\ r = Tail(s)
      /\ \A d, o : Has(s, d, o) <=> (do = d /\ On = o) \/ Has(r, d, o)
      /\ PatchesManifest(s)
  BY <1>1, Progress DEF Laid, Advanced
<1>3. cmd.protos # Gone /\ cmd.protos # Marker
  BY CodeFacts
<1>4. /\ ~Has(s, "protoc lite", "") => fs.goLite = cmd.protos
      /\ ~Has(s, "patch manifest", "") => fs.manifest = cmd.protos
      /\ ~Has(s, "materialize", "") /\ Has(s, "patch manifest", "") => fs.manifest = Marker
  BY <1>1 DEF Generated, Patched, Ahead
<1>5. do = "materialize" => Has(r, "patch manifest", "")
  BY <1>2, FollowedHead DEF PatchesManifest
<1>6. ASSUME do = "patch manifest"
      PROVE  /\ ~Has(r, "materialize", "") /\ ~Has(r, "protoc lite", "")
             /\ ~Has(r, "patch manifest", "")
  <2>1. \A o : \A a \in {"materialize", "protoc lite", "patch manifest"} : ~Has(r, a, o)
    <3>1. /\ Behind(s, {"materialize", "protoc lite", "patch manifest"}, "patch manifest")
          /\ Head(s).do = "patch manifest"
      BY <1>2, <1>6 DEF PatchesManifest
    <3>2. s \in Seq(StepTypes) /\ s # << >> /\ r = Tail(s)
      BY <1>2
    <3> DEFINE A == {"materialize", "protoc lite", "patch manifest"}
    <3> HIDE DEF s, r, do, A
    <3>3. \A o : \A a \in A : ~Has(Tail(s), a, o)
      BY <3>1, <3>2, BehindHead DEF A
    <3> QED  BY <3>2, <3>3 DEF A
  <2> QED  BY <2>1
<1>7. \A d : do # d => (Has(s, d, "") <=> Has(r, d, ""))
  BY <1>2
<1>8. ScanHotMethods = IF fs.goLite = Gone THEN {} ELSE fs.goLite
  BY DEF ScanHotMethods
<1> HIDE DEF s, r, do
<1>9. fs'.manifest = IF do = "materialize" /\ dep = "version" THEN Marker
                     ELSE IF do = "patch manifest" /\ fs.manifest = Marker
                          THEN ScanHotMethods ELSE fs.manifest
  BY <1>1 DEF Changes
<1>10. CASE do = "materialize"
  BY <1>1, <1>5, <1>9, <1>10
<1>11. CASE do = "patch manifest"
  <2>1. fs.goLite = cmd.protos /\ (fs.manifest = Marker \/ fs.manifest = cmd.protos)
    BY <1>4, <1>6, <1>7, <1>11
  <2> QED  BY <1>1, <1>3, <1>6, <1>8, <1>9, <1>11, <2>1
<1>12. CASE do \notin {"materialize", "patch manifest"}
  BY <1>1, <1>4, <1>7, <1>9, <1>12
<1> QED  BY <1>10, <1>11, <1>12

\* No command that creates the platforms removes them.
LEMMA StepCreated ==
  ASSUME TypeOK, Underway, Created, Stepped
  PROVE  Created'
<1> DEFINE s == cmd.rest  r == cmd'.rest  do == Head(cmd.rest).do
<1> SUFFICES ASSUME cmd'.sound, cmd'.name \in {"new", "prepare", "upgrade"}
             PROVE  /\ ~Has(r, "create web", "") => fs'.web # {}
                    /\ \A p \in Platforms : ~Has(r, "create", p) => fs'.platform[p] # "none"
  BY DEF Created, Ahead
<1>1. /\ cmd.status = "running" /\ Advanced(cmd') /\ cmd.sound
      /\ cmd.name \in {"new", "prepare", "upgrade"} /\ Changes(do, On, fs')
  BY DEF Stepped, Advanced
<1>2. /\ s \in Seq(StepTypes) /\ s # << >>
      /\ \A d, o : Has(s, d, o) <=> (do = d /\ On = o) \/ Has(r, d, o)
      /\ Generates(s)
  BY <1>1, Progress DEF Laid, Full, Advanced
<1>3. do # "rm platforms"
  <2>1. 1 \in DOMAIN s /\ Head(s) = s[1]
    BY <1>2, TailFacts
  <2> QED  BY <1>2, <2>1 DEF Generates, Unused
<1>4. /\ ~Has(s, "create web", "") => fs.web # {}
      /\ \A p \in Platforms : ~Has(s, "create", p) => fs.platform[p] # "none"
  BY <1>1 DEF Created, Ahead
<1> HIDE DEF s, r, do
<1>5. fs'.web = {} => fs.web = {} /\ do # "create web"
  BY <1>1, <1>3 DEF Changes
<1>6. \A p \in Platforms :
        fs'.platform[p] = "none" => fs.platform[p] = "none" /\ ~(do = "create" /\ On = p)
  BY <1>1, <1>3 DEF Changes
<1> QED  BY <1>2, <1>4, <1>5, <1>6

\* The library is built from main.go as it stays, and the app last of all.
LEMMA StepBuilt ==
  ASSUME TypeOK, Underway, Generated, Patched, Built, Stepped
  PROVE  Built'
<1> DEFINE s == cmd.rest  r == cmd'.rest  do == Head(cmd.rest).do
<1>1. /\ cmd.status = "running" /\ Advanced(cmd') /\ cmd'.sound = cmd.sound
      /\ cmd'.name = cmd.name /\ dep' = dep /\ commands' = commands
      /\ cmd'.protos = cmd.protos /\ Changes(do, On, fs') /\ commands \in Nat
  BY DEF Stepped, Advanced, TypeOK
<1>2. /\ s \in Seq(StepTypes) /\ s # << >> /\ r \in Seq(StepTypes) /\ r = Tail(s)
      /\ \A d, o : Has(s, d, o) <=> (do = d /\ On = o) \/ Has(r, d, o)
      /\ Laid(cmd.name, s)
  BY <1>1, Progress DEF Advanced
<1>3. 1 \in DOMAIN s /\ Head(s) = s[1]
  BY <1>2, TailFacts
<1>4. cmd.sound /\ cmd.name = "native" =>
        /\ ~Has(s, "protoc dart", "") => fs.dartPb = cmd.protos
        /\ ~Has(s, "write main", "") => fs.main = cmd.protos
        /\ dep = "version" /\ ~Has(s, "patch manifest", "") => fs.manifest = cmd.protos
        /\ \A p \in Platforms : Has(s, "build app", p) /\ ~Has(s, "build lib", p)
                                => fs.lib[p] = cmd.protos
        /\ \A p \in Platforms : Has(s, "build lib", p) /\ ~Has(s, "go build", p)
                                => fs.archive[p] = cmd.protos
  <2>1. "native" \in Full /\ "native" # "new"
    BY DEF Full
  <2> QED  BY <2>1 DEF Generated, Patched, Built, Ahead
<1>5. \A p \in Platforms :
        /\ fs.app[p].run =< commands
        /\ cmd.sound /\ fs.app[p].run = commands /\ (p \in AppleOnes => dep = "version")
           => fs.app[p].client = fs.app[p].symbols
  BY DEF Built
<1>6. cmd.name = "native" /\ do = "go build" => ~Has(s, "write main", "")
  <2> SUFFICES ASSUME cmd.name = "native", do = "go build"
               PROVE  ~Has(s, "write main", "")
    OBVIOUS
  <2>1. \A o : \A a \in {"write main"} : ~Has(r, a, o)
    BY <1>2, BehindHead DEF Laid
  <2>2. ~Has(r, "write main", "") /\ do # "write main"
    BY <2>1
  <2> QED  BY <1>2, <2>2
<1>6a. cmd.name = "native" /\ do = "build lib" =>
         Has(s, "build lib", On) /\ ~Has(s, "go build", On)
  <2> SUFFICES ASSUME cmd.name = "native", do = "build lib"
               PROVE  Has(s, "build lib", On) /\ ~Has(s, "go build", On)
    OBVIOUS
  <2>1. \A o : \A a \in {"go build"} : ~Has(r, a, o)
    BY <1>2, BehindHead DEF Laid
  <2>2. ~Has(r, "go build", On) /\ do # "go build"
    BY <2>1
  <2> QED  BY <1>2, <2>2
<1>7. do = "build app" => cmd.name = "native" /\ \A d, o : ~Has(r, d, o)
  <2> SUFFICES ASSUME do = "build app"
               PROVE  cmd.name = "native" /\ \A d, o : ~Has(r, d, o)
    OBVIOUS
  <2>1. cmd.name = "native" /\ Ends(s, "build app")
    BY <1>2, <1>3 DEF Laid, Unused
  <2>2. Len(s) = 1
    BY <1>3, <2>1 DEF Ends
  <2>3. r = << >>
    BY <1>1, <2>2, Progress DEF Advanced, Passed
  <2> QED  BY <2>1, <2>3, NotEmpty
<1>8. cmd.name = "native" => do # "rm generated"
  <2>1. cmd.name = "native" => Unused(s, {"rm generated", "rm platforms"})
    BY <1>2 DEF Laid, Full, Generates
  <2> QED  BY <1>3, <2>1 DEF Unused
<1>9. cmd.protos # Gone /\ cmd.protos # Marker
  BY CodeFacts
<1> HIDE DEF s, r, do
<1>10. \A p \in Platforms :
         cmd.sound /\ cmd.name = "native" /\ Has(r, "build app", p) /\ ~Has(r, "build lib", p)
         => fs'.lib[p] = cmd.protos
  <2> SUFFICES ASSUME NEW p \in Platforms, cmd.sound, cmd.name = "native",
                      Has(r, "build app", p), ~Has(r, "build lib", p)
               PROVE  fs'.lib[p] = cmd.protos
    OBVIOUS
  <2>1. fs'.lib[p] = IF do = "build lib" /\ On = p THEN fs.archive[p] ELSE fs.lib[p]
    BY <1>1, <1>8 DEF Changes
  <2>2. CASE do = "build lib" /\ On = p
    BY <1>4, <1>6a, <2>1, <2>2
  <2>3. CASE ~(do = "build lib" /\ On = p)
    <3>1. Has(s, "build app", p) /\ ~Has(s, "build lib", p)
      BY <1>2, <2>3
    <3> QED  BY <1>4, <2>1, <2>3, <3>1
  <2> QED  BY <2>2, <2>3
<1>10a. \A p \in Platforms :
         cmd.sound /\ cmd.name = "native" /\ Has(r, "build lib", p) /\ ~Has(r, "go build", p)
         => fs'.archive[p] = cmd.protos
  <2> SUFFICES ASSUME NEW p \in Platforms, cmd.sound, cmd.name = "native",
                      Has(r, "build lib", p), ~Has(r, "go build", p)
               PROVE  fs'.archive[p] = cmd.protos
    OBVIOUS
  <2>1. fs'.archive[p] = IF do = "go build" /\ On = p THEN fs.main ELSE fs.archive[p]
    BY <1>1, <1>8 DEF Changes
  <2>2. CASE do = "go build" /\ On = p
    BY <1>4, <1>6, <2>1, <2>2
  <2>3. CASE ~(do = "go build" /\ On = p)
    <3>1. Has(s, "build lib", p) /\ ~Has(s, "go build", p)
      BY <1>2, <2>3
    <3> QED  BY <1>4, <2>1, <2>3, <3>1
  <2> QED  BY <2>2, <2>3
<1>11. \A p \in Platforms :
         /\ fs'.app[p].run =< commands
         /\ cmd.sound /\ fs'.app[p].run = commands /\ (p \in AppleOnes => dep = "version")
            => fs'.app[p].client = fs'.app[p].symbols
  <2> TAKE p \in Platforms
  <2> DEFINE a == fs'.app[p]
             v == [client |-> fs.dartPb, run |-> commands,
                   symbols |-> IF p \in AppleOnes
                               THEN IF fs.manifest \in {Gone, Marker} THEN {}
                                    ELSE fs.lib[p] \cap fs.manifest
                               ELSE fs.lib[p]]
  <2>1. a = IF do = "build app" /\ On = p THEN v ELSE fs.app[p]
    BY <1>1 DEF Changes
  <2>2. CASE ~(do = "build app" /\ On = p)
    BY <1>5, <2>1, <2>2
  <2>3. CASE do = "build app" /\ On = p
    <3>1. a.run = commands /\ a.client = fs.dartPb
          /\ a.symbols = IF p \in AppleOnes
                         THEN IF fs.manifest \in {Gone, Marker} THEN {}
                              ELSE fs.lib[p] \cap fs.manifest
                         ELSE fs.lib[p]
      <4>1. v.run = commands /\ v.client = fs.dartPb
            /\ v.symbols = IF p \in AppleOnes
                           THEN IF fs.manifest \in {Gone, Marker} THEN {}
                                ELSE fs.lib[p] \cap fs.manifest
                           ELSE fs.lib[p]
        OBVIOUS
      <4> HIDE DEF a, v
      <4>2. a = v
        BY <2>1, <2>3
      <4> QED  BY <4>1, <4>2
    <3> HIDE DEF a, v
    <3>2. a.run =< commands
      BY <1>1, <3>1
    <3>3. ASSUME cmd.sound, p \in AppleOnes => dep = "version"
          PROVE  a.client = a.symbols
      <4>1. /\ Has(s, "build app", p) /\ ~Has(s, "build lib", p)
            /\ ~Has(s, "protoc dart", "") /\ ~Has(s, "patch manifest", "")
        <5>1. Has(s, "build app", p)
          BY <1>2, <2>3
        <5>2. \A d, o : d # "build app" => ~Has(s, d, o)
          BY <1>2, <1>7, <2>3
        <5> QED  BY <5>1, <5>2
      <4>2. fs.dartPb = cmd.protos /\ fs.lib[p] = cmd.protos
            /\ (p \in AppleOnes => fs.manifest = cmd.protos)
        BY <1>4, <1>7, <2>3, <3>3, <4>1
      <4>3. CASE p \in AppleOnes
        <5>1. fs.manifest = cmd.protos /\ fs.manifest \notin {Gone, Marker}
          BY <1>9, <4>2, <4>3
        <5>2. a.symbols = fs.lib[p] \cap fs.manifest
          BY <3>1, <4>3, <5>1
        <5> QED  BY <3>1, <4>2, <5>1, <5>2
      <4>4. CASE p \notin AppleOnes
        BY <3>1, <4>2, <4>4
      <4> QED  BY <4>3, <4>4
    <3> QED  BY <3>2, <3>3 DEF a
  <2> QED  BY <2>2, <2>3
<1> QED  BY <1>1, <1>10, <1>11, <1>10a DEF Built, Ahead, r

\* What changes the committed files is followed by a commit, and a commit is
\* the last step of upgrade.
LEMMA StepCommitted ==
  ASSUME TypeOK, Underway, Committed, Stepped
  PROVE  Committed'
<1> DEFINE s == cmd.rest  r == cmd'.rest  do == Head(cmd.rest).do
<1>1. /\ cmd.status = "running" /\ Advanced(cmd') /\ cmd'.sound = cmd.sound
      /\ cmd'.name = cmd.name /\ cmd'.user = cmd.user /\ Changes(do, On, fs')
      /\ IF do = "commit" THEN fs' = fs /\ head' = Tracked(fs) ELSE head' = head
  BY DEF Stepped, Advanced
<1>2. /\ s \in Seq(StepTypes) /\ s # << >> /\ r = Tail(s)
      /\ \A d, o : Has(s, d, o) <=> (do = d /\ On = o) \/ Has(r, d, o)
      /\ Laid(cmd.name, s) /\ cmd'.status = IF r = << >> THEN "done" ELSE "running"
  BY <1>1, Progress DEF Advanced
<1>3. do # "commit" /\ do \notin Owners => Own(fs') = Own(fs) /\ head' = head
  BY <1>1 DEF Changes
<1>4. do = "commit" => Own(fs') = Own(head')
  <2>1. fs \in FileTypes
    BY DEF TypeOK
  <2> QED  BY <1>1, <2>1, FileFacts
<1>5. cmd.name = "new" /\ do \in Owners => Has(r, "commit", "")
  <2> SUFFICES ASSUME cmd.name = "new", do \in Owners PROVE Has(r, "commit", "")
    OBVIOUS
  <2>1. Followed(s, Owners, "commit", "")
    BY <1>2 DEF Laid
  <2> QED  BY <1>2, <2>1, FollowedHead
<1>6. cmd.name = "upgrade" /\ do = "commit" => cmd'.status = "done"
  <2> SUFFICES ASSUME cmd.name = "upgrade", do = "commit" PROVE cmd'.status = "done"
    OBVIOUS
  <2>0. Ends(s, "commit")
    BY <1>2 DEF Laid
  <2>1. Ends(s, "commit") /\ 1 \in DOMAIN s /\ Head(s) = s[1]
    BY <1>2, <2>0, TailFacts
  <2>2. Len(s) = 1
    BY <2>1 DEF Ends
  <2> QED  BY <1>1, <2>2 DEF Advanced, Passed
<1>7. /\ cmd.name = "new" /\ cmd.sound /\ ~Has(s, "commit", "") => Own(fs) = Own(head)
      /\ cmd.name = "upgrade" => head.user = cmd.user
  BY <1>1 DEF Committed, Ahead, Idle
<1> HIDE DEF s, r, do
<1>8. cmd.name = "new" /\ cmd.sound /\ ~Has(r, "commit", "") => Own(fs') = Own(head')
  BY <1>2, <1>3, <1>4, <1>5, <1>7
<1>9. cmd.name = "upgrade" /\ cmd'.status = "running" => head'.user = cmd.user
  BY <1>1, <1>6, <1>7
<1>10. cmd'.status # "failed"
  BY <1>2
<1> QED  BY <1>1, <1>8, <1>9, <1>10 DEF Committed, Ahead, Idle, r

LEMMA StepHalfDone ==
  ASSUME TypeOK, Underway, HalfDone, Stepped
  PROVE  HalfDone'
<1> DEFINE s == cmd.rest  r == cmd'.rest  do == Head(cmd.rest).do
<1> SUFFICES ASSUME accidents' = 0
             PROVE  /\ \A p \in Platforms : fs'.platform[p] = "created" =>
                         Running("patch")' /\ On' = p /\ cmd'.block
                    /\ checkout' = "cloned" => Running("checkout")' /\ cmd'.block
                    /\ "half-made" \notin fs'.web
                    /\ \A p \in Platforms : fs'.platform[p] # "half-made"
  BY DEF HalfDone
<1>1. /\ cmd.status = "running" /\ Advanced(cmd') /\ Changes(do, On, fs')
      /\ accidents = 0
      /\ do = "create" /\ fs.platform[On] = "none" => cmd'.block
      /\ checkout' = "cloned" => \/ do = "clone" /\ cmd'.block
                                 \/ checkout = "cloned" /\ ~(do = "checkout" /\ cmd.block)
  BY DEF Stepped
<1>2. /\ s \in Seq(StepTypes) /\ s # << >> /\ r = Tail(s) /\ Paired(s)
      /\ cmd'.status = IF r = << >> THEN "done" ELSE "running"
      /\ r # << >> => Head(r) = s[2]
  BY <1>1, Progress DEF Laid, Advanced
<1>3. /\ \A p \in Platforms : fs.platform[p] = "created" =>
           do = "patch" /\ On = p /\ cmd.block
      /\ checkout = "cloned" => do = "checkout" /\ cmd.block
      /\ "half-made" \notin fs.web /\ \A p \in Platforms : fs.platform[p] # "half-made"
  BY <1>1 DEF HalfDone, Running
<1>4. do \in {"clone", "create"} =>
        /\ cmd'.status = "running" /\ On' = On
        /\ Head(r).do = IF do = "clone" THEN "checkout" ELSE "patch"
  <2> SUFFICES ASSUME do \in {"clone", "create"}
               PROVE  /\ cmd'.status = "running" /\ Head(r).on = Head(s).on
                      /\ Head(r).do = IF do = "clone" THEN "checkout" ELSE "patch"
    BY DEF On
  <2>1. 1 \in DOMAIN s /\ Head(s) = s[1] /\ DOMAIN s = 1 .. Len(s) /\ Len(s) \in Nat
    BY <1>2, TailFacts
  <2>2. /\ 1 + 1 \in DOMAIN s /\ s[1 + 1].on = s[1].on
        /\ s[1 + 1].do = IF do = "clone" THEN "checkout" ELSE "patch"
    BY <1>2, <2>1 DEF Paired
  <2>3. 1 + 1 = 2 /\ Len(s) # 1
    BY <2>1, <2>2
  <2>4. cmd'.status = "running" /\ r # << >>
    BY <1>1, <1>2, <2>3 DEF Advanced, Passed
  <2> QED  BY <1>2, <2>1, <2>2, <2>3, <2>4
<1> HIDE DEF s, r, do
<1>5. ASSUME NEW p \in Platforms, fs'.platform[p] = "created"
      PROVE  Running("patch")' /\ On' = p /\ cmd'.block
  <2>1. do = "create" /\ On = p /\ fs.platform[p] = "none"
    BY <1>1, <1>3, <1>5 DEF Changes
  <2> QED  BY <1>1, <1>4, <2>1 DEF Running, r
<1>6. checkout' = "cloned" => Running("checkout")' /\ cmd'.block
  BY <1>1, <1>3, <1>4 DEF Running, r
<1>7. "half-made" \notin fs'.web /\ \A p \in Platforms : fs'.platform[p] # "half-made"
  BY <1>1, <1>3 DEF Changes
<1> QED  BY <1>5, <1>6, <1>7

LEMMA StepPreserves ==
  ASSUME IInv, Stepped
  PROVE  IInv'
BY StepTypeOK, StepUnderway, StepGenerated, StepPatched, StepCreated, StepBuilt,
   StepCommitted, StepHalfDone DEF IInv

\* The template, with which everything is still to be made.
LEMMA TemplatePreserves ==
  ASSUME IInv, Template
  PROVE  IInv'
<1> DEFINE s == cmd.rest  r == cmd'.rest
<1>1. TypeOK /\ Underway /\ HalfDone /\ Built
  BY DEF IInv
<1>2. /\ cmd.status = "running" /\ Head(s).do = "template" /\ dir' = "project"
      /\ UNCHANGED << dep, checkout, head, edits, commands, accidents >>
  BY DEF Template, Running
<1>3. PICK protos \in Protos :
        /\ fs' = [NoFiles EXCEPT !.protos = protos, !.entry = "default"]
        /\ cmd' = [Advance(cmd) EXCEPT !.protos = protos]
  BY DEF Template
<1>4. /\ Passed(cmd') /\ cmd' \in CommandTypes /\ cmd'.name = cmd.name
      /\ cmd'.protos = protos
  <2>1. protos \in ProtoSets
    BY DEF ProtoSets
  <2> QED  BY <1>1, <1>2, <1>3, <2>1, AdvanceFacts DEF Advanced, Passed, CommandTypes
<1>5. /\ fs' \in FileTypes /\ fs'.protos = protos /\ fs'.entry = "default"
      /\ fs'.platform = NoFiles.platform /\ fs'.app = NoFiles.app /\ fs'.web = {}
  <2>1. protos \in ProtoSets
    BY DEF ProtoSets
  <2>2. NoFiles.web = {}
    BY DEF NoFiles
  <2> QED  BY <1>3, <2>1, <2>2, FileFacts DEF FileTypes, Entries
<1>6. /\ s \in Seq(StepTypes) /\ s # << >> /\ r \in Seq(StepTypes) /\ r = Tail(s)
      /\ Laid(cmd.name, s) /\ Laid(cmd.name, r)
      /\ cmd'.status = IF r = << >> THEN "done" ELSE "running"
      /\ r # << >> => Head(r).do # "template"
  BY <1>1, <1>2, <1>4, Progress
<1>7. cmd.name = "new"
  <2>1. 1 \in DOMAIN s /\ Head(s) = s[1]
    BY <1>6, TailFacts
  <2> QED  BY <1>2, <1>6, <2>1 DEF Laid
<1>8. Generates(s) /\ CreatesPlatforms(s) /\ Followed(s, Owners, "commit", "")
  BY <1>6, <1>7 DEF Laid, Full
<1>9. /\ Has(r, "protoc go", "") /\ Has(r, "protoc lite", "") /\ Has(r, "protoc dart", "")
      /\ Has(r, "write main", "") /\ Has(r, "write handlers", "")
  <2> HIDE DEF s, r
  <2> QED  BY <1>2, <1>6, <1>8, FollowedHead DEF Generates
<1>10. Has(r, "create web", "") /\ \A p \in Platforms : Has(r, "create", p)
  <2> HIDE DEF s, r
  <2> QED  BY <1>2, <1>6, <1>8, FollowedHead DEF CreatesPlatforms
<1>11. Has(r, "commit", "")
  <2> HIDE DEF s, r
  <2>1. "template" \in Owners
    BY DEF Owners
  <2> QED  BY <1>2, <1>6, <1>8, <2>1, FollowedHead
<1>12. /\ \A p \in Platforms : fs'.platform[p] = "none" /\ fs'.app[p] = NoApp
       /\ NoApp.run = 0 /\ NoApp.client = NoApp.symbols /\ commands \in Nat
  BY <1>1, <1>5 DEF NoFiles, NoApp, TypeOK
<1>13. TypeOK'
  BY <1>1, <1>2, <1>4, <1>5, <1>6 DEF TypeOK
<1>14. Underway'
  <2>1. Idle' => cmd'.rest = << >>
    BY <1>6 DEF Idle
  <2>2. ~Idle' => ~Running("template")'
    BY <1>6, <2>1 DEF Running, Idle
  <2> QED  BY <1>2, <1>4, <1>5, <1>6, <2>1, <2>2 DEF Underway
<1>15. Generated'
  BY <1>5, <1>9 DEF Generated, Ahead
<1>16. Patched'
  BY <1>4, <1>7 DEF Patched
<1>17. Created'
  BY <1>10 DEF Created, Ahead
<1>18. Built'
  <2>1. cmd'.name # "native"
    BY <1>4, <1>7
  <2>2. \A p \in Platforms : fs'.app[p].run =< commands' /\ fs'.app[p].client = fs'.app[p].symbols
    BY <1>2, <1>12
  <2> QED  BY <2>1, <2>2 DEF Built
<1>19. Committed'
  <2>1. cmd'.name # "upgrade" /\ cmd'.status # "failed"
    BY <1>4, <1>6, <1>7
  <2> QED  BY <1>11, <2>1 DEF Committed, Ahead
<1>20. HalfDone'
  <2>1. accidents = 0 => checkout # "cloned"
    BY <1>1, <1>2 DEF HalfDone, Running
  <2> QED  BY <1>2, <1>5, <1>12, <2>1 DEF HalfDone
<1> QED  BY <1>13, <1>14, <1>15, <1>16, <1>17, <1>18, <1>19, <1>20 DEF IInv

-----------------------------------------------------------------------------
(* The other actions.                                                      *)

\* A command starts with all its steps to come.
LEMMA StartPreserves ==
  ASSUME IInv, NEW name \in CommandNames, NEW steps \in Seq(StepTypes), steps # << >>,
         Laid(name, steps), Complete(name, steps), Start(name, steps),
         name = "new" => dir = "none", name = "upgrade" => ~Dirty
  PROVE  IInv'
<1>1. TypeOK /\ Underway /\ Built /\ HalfDone
  BY DEF IInv
<1>2. /\ Idle /\ commands' = commands + 1 /\ commands \in Nat
      /\ cmd' = [name |-> name, rest |-> steps, status |-> "running", sound |-> TRUE,
                 moduleDir |-> FALSE, block |-> FALSE, user |-> fs.user,
                 protos |-> fs.protos]
      /\ UNCHANGED << dep, checkout, dir, fs, head, edits, accidents >>
  BY <1>1 DEF Start, TypeOK
<1>3. /\ cmd'.name = name /\ cmd'.rest = steps /\ cmd'.status = "running"
      /\ cmd'.user = fs.user /\ cmd'.protos = fs.protos
  BY <1>2
<1>4. cmd' \in CommandTypes
  <2>1. fs.user \in Nat /\ fs.protos \in ProtoSets
    BY <1>1 DEF TypeOK, FileTypes
  <2> QED  BY <1>2, <2>1 DEF CommandTypes
<1>5. TypeOK'
  <2>1. commands' \in Nat /\ cmd'.rest # << >>
    BY <1>2, <1>3
  <2>2. /\ dep \in {"version", "path"} /\ checkout \in {"none", "cloned", "at ref"}
        /\ dir \in {"none", "partial", "project"}
        /\ fs \in FileTypes /\ head \in CommitTypes /\ edits \in Nat /\ accidents \in Nat
    BY <1>1 DEF TypeOK
  <2>3. /\ dep' = dep /\ checkout' = checkout /\ dir' = dir /\ fs' = fs /\ head' = head
        /\ edits' = edits /\ accidents' = accidents
    BY <1>2
  <2> QED  BY <1>4, <2>1, <2>2, <2>3 DEF TypeOK
<1>6. Underway'
  <2>1. ~Idle'
    BY <1>3 DEF Idle
  <2>2. Running("template")' => dir' = "none"
    <3> SUFFICES ASSUME Head(steps).do = "template" PROVE dir' = "none"
      BY <1>3 DEF Running
    <3>1. 1 \in DOMAIN steps /\ Head(steps) = steps[1]
      BY TailFacts
    <3>2. name = "new"
      BY <3>1 DEF Laid
    <3> QED  BY <1>2, <3>2
  <2> QED  BY <1>1, <1>2, <1>3, <2>1, <2>2 DEF Underway
<1>7. Generated'
  BY <1>3 DEF Generated, Complete, Ahead
<1>8. Patched'
  BY <1>3 DEF Patched, Complete, Ahead
<1>9. Created'
  BY <1>3 DEF Created, Complete, Ahead
<1>10. Built'
  <2>1. \A p \in Platforms : name = "native" =>
          /\ Has(steps, "build app", p) => Has(steps, "build lib", p)
          /\ Has(steps, "build lib", p) => Has(steps, "go build", p)
    BY DEF Complete
  <2>2. \A p \in Platforms : fs'.app[p].run =< commands' /\ fs'.app[p].run # commands'
    <3> TAKE p \in Platforms
    <3>1. fs.app[p].run \in Nat /\ fs.app[p].run =< commands
      BY <1>1 DEF TypeOK, FileTypes, Built
    <3> QED  BY <1>2, <3>1
  <2> QED  BY <1>3, <2>1, <2>2 DEF Built, Ahead
<1>11. Committed'
  <2>1. name = "upgrade" => head.user = fs.user
    <3>1. fs \in FileTypes
      BY <1>1 DEF TypeOK
    <3> QED  BY <3>1, FileFacts DEF Dirty
  <2>2. name = "new" => Has(steps, "commit", "")
    BY DEF Complete
  <2> QED  BY <1>2, <1>3, <2>1, <2>2 DEF Committed, Ahead
<1>12. HalfDone'
  BY <1>1, <1>2 DEF HalfDone, Running, Idle
<1> QED  BY <1>5, <1>6, <1>7, <1>8, <1>9, <1>10, <1>11, <1>12 DEF IInv

\* What a step that is not completed leaves.
LEMMA PartFacts ==
  ASSUME TypeOK, NEW f \in PartlyDone
  PROVE  /\ f \in FileTypes /\ f.protos = fs.protos /\ f.entry = fs.entry /\ f.app = fs.app
         /\ \A p \in Platforms : f.platform[p] = "created" => fs.platform[p] = "created"
         /\ Doomed => f.platform = fs.platform /\ f.web = fs.web
<1>1. fs \in FileTypes /\ Gone \in Code
  BY CodeFacts
<1>2. Doomed => ~Running("create") /\ ~Running("create web")
  BY DEF Doomed, Running
<1>3. CASE f = fs
  BY <1>1, <1>3
<1>4. CASE Running("create") /\ f = [fs EXCEPT !.platform[On] = "half-made"]
  BY <1>1, <1>2, <1>4 DEF FileTypes, Stages
<1>5. CASE Running("create web") /\ f = [fs EXCEPT !.web = {"half-made"}]
  BY <1>1, <1>2, <1>5 DEF FileTypes, WebParts
<1>6. CASE f = [fs EXCEPT !.lib[On] = Gone]
  <2> DEFINE g == [fs.lib EXCEPT ![On] = Gone]
  <2>1. g \in [Platforms -> Code] /\ f = [fs EXCEPT !.lib = g]
    BY <1>1, <1>6 DEF FileTypes
  <2> HIDE DEF g
  <2> QED  BY <1>1, <2>1 DEF FileTypes
<1> QED  BY <1>3, <1>4, <1>5, <1>6 DEF PartlyDone

\* A step that fails, and the command stopped by hand.
LEMMA AccidentPreserves ==
  ASSUME IInv, StepFails \/ Interrupt
  PROVE  IInv'
<1>1. TypeOK /\ Underway /\ Built /\ Committed /\ HalfDone
  BY DEF IInv
<1>2. /\ cmd.status = "running" /\ UNCHANGED << dep, checkout, edits, commands >>
      /\ cmd \in CommandTypes /\ commands \in Nat /\ accidents \in Nat
      /\ dir \in {"none", "partial", "project"}
      /\ dir # "project" => fs.entry # "custom"
  BY <1>1 DEF StepFails, Interrupt, TypeOK, Underway
<1>3. Running("template") => dir = "none"
  BY <1>1, <1>2 DEF Underway, Idle
\* What becomes of the command.
<1>4. /\ cmd' \in CommandTypes /\ cmd'.sound = FALSE /\ cmd'.name = cmd.name
      /\ cmd'.user = cmd.user /\ cmd'.protos = cmd.protos
      /\ \/ Passed(cmd') /\ fs' \in PartlyDone /\ UNCHANGED << dir, head >>
         \/ cmd'.status \in {"failed", "interrupted"}
  <2>1. CASE StepFails /\ Head(cmd.rest).mode = "soft"
    <3>1. /\ cmd' = [Advance(cmd) EXCEPT !.sound = FALSE, !.block = FALSE]
          /\ fs' \in PartlyDone /\ UNCHANGED << dir, head >>
      BY <2>1 DEF StepFails
    <3> QED  BY <1>1, <1>2, <3>1, AdvanceFacts DEF Advanced
  <2>2. CASE StepFails /\ Head(cmd.rest).mode # "soft"
    <3>1. cmd' = [cmd EXCEPT !.status = "failed", !.sound = FALSE]
      BY <2>2 DEF StepFails, Stops
    <3> QED  BY <1>2, <3>1 DEF CommandTypes
  <2>3. CASE Interrupt
    <3>1. cmd' = [cmd EXCEPT !.status = "interrupted", !.sound = FALSE]
      BY <2>3 DEF Interrupt
    <3> QED  BY <1>2, <3>1 DEF CommandTypes
  <2> QED  BY <2>1, <2>2, <2>3
\* What becomes of the project.
<1>5. /\ dir' \in {"none", "partial", "project"} /\ (dir' = "project" => dir = "project")
      /\ \/ fs' \in PartlyDone /\ head' = head
         \/ fs' = NoFiles /\ head' = Tracked(NoFiles)
      /\ cmd'.name = "new" /\ cmd'.status = "failed" => dir' # "project"
      /\ dir' # "project" => fs'.entry # "custom"
  <2>0. fs \in PartlyDone /\ \A f \in PartlyDone : f.entry = fs.entry
    BY <1>1, PartFacts DEF PartlyDone
  <2>1. CASE StepFails /\ fs' \in PartlyDone /\ UNCHANGED << dir, head >> /\ Passed(cmd')
    <3>1. cmd'.status # "failed"
      BY <2>1 DEF Passed
    <3> QED  BY <1>2, <2>0, <2>1, <3>1
  <2>2. CASE StepFails /\ Stops
    <3>1. NoFiles.entry # "custom"
      BY DEF NoFiles
    <3> QED  BY <1>2, <1>3, <1>4, <2>0, <2>2, <3>1 DEF Stops
  <2>3. CASE Interrupt
    <3>1. cmd'.status # "failed" /\ fs' \in PartlyDone /\ head' = head
      BY <1>2, <2>3 DEF Interrupt, CommandTypes
    <3>2. dir' \in IF Running("template") THEN {"none", "partial"} ELSE {dir}
      BY <2>3 DEF Interrupt
    <3> QED  BY <1>2, <1>3, <2>0, <3>1, <3>2
  <2>4. StepFails => Stops \/ (/\ fs' \in PartlyDone /\ UNCHANGED << dir, head >>
                             /\ Passed(cmd'))
    <3> SUFFICES ASSUME StepFails, ~Stops
                 PROVE  fs' \in PartlyDone /\ UNCHANGED << dir, head >> /\ Passed(cmd')
      OBVIOUS
    <3>1. /\ cmd' = [Advance(cmd) EXCEPT !.sound = FALSE, !.block = FALSE]
          /\ fs' \in PartlyDone /\ UNCHANGED << dir, head >>
      BY DEF StepFails
    <3> QED  BY <1>1, <1>2, <3>1, AdvanceFacts DEF Advanced
  <2> QED  BY <2>1, <2>2, <2>3, <2>4
<1>6. TypeOK'
  <2>1. accidents' \in Nat
    BY <1>2 DEF StepFails, Interrupt
  <2>2. fs' \in FileTypes /\ head' \in CommitTypes
    BY <1>1, <1>5, FileFacts, PartFacts DEF TypeOK
  <2>3. cmd'.status = "running" => cmd'.rest # << >>
    BY <1>1, <1>2, <1>4, Progress
  <2> QED  BY <1>1, <1>2, <1>4, <1>5, <2>1, <2>2, <2>3 DEF TypeOK
<1>7. Underway'
  <2>1. ASSUME ~Idle'
        PROVE  /\ Laid(cmd'.name, cmd'.rest) /\ fs'.protos = cmd'.protos
               /\ ~Running("template")'
    <3>1. Passed(cmd') /\ fs'.protos = fs.protos
      BY <1>1, <1>4, <2>1, PartFacts DEF Idle
    <3>2. /\ Laid(cmd.name, cmd'.rest) /\ cmd'.rest # << >>
          /\ Head(cmd'.rest).do # "template"
      BY <1>1, <1>2, <2>1, <3>1, Progress DEF Idle
    <3>3. fs.protos = cmd.protos
      BY <1>1, <1>2 DEF Underway, Idle
    <3> QED  BY <1>4, <3>1, <3>2, <3>3 DEF Running
  <2> QED  BY <1>4, <1>5, <2>1 DEF Underway
<1>8. Generated' /\ Patched' /\ Created'
  BY <1>4 DEF Generated, Patched, Created
<1>9. Built'
  <2>1. \A p \in Platforms : fs'.app[p].run =< commands
    <3>1. \A p \in Platforms : NoFiles.app[p].run = 0
      BY DEF NoFiles, NoApp
    <3>2. \A p \in Platforms : fs.app[p].run =< commands
      BY <1>1 DEF Built
    <3> QED  BY <1>1, <1>2, <1>5, <3>1, <3>2, PartFacts
  <2> QED  BY <1>2, <1>4, <2>1 DEF Built
<1>10. Committed'
  <2>1. cmd.name = "upgrade" => head.user = cmd.user
    BY <1>1, <1>2 DEF Committed, Idle
  <2>2. ~Idle' => head' = head
    BY <1>4 DEF Idle
  <2> QED  BY <1>4, <1>5, <2>1, <2>2 DEF Committed
\* No accident means a step that could not succeed; it left nothing half done.
<1>11. HalfDone'
  <2> SUFFICES ASSUME accidents' = 0
               PROVE  /\ \A p \in Platforms : fs'.platform[p] \notin {"half-made", "created"}
                      /\ "half-made" \notin fs'.web
                      /\ checkout' # "cloned"
    BY DEF HalfDone
  <2>1. Doomed /\ accidents = 0
    BY <1>2 DEF StepFails, Interrupt
  <2>2. ~Running("patch") /\ ~Running("checkout")
    BY <2>1 DEF Doomed, Running
  <2>3. /\ \A p \in Platforms : fs.platform[p] \notin {"half-made", "created"}
        /\ "half-made" \notin fs.web
        /\ checkout # "cloned"
    BY <1>1, <2>1, <2>2 DEF HalfDone
  <2>4. /\ \A p \in Platforms : NoFiles.platform[p] = "none"
        /\ NoFiles.web = {}
    BY DEF NoFiles
  <2>5. CASE fs' \in PartlyDone
    BY <1>1, <1>2, <2>1, <2>3, <2>5, PartFacts
  <2> QED  BY <1>2, <1>5, <2>3, <2>4, <2>5
<1> QED  BY <1>6, <1>7, <1>8, <1>9, <1>10, <1>11 DEF IInv

\* The developer's edits touch neither generated code nor the platforms.
LEMMA EditPreserves ==
  ASSUME IInv, EditSource \/ EditEntry \/ EditProtos
  PROVE  IInv'
<1>1. TypeOK /\ Underway /\ Generated /\ Patched /\ Created /\ Built /\ Committed
      /\ HalfDone
  BY DEF IInv
<1>2. PICK f : /\ f \in FileTypes /\ Edit(f)
               /\ f.goStd = fs.goStd /\ f.goLite = fs.goLite /\ f.dartPb = fs.dartPb
               /\ f.main = fs.main /\ f.handlers = fs.handlers
               /\ f.manifest = fs.manifest /\ f.web = fs.web
               /\ f.platform = fs.platform /\ f.archive = fs.archive
               /\ f.lib = fs.lib /\ f.app = fs.app
               /\ Own(f) = Own(fs)
               /\ f.entry \in {fs.entry, "custom"} /\ (f.protos = fs.protos \/ Idle)
  <2>1. fs \in FileTypes
    BY <1>1 DEF TypeOK
  <2>2. CASE EditSource
    <3> DEFINE f == [fs EXCEPT !.user = @ + 1]
    <3>1. f \in FileTypes
      BY <2>1 DEF FileTypes
    <3>2. Edit(f)
      BY <2>2 DEF EditSource
    <3> QED  BY <2>1, <3>1, <3>2 DEF FileTypes, Own
  <2>3. CASE EditEntry
    <3> DEFINE f == [fs EXCEPT !.entry = "custom"]
    <3>1. f \in FileTypes
      BY <2>1 DEF FileTypes, Entries
    <3>2. Edit(f)
      BY <2>3 DEF EditEntry
    <3> QED  BY <2>1, <3>1, <3>2 DEF FileTypes, Own
  <2>4. CASE EditProtos
    <3>1. PICK protos \in Protos : Edit([fs EXCEPT !.protos = protos])
      BY <2>4 DEF EditProtos
    <3> DEFINE f == [fs EXCEPT !.protos = protos]
    <3>2. f \in FileTypes
      BY <2>1 DEF FileTypes, ProtoSets
    <3>3. Edit(f) /\ Idle
      BY <2>4, <3>1 DEF EditProtos
    <3> QED  BY <2>1, <3>2, <3>3 DEF FileTypes, Own
  <2> QED  BY <2>2, <2>3, <2>4
<1>3. /\ fs' = f /\ dir = "project" /\ edits' = edits + 1
      /\ UNCHANGED << dep, checkout, dir, head, cmd, commands, accidents >>
  BY <1>2 DEF Edit
<1>4. TypeOK'
  <2>1. edits' \in Nat
    <3>1. edits \in Nat
      BY <1>1 DEF TypeOK
    <3> QED  BY <1>3, <3>1
  <2>2. /\ dep \in {"version", "path"} /\ checkout \in {"none", "cloned", "at ref"}
        /\ dir \in {"none", "partial", "project"}
        /\ head \in CommitTypes /\ commands \in Nat /\ accidents \in Nat
        /\ cmd \in CommandTypes /\ (cmd.status = "running" => cmd.rest # << >>)
    BY <1>1 DEF TypeOK
  <2> QED  BY <1>2, <1>3, <2>1, <2>2 DEF TypeOK
<1>5. Underway'
  BY <1>1, <1>2, <1>3 DEF Underway, Idle, Running
<1>6. Generated'
  <2>1. fs.entry # "none" => f.entry # "none"
    BY <1>2
  <2> QED  BY <1>1, <1>2, <1>3, <2>1 DEF Generated, Ahead
<1>7. Patched' /\ Created'
  BY <1>1, <1>2, <1>3 DEF Patched, Created, Ahead
<1>8. Built'
  BY <1>1, <1>2, <1>3 DEF Built, Ahead
<1>9. Committed'
  BY <1>1, <1>2, <1>3 DEF Committed, Ahead, Idle
<1>10. HalfDone'
  BY <1>1, <1>2, <1>3 DEF HalfDone, Running, On
<1> QED  BY <1>4, <1>5, <1>6, <1>7, <1>8, <1>9, <1>10 DEF IInv

LEMMA UserCommitPreserves ==
  ASSUME IInv, UserCommits
  PROVE  IInv'
<1>1. TypeOK /\ Underway /\ Generated /\ Patched /\ Created /\ Built /\ Committed
      /\ HalfDone
  BY DEF IInv
<1>2. /\ Idle /\ head' = Tracked(fs) /\ edits' = edits + 1
      /\ UNCHANGED << dep, checkout, dir, fs, cmd, commands, accidents >>
  BY DEF UserCommits
<1>3. /\ fs \in FileTypes /\ head' \in CommitTypes /\ Own(head') = Own(fs)
      /\ edits' \in Nat
  <2>1. fs \in FileTypes /\ edits \in Nat
    BY <1>1 DEF TypeOK
  <2>2. edits' \in Nat
    BY <1>2, <2>1
  <2> QED  BY <1>2, <2>1, <2>2, FileFacts
<1>4. TypeOK'
  BY <1>1, <1>2, <1>3 DEF TypeOK
<1>5. Underway'
  BY <1>1, <1>2 DEF Underway, Idle, Running
<1>6. Generated' /\ Patched' /\ Created'
  <2>1. Generated'
    BY <1>1, <1>2 DEF Generated, Ahead
  <2>2. Patched'
    BY <1>1, <1>2 DEF Patched, Ahead
  <2>3. Created'
    BY <1>1, <1>2 DEF Created, Ahead
  <2> QED  BY <2>1, <2>2, <2>3
<1>7. Built'
  BY <1>1, <1>2 DEF Built, Ahead
<1>8. Committed'
  BY <1>1, <1>2, <1>3 DEF Committed, Ahead, Idle
<1>9. HalfDone'
  BY <1>1, <1>2 DEF HalfDone, Running, On
<1> QED  BY <1>4, <1>5, <1>6, <1>7, <1>8, <1>9 DEF IInv

LEMMA StutterPreserves ==
  ASSUME IInv, UNCHANGED vars
  PROVE  IInv'
<1>1. TypeOK /\ Underway /\ Generated /\ Patched /\ Created /\ Built /\ Committed
      /\ HalfDone
  BY DEF IInv
<1>2. UNCHANGED << dep, checkout, dir, fs, head, cmd, edits, commands, accidents >>
  BY DEF vars
<1>3. TypeOK'
  BY <1>1, <1>2 DEF TypeOK
<1>4. Underway'
  BY <1>1, <1>2 DEF Underway, Idle, Running
<1>5. Generated' /\ Patched' /\ Created'
  <2>1. Generated'
    BY <1>1, <1>2 DEF Generated, Ahead
  <2>2. Patched'
    BY <1>1, <1>2 DEF Patched, Ahead
  <2>3. Created'
    BY <1>1, <1>2 DEF Created, Ahead
  <2> QED  BY <2>1, <2>2, <2>3
<1>6. Built'
  BY <1>1, <1>2 DEF Built, Ahead
<1>7. Committed'
  BY <1>1, <1>2 DEF Committed, Ahead, Idle
<1>8. HalfDone'
  BY <1>1, <1>2 DEF HalfDone, Running, On
<1> QED  BY <1>3, <1>4, <1>5, <1>6, <1>7, <1>8 DEF IInv

-----------------------------------------------------------------------------
(* The theorems.                                                           *)

LEMMA InitHolds ==
  ASSUME Init PROVE IInv
<1>1. /\ cmd.name = "none" /\ cmd.rest = << >> /\ cmd.status = "done" /\ cmd.sound = TRUE
      /\ cmd.user = 0 /\ cmd.protos = {} /\ dir = "none" /\ checkout = "none"
      /\ fs = NoFiles /\ head = Tracked(NoFiles)
      /\ dep \in {"version", "path"} /\ edits = 0 /\ commands = 0 /\ accidents = 0
  BY DEF Init
<1>2. cmd \in CommandTypes
  <2>1. /\ cmd = [name |-> "none", rest |-> << >>, status |-> "done", sound |-> TRUE,
                  moduleDir |-> FALSE, block |-> FALSE, user |-> 0, protos |-> {}]
        /\ << >> \in Seq(StepTypes) /\ {} \in ProtoSets
    BY FileFacts DEF Init
  <2> QED  BY <2>1 DEF CommandTypes, CommandNames
<1>3. fs \in FileTypes /\ head \in CommitTypes
  BY <1>1, FileFacts
<1>4. TypeOK
  BY <1>1, <1>2, <1>3 DEF TypeOK
<1>5. Underway
  BY <1>1 DEF Underway, Idle, NoFiles
<1>6. "none" \notin Full
  BY DEF Full
<1>7. Generated /\ Patched /\ Created
  BY <1>1, <1>6 DEF Generated, Patched, Created
<1>8. Built
  <2>1. \A p \in Platforms : /\ NoFiles.app[p].run = 0
                             /\ NoFiles.app[p].client = NoFiles.app[p].symbols
    BY DEF NoFiles, NoApp
  <2> QED  BY <1>1, <2>1 DEF Built
<1>9. Committed
  BY <1>1 DEF Committed
<1>10. HalfDone
  <2>1. NoFiles.web = {} /\ \A p \in Platforms : NoFiles.platform[p] = "none"
    BY DEF NoFiles
  <2> QED  BY <1>1, <2>1 DEF HalfDone
<1> QED  BY <1>4, <1>5, <1>7, <1>8, <1>9, <1>10 DEF IInv

\* Every command starts with the steps that the lemmas above are about.
LEMMA CommandsPreserve ==
  ASSUME IInv,
         \/ RunScaffold \/ RunPrepare \/ RunProto \/ RunWeb \/ RunNative \/ RunLib
         \/ RunClean \/ RunReset \/ RunUpgrade
  PROVE  IInv'
<1> USE DEF CommandNames
<1>1. CASE RunScaffold
  BY <1>1, NewLaid, StartPreserves DEF RunScaffold
<1>2. CASE RunPrepare
  BY <1>2, PrepareLaid, StartPreserves DEF RunPrepare
<1>3. CASE RunProto
  BY <1>3, ProtoLaid, StartPreserves DEF RunProto
<1>4. CASE RunWeb
  BY <1>4, WebLaid, StartPreserves DEF RunWeb
<1>5. CASE RunNative
  <2>1. PICK p \in Platforms : Start("native", NativeBuild(p))
    BY <1>5 DEF RunNative
  <2> QED  BY <2>1, NativeLaid, StartPreserves
<1>6. CASE RunLib
  <2>1. PICK p \in Platforms : Start("lib", LibBuild(p))
    BY <1>6 DEF RunLib
  <2> QED  BY <2>1, LibLaid, StartPreserves
<1>7. CASE RunClean
  BY <1>7, CleanLaid, StartPreserves DEF RunClean
<1>8. CASE RunReset
  BY <1>8, ResetLaid, StartPreserves DEF RunReset
<1>9. CASE RunUpgrade
  BY <1>9, UpgradeLaid, StartPreserves DEF RunUpgrade
<1> QED  BY <1>1, <1>2, <1>3, <1>4, <1>5, <1>6, <1>7, <1>8, <1>9

LEMMA NextPreserves ==
  ASSUME IInv, [Next]_vars
  PROVE  IInv'
<1>1. TypeOK
  BY DEF IInv
<1>2. CASE \/ RunScaffold \/ RunPrepare \/ RunProto \/ RunWeb \/ RunNative \/ RunLib
           \/ RunClean \/ RunReset \/ RunUpgrade
  BY <1>2, CommandsPreserve
<1>3. CASE Clone \/ Checkout \/ ListModule \/ Create \/ Commit \/ CommitNothing
  BY <1>1, <1>3, PlainSteps, StepPreserves
<1>4. CASE \/ Materialize \/ RmGoPb \/ ProtocGo \/ ProtocLite \/ RmDartPb \/ ProtocDart
           \/ WriteMain \/ WriteHandlers \/ WriteEntrypoint \/ PatchManifest
           \/ GoBuild \/ BuildLib \/ BuildApp \/ RmGenerated
  BY <1>1, <1>4, CodeSteps, StepPreserves
<1>5. CASE \/ Wasm \/ BuildWeb \/ Parameterize \/ SetupCustomMk \/ GitInit
           \/ PullGodashRepo \/ Refresh \/ FlutterClean \/ PrepareWasmTest
           \/ WebAssets \/ StampWorker \/ CreateWeb \/ GoGet \/ WriteMeta
           \/ ApplyConfig \/ RmPlatforms \/ Patch
  BY <1>1, <1>5, OtherSteps, StepPreserves
<1>6. CASE Template
  BY <1>6, TemplatePreserves
<1>7. CASE StepFails \/ Interrupt
  BY <1>7, AccidentPreserves
<1>8. CASE EditSource \/ EditEntry \/ EditProtos
  BY <1>8, EditPreserves
<1>9. CASE UserCommits
  BY <1>9, UserCommitPreserves
<1>10. CASE UNCHANGED vars
  BY <1>10, StutterPreserves
<1> QED  BY <1>2, <1>3, <1>4, <1>5, <1>6, <1>7, <1>8, <1>9, <1>10 DEF Next

\* The invariant holds in every state of the project, whatever commands are
\* run, fail or are interrupted, and whatever is edited between them.
THEOREM Invariance == Spec => []IInv
<1>1. Init => IInv
  BY InitHolds
<1>2. IInv /\ [Next]_vars => IInv'
  BY NextPreserves
<1> QED  BY <1>1, <1>2, PTL DEF Spec

LEMMA Repaired ==
  ASSUME IInv PROVE SoundRunRepairs
<1> SUFFICES ASSUME Ended, fs.protos = cmd.protos
             PROVE  /\ cmd.name \in {"new", "prepare", "upgrade", "web", "native"} =>
                         /\ {fs.goStd, fs.goLite, fs.dartPb, fs.main, fs.handlers}
                              = {fs.protos}
                         /\ fs.entry # "none"
                    /\ cmd.name \in {"prepare", "upgrade", "web", "native"}
                         /\ dep = "version" => fs.manifest = fs.protos
                    /\ cmd.name \in {"new", "prepare", "upgrade"} =>
                         /\ fs.web # {}
                         /\ \A p \in Platforms : fs.platform[p] # "none"
                    /\ \A p \in Platforms :
                         fs.app[p].run = commands /\ (p \in AppleOnes => dep = "version")
                         => fs.app[p].client = fs.app[p].symbols
  BY DEF SoundRunRepairs, IInv
<1>1. cmd.sound /\ \A do, on : ~Ahead(do, on)
  <2>1. cmd.sound /\ Idle
    BY DEF Ended, Idle
  <2>2. cmd.rest = << >>
    BY <2>1 DEF IInv, Underway
  <2> QED  BY <2>1, <2>2, NotEmpty DEF Ahead
<1>2. cmd.name \in Full =>
        /\ fs.goStd = fs.protos /\ fs.goLite = fs.protos /\ fs.dartPb = fs.protos
        /\ fs.main = fs.protos /\ fs.handlers = fs.protos /\ fs.entry # "none"
  BY <1>1 DEF IInv, Generated
<1>3. cmd.name \in Full \ {"new"} /\ dep = "version" => fs.manifest = fs.protos
  BY <1>1 DEF IInv, Patched
<1>4. cmd.name \in {"new", "prepare", "upgrade"} =>
        fs.web # {} /\ \A p \in Platforms : fs.platform[p] # "none"
  BY <1>1 DEF IInv, Created
<1>5. \A p \in Platforms :
        fs.app[p].run = commands /\ (p \in AppleOnes => dep = "version")
        => fs.app[p].client = fs.app[p].symbols
  BY <1>1 DEF IInv, Built
<1> QED  BY <1>2, <1>3, <1>4, <1>5 DEF Full

\* A command none of whose steps failed repairs whatever was there: the code
\* generated is of the protos, the manifest and the platforms are complete, and
\* the client of the app it built finds its symbols.
THEOREM SoundRunRepairsHolds == Spec => []SoundRunRepairs
BY Invariance, Repaired, PTL

LEMMA Whole ==
  ASSUME IInv PROVE WholeOrNothing
<1>1. cmd.name = "new" /\ Ended => Own(fs) = Own(head)
  <2> SUFFICES ASSUME cmd.name = "new", Ended PROVE Own(fs) = Own(head)
    OBVIOUS
  <2>1. cmd.sound /\ Idle
    BY DEF Ended, Idle
  <2>2. cmd.rest = << >>
    BY <2>1 DEF IInv, Underway
  <2>3. ~Ahead("commit", "")
    BY <2>2, NotEmpty DEF Ahead
  <2> QED  BY <2>1, <2>3 DEF IInv, Committed
<1>2. cmd.name = "new" /\ cmd.status = "failed" => dir # "project"
  BY DEF IInv, Committed
<1>3. accidents = 0 /\ Idle =>
        /\ \A p \in Platforms : fs.platform[p] \notin {"half-made", "created"}
        /\ "half-made" \notin fs.web
        /\ checkout # "cloned"
  BY DEF IInv, HalfDone, Idle, Running
<1> QED  BY <1>1, <1>2, <1>3 DEF WholeOrNothing

\* `godash new` makes a project that is committed, or none, and only a failure
\* or an interruption leaves a platform or a checkout half done.
THEOREM WholeOrNothingHolds == Spec => []WholeOrNothing
BY Invariance, Whole, PTL

LEMMA Kept ==
  ASSUME IInv, [Next]_vars
  PROVE  /\ fs.entry = "custom" /\ dir' = "project" => fs'.entry = "custom"
         /\ cmd.name = "upgrade" /\ cmd.status = "running" /\ head'.user # head.user =>
              head.user = cmd.user
<1>1. TypeOK /\ Underway /\ Committed
  BY DEF IInv
<1>2. cmd.name = "upgrade" /\ cmd.status = "running" => head.user = cmd.user
  BY <1>1 DEF Committed, Idle
<1> SUFFICES ASSUME fs.entry = "custom", dir' = "project" PROVE fs'.entry = "custom"
  BY <1>2
<1>3. CASE Stepped
  BY <1>3 DEF Stepped, Changes
<1>4. CASE Template
  BY <1>1, <1>4 DEF Template, Underway, Running, Idle
<1>5. CASE \/ RunScaffold \/ RunPrepare \/ RunProto \/ RunWeb \/ RunNative \/ RunLib
           \/ RunClean \/ RunReset \/ RunUpgrade
  BY <1>5 DEF RunScaffold, RunPrepare, RunProto, RunWeb, RunNative, RunLib, RunClean,
              RunReset, RunUpgrade, Start
<1>6. CASE StepFails
  <2>1. fs' \in PartlyDone \/ Stops
    BY <1>6 DEF StepFails
  <2>2. Stops => fs' \in PartlyDone \/ dir' = "none"
    BY DEF Stops, PartlyDone
  <2> QED  BY <1>1, <2>1, <2>2, PartFacts
<1>7. CASE Interrupt
  BY <1>1, <1>7, PartFacts DEF Interrupt
<1>8. CASE EditSource \/ EditEntry \/ EditProtos
  <2>1. fs \in FileTypes
    BY <1>1 DEF TypeOK
  <2>2. \/ fs' = [fs EXCEPT !.user = @ + 1] \/ fs' = [fs EXCEPT !.entry = "custom"]
        \/ \E protos \in Protos : fs' = [fs EXCEPT !.protos = protos]
    BY <1>8 DEF EditSource, EditEntry, EditProtos, Edit
  <2> QED  BY <2>1, <2>2 DEF FileTypes
<1>9. CASE UserCommits
  BY <1>9 DEF UserCommits
<1>10. CASE UNCHANGED vars
  BY <1>10 DEF vars
<1> QED  BY <1>1, <1>3, <1>4, <1>5, <1>6, <1>7, <1>8, <1>9, <1>10, PlainSteps, CodeSteps,
            OtherSteps DEF Next

\* No command overwrites the developer's entrypoint, and the commit of `godash
\* upgrade` takes nothing that was uncommitted when it started.
THEOREM UserWorkKeptHolds == Spec => UserWorkKept
<1>1. IInv /\ [Next]_vars =>
        [/\ fs.entry = "custom" /\ dir' = "project" => fs'.entry = "custom"
         /\ cmd.name = "upgrade" /\ cmd.status = "running" /\ head'.user # head.user =>
              head.user = cmd.user]_vars
  BY Kept
<1> QED  BY <1>1, Invariance, PTL DEF Spec, UserWorkKept
=============================================================================
