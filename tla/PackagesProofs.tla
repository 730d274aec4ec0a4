--------------------------- MODULE PackagesProofs ---------------------------
(***************************************************************************)
(* Proofs about Packages: for any packages, directories, requests,         *)
(* workloads and faults, whatever the format.                              *)
(*                                                                         *)
(* Safe is inductive.  Its parts say what is true of the state (StateSafe), *)
(* of the requests to one instance that fetch the same file (Alone), and of *)
(* each request at the step it is at (Own).  TagsSafe is inductive together *)
(* with it and speaks of the dist-tags of npm.  A lemma <action>Safe shows *)
(* each action to keep Safe; most follow from one of five lemmas on what an *)
(* action touches: SilentSafe (no records or indexes), GrownSafe (indexes  *)
(* and files are added), DoneSafe (the request is answered), StepSafe      *)
(* (anything, given that nothing another request relies on is taken away)  *)
(* and IdleSafe.                                                           *)
(* The formats are instances of modules of their own, whose operators are  *)
(* those of PackageRepo: <Format>Words says so.                            *)
(***************************************************************************)
EXTENDS Packages, TLAPS

-----------------------------------------------------------------------------
(* What is true of every request and of the state at every moment.         *)

Places == Dirs \cup {Root}
Tokens == Reqs \cup {None}
Single(list) == \A e, f \in list : e.pkg = f.pkg => e = f

\* A request is a record, whatever its fields hold.
Request(W) ==
    [pc : W, cur : W, proxy : W, at : W, dir : W, todo : W, list : W, merged : W, key : W, next : W, pkg : W,
     depth : W, answer : W]
IsRequest(x) == \E W : x \in Request(W)
Shaped ==
    \E W : /\ reqs \in [DOMAIN reqs -> Request(W)]
           /\ extra \in [claims : W, docs : W, tags : W, old : W] /\ keys \in [priv : W, pub : W]
Kept == \E W : extra \in [claims : W, docs : W, tags : W, old : W] /\ keys \in [priv : W, pub : W]

\* A request that has not begun, or is answered.
Blank(q, x) ==
    /\ x.cur = Ask[q].repo /\ x.proxy = Ask[q].repo /\ x.at = 1 /\ x.dir = Root
    /\ x.todo = {} /\ x.list = {} /\ x.merged = {} /\ x.key = None /\ x.next = None

Fits(q, x) ==
    /\ x.cur \in Spots /\ x.proxy \in Spots /\ x.at \in Nat \ {0} /\ x.dir \in Places /\ x.key \in Tokens
    /\ x.merged \subseteq Entries
    /\ x.pc \notin {"version", "tags"} => (x.list = None /\ x.pc = "refreshed") \/ x.list \subseteq Entries
    /\ x.pc = "version" => x.pkg \in Pkgs
    /\ x.pc = "scan" => x.todo \subseteq Pkgs
    /\ x.pc \in {"write", "commit", "snap files", "snap commit"} => x.todo \subseteq Places
    /\ x.pc = "commit" => x.dir \in x.todo
    /\ x.pc \in {"propagating", "resigning"} => x.todo \subseteq Spots
    /\ x.pc = "propagating" => x.next \in {"done", "timestamp", "lazy", "refreshed", "merged"}
    /\ x.pc = "start" => Blank(q, x)

\* What a merged index of helm or npm is made from has a version once.
Apart(x) ==
    format \in {"helm", "npm"} =>
      /\ x.pc # "keep" => Single(x.merged)
      /\ x.pc \in {"scan", "write", "commit"} => Single(x.list)
      /\ x.pc = "scan" => \A e \in x.list : e.pkg \notin x.todo
      /\ x.pc = "refreshed" \/ (x.pc = "propagating" /\ x.next = "refreshed") => x.list = None \/ Single(x.list)

\* What a commit point is about to name is stored.
Stored(x) ==
    "divided" \notin risk =>
      /\ x.pc = "commit" => [spot |-> x.cur, dir |-> x.dir, list |-> In(x.cur, x.list, x.dir, x.depth)] \in files
      /\ x.pc = "snap files" /\ format = "apt" => [spot |-> Hosted, dir |-> Root, list |-> x.list] \in files
      /\ x.pc = "snap commit" =>
           [spot |-> Snap, dir |-> IF format = "apt" THEN Root ELSE x.dir, list |-> x.list] \in files
      /\ x.pc \notin {"changed", "delete"}

\* What a version document or a zip is about to name is stored.
Parted(q, x) ==
    /\ (format = "npm" /\ "deleted" \notin risk /\ x.pc = "version") => Holding(Hosted, x.pkg) # {}
    /\ (format = "golang" /\ x.pc = "zip") => Described(Hosted, Ask[q].pkg)

\* A leader has the claim of its instance and package.  From its second look on
\* nobody has stored the package, when no other instance is asked for it.
Leads(x) == x.pc \in {"recheck", "fetch", "store"}
Claimed(q, x) ==
    format = "pypi" =>
      /\ Leads(x) => Claim(q) \in extra.claims
      /\ x.pc \in {"fetch", "store"} => (SameInstance(q) => Holding(Cache, Ask[q].pkg) = {})
      /\ x.pc = "store" => \A e \in x.list : e.pkg = Ask[q].pkg
Own(q, x) == Fits(q, x) /\ Apart(x) /\ Stored(x) /\ Parted(q, x) /\ Claimed(q, x)

Alone ==
    format = "pypi" => \A p, q \in DOMAIN reqs : (Leads(reqs[p]) /\ Leads(reqs[q]) /\ Claim(p) = Claim(q)) => p = q

File == [spot : Spots, dir : Places, list : SUBSET Entries]
StateTyped ==
    /\ format \in Formats /\ DOMAIN reqs \subseteq Reqs
    /\ recs \subseteq [repo : Repos, pkg : Pkgs, val : Tokens] /\ flags \subseteq Spots
    /\ \A i \in index : i.spot \in Spots /\ i.dir \in Places /\ i.list \subseteq Entries /\ i.key \in Tokens
    /\ files \subseteq File
    /\ offer \subseteq Entries /\ fresh \in BOOLEAN /\ depth \in {0, 1} /\ (format # "yum" => depth = 0)
    /\ keys \in [priv : Tokens, pub : Tokens]
    /\ \A d \in extra.docs : d.repo \in Repos /\ d.pkg \in Pkgs /\ d.val \in Tokens
    /\ extra.old \subseteq Spots
    /\ faults \in 0 .. MaxFaults
StateApart ==
    /\ Single(offer)
    /\ \A x, y \in recs : (x.repo = y.repo /\ x.pkg = y.pkg) => x = y
    /\ format = "npm" => \A x, y \in extra.docs : (x.repo = y.repo /\ x.pkg = y.pkg) => x = y
    /\ format \in {"helm", "npm"} => \A i \in index : Single(i.list)
StateSafe == StateTyped /\ StateApart /\ IndexServable /\ PartsInOrder

Safe == Shaped /\ StateSafe /\ Alone /\ \A q \in DOMAIN reqs : Own(q, reqs[q])

-----------------------------------------------------------------------------
(* Steps of one request.                                                   *)

\* The request r becomes y; others may be woken.
Turned(r, y) ==
    /\ reqs' = [q \in DOMAIN reqs |-> reqs'[q]] /\ reqs'[r] = y
    /\ \A q \in DOMAIN reqs \ {r} :
         \/ reqs'[q] = reqs[q]
         \/ \E p \in {"try", "lost"} : reqs[q].pc \in {"wait", "late"} /\ reqs'[q] = [reqs[q] EXCEPT !.pc = p]

\* Nothing that another request relies on is taken away.
Mono(r) ==
    /\ format' = format /\ risk \subseteq risk'
    /\ "divided" \notin risk' => depth' = depth /\ files \subseteq files'
    /\ (format = "npm" /\ "deleted" \notin risk') => \A p : Holding(Hosted, p) # {} => Holding(Hosted, p)' # {}
    /\ format \in {"npm", "golang"} => \A repo, p : Described(repo, p) => Described(repo, p)'
    /\ format = "pypi" =>
         \A q \in DOMAIN reqs \ {r} :
           /\ Leads(reqs[q]) => Claim(q) \in extra'.claims
           /\ reqs[q].pc \in {"fetch", "store"} => (SameInstance(q) => Holding(Cache, Ask[q].pkg)' = {})

\* The records, the indexes and what goes with them stay.
Silent ==
    /\ format' = format /\ risk \subseteq risk' /\ faults' \in 0 .. MaxFaults
    /\ flags' \subseteq Spots /\ fresh' \in BOOLEAN /\ keys' \in [priv : Tokens, pub : Tokens]
    /\ UNCHANGED <<recs, index, files, offer, depth, extra>>

\* Files are added, and commit points that name stored files.
Grown ==
    /\ format' = format /\ risk \subseteq risk' /\ faults' \in 0 .. MaxFaults
    /\ flags' \subseteq Spots /\ fresh' \in BOOLEAN
    /\ extra' \in [claims : {extra.claims}, docs : {extra.docs}, tags : {extra.tags}, old : SUBSET Spots]
    /\ UNCHANGED <<recs, offer, keys, depth>>
    /\ files \subseteq files'
    /\ files' \ files \subseteq File
    /\ \A i \in index' \ index :
         /\ i.spot \in Spots /\ i.dir \in Places /\ i.list \subseteq Entries /\ i.key \in Tokens
         /\ format \in {"helm", "npm"} => Single(i.list)
         /\ ("divided" \notin risk /\ i.spot # Cache) => [spot |-> i.spot, dir |-> i.dir, list |-> i.list] \in files'
\* A request stays a record when some of its fields are replaced.
LEMMA ShapePc ==
    ASSUME NEW W, NEW x \in Request(W), NEW a
    PROVE  IsRequest([x EXCEPT !.pc = a])
<1>1. [x EXCEPT !.pc = a] \in Request(W \cup {a})
  BY DEF Request
<1> QED BY <1>1 DEF IsRequest

LEMMA ShapePcAnswer ==
    ASSUME NEW W, NEW x \in Request(W), NEW a, NEW b
    PROVE  IsRequest([x EXCEPT !.pc = a, !.answer = b])
<1>1. [x EXCEPT !.pc = a, !.answer = b] \in Request(W \cup {a, b})
  BY DEF Request
<1> QED BY <1>1 DEF IsRequest

LEMMA ShapePcCur ==
    ASSUME NEW W, NEW x \in Request(W), NEW a, NEW b
    PROVE  IsRequest([x EXCEPT !.pc = a, !.cur = b])
<1>1. [x EXCEPT !.pc = a, !.cur = b] \in Request(W \cup {a, b})
  BY DEF Request
<1> QED BY <1>1 DEF IsRequest

LEMMA ShapePcCurKey ==
    ASSUME NEW W, NEW x \in Request(W), NEW a, NEW b, NEW c
    PROVE  IsRequest([x EXCEPT !.pc = a, !.cur = b, !.key = c])
<1>1. [x EXCEPT !.pc = a, !.cur = b, !.key = c] \in Request(W \cup {a, b, c})
  BY DEF Request
<1> QED BY <1>1 DEF IsRequest

LEMMA ShapePcKey ==
    ASSUME NEW W, NEW x \in Request(W), NEW a, NEW b
    PROVE  IsRequest([x EXCEPT !.pc = a, !.key = b])
<1>1. [x EXCEPT !.pc = a, !.key = b] \in Request(W \cup {a, b})
  BY DEF Request
<1> QED BY <1>1 DEF IsRequest

LEMMA ShapePcList ==
    ASSUME NEW W, NEW x \in Request(W), NEW a, NEW b
    PROVE  IsRequest([x EXCEPT !.pc = a, !.list = b])
<1>1. [x EXCEPT !.pc = a, !.list = b] \in Request(W \cup {a, b})
  BY DEF Request
<1> QED BY <1>1 DEF IsRequest

LEMMA ShapePcListKey ==
    ASSUME NEW W, NEW x \in Request(W), NEW a, NEW b, NEW c
    PROVE  IsRequest([x EXCEPT !.pc = a, !.list = b, !.key = c])
<1>1. [x EXCEPT !.pc = a, !.list = b, !.key = c] \in Request(W \cup {a, b, c})
  BY DEF Request
<1> QED BY <1>1 DEF IsRequest

LEMMA ShapePcTodo ==
    ASSUME NEW W, NEW x \in Request(W), NEW a, NEW b
    PROVE  IsRequest([x EXCEPT !.pc = a, !.todo = b])
<1>1. [x EXCEPT !.pc = a, !.todo = b] \in Request(W \cup {a, b})
  BY DEF Request
<1> QED BY <1>1 DEF IsRequest

LEMMA ShapePcTodoList ==
    ASSUME NEW W, NEW x \in Request(W), NEW a, NEW b, NEW c
    PROVE  IsRequest([x EXCEPT !.pc = a, !.todo = b, !.list = c])
<1>1. [x EXCEPT !.pc = a, !.todo = b, !.list = c] \in Request(W \cup {a, b, c})
  BY DEF Request
<1> QED BY <1>1 DEF IsRequest

LEMMA ShapePcTodoNext ==
    ASSUME NEW W, NEW x \in Request(W), NEW a, NEW b, NEW c
    PROVE  IsRequest([x EXCEPT !.pc = a, !.todo = b, !.next = c])
<1>1. [x EXCEPT !.pc = a, !.todo = b, !.next = c] \in Request(W \cup {a, b, c})
  BY DEF Request
<1> QED BY <1>1 DEF IsRequest

LEMMA ShapePcDir ==
    ASSUME NEW W, NEW x \in Request(W), NEW a, NEW b
    PROVE  IsRequest([x EXCEPT !.pc = a, !.dir = b])
<1>1. [x EXCEPT !.pc = a, !.dir = b] \in Request(W \cup {a, b})
  BY DEF Request
<1> QED BY <1>1 DEF IsRequest

LEMMA ShapePcDirTodo ==
    ASSUME NEW W, NEW x \in Request(W), NEW a, NEW b, NEW c
    PROVE  IsRequest([x EXCEPT !.pc = a, !.dir = b, !.todo = c])
<1>1. [x EXCEPT !.pc = a, !.dir = b, !.todo = c] \in Request(W \cup {a, b, c})
  BY DEF Request
<1> QED BY <1>1 DEF IsRequest

LEMMA ShapePcDirList ==
    ASSUME NEW W, NEW x \in Request(W), NEW a, NEW b, NEW c
    PROVE  IsRequest([x EXCEPT !.pc = a, !.dir = b, !.list = c])
<1>1. [x EXCEPT !.pc = a, !.dir = b, !.list = c] \in Request(W \cup {a, b, c})
  BY DEF Request
<1> QED BY <1>1 DEF IsRequest

LEMMA ShapePcAt ==
    ASSUME NEW W, NEW x \in Request(W), NEW a, NEW b
    PROVE  IsRequest([x EXCEPT !.pc = a, !.at = b])
<1>1. [x EXCEPT !.pc = a, !.at = b] \in Request(W \cup {a, b})
  BY DEF Request
<1> QED BY <1>1 DEF IsRequest

LEMMA ShapePcAtMerged ==
    ASSUME NEW W, NEW x \in Request(W), NEW a, NEW b, NEW c
    PROVE  IsRequest([x EXCEPT !.pc = a, !.at = b, !.merged = c])
<1>1. [x EXCEPT !.pc = a, !.at = b, !.merged = c] \in Request(W \cup {a, b, c})
  BY DEF Request
<1> QED BY <1>1 DEF IsRequest

LEMMA ShapePcAtCurMerged ==
    ASSUME NEW W, NEW x \in Request(W), NEW a, NEW b, NEW c, NEW d
    PROVE  IsRequest([x EXCEPT !.pc = a, !.at = b, !.cur = c, !.merged = d])
<1>1. [x EXCEPT !.pc = a, !.at = b, !.cur = c, !.merged = d] \in Request(W \cup {a, b, c, d})
  BY DEF Request
<1> QED BY <1>1 DEF IsRequest

LEMMA ShapePcAtTodoListNextMerged ==
    ASSUME NEW W, NEW x \in Request(W), NEW a, NEW b, NEW c, NEW d, NEW e, NEW f
    PROVE  IsRequest([x EXCEPT !.pc = a, !.at = b, !.todo = c, !.list = d, !.next = e, !.merged = f])
<1>1. [x EXCEPT !.pc = a, !.at = b, !.todo = c, !.list = d, !.next = e, !.merged = f] \in Request(W \cup {a, b, c, d, e, f})
  BY DEF Request
<1> QED BY <1>1 DEF IsRequest

LEMMA ShapePcTodoListNext ==
    ASSUME NEW W, NEW x \in Request(W), NEW a, NEW b, NEW c, NEW d
    PROVE  IsRequest([x EXCEPT !.pc = a, !.todo = b, !.list = c, !.next = d])
<1>1. [x EXCEPT !.pc = a, !.todo = b, !.list = c, !.next = d] \in Request(W \cup {a, b, c, d})
  BY DEF Request
<1> QED BY <1>1 DEF IsRequest

LEMMA ShapePcProxyCurAt ==
    ASSUME NEW W, NEW x \in Request(W), NEW a, NEW b, NEW c, NEW d
    PROVE  IsRequest([x EXCEPT !.pc = a, !.proxy = b, !.cur = c, !.at = d])
<1>1. [x EXCEPT !.pc = a, !.proxy = b, !.cur = c, !.at = d] \in Request(W \cup {a, b, c, d})
  BY DEF Request
<1> QED BY <1>1 DEF IsRequest

LEMMA ShapePcProxyAtMerged ==
    ASSUME NEW W, NEW x \in Request(W), NEW a, NEW b, NEW c, NEW d
    PROVE  IsRequest([x EXCEPT !.pc = a, !.proxy = b, !.at = c, !.merged = d])
<1>1. [x EXCEPT !.pc = a, !.proxy = b, !.at = c, !.merged = d] \in Request(W \cup {a, b, c, d})
  BY DEF Request
<1> QED BY <1>1 DEF IsRequest

LEMMA ShapePcProxyAtMergedListTodo ==
    ASSUME NEW W, NEW x \in Request(W), NEW a, NEW b, NEW c, NEW d, NEW e, NEW f
    PROVE  IsRequest([x EXCEPT !.pc = a, !.proxy = b, !.at = c, !.merged = d, !.list = e, !.todo = f])
<1>1. [x EXCEPT !.pc = a, !.proxy = b, !.at = c, !.merged = d, !.list = e, !.todo = f] \in Request(W \cup {a, b, c, d, e, f})
  BY DEF Request
<1> QED BY <1>1 DEF IsRequest

LEMMA ShapeTodo ==
    ASSUME NEW W, NEW x \in Request(W), NEW a
    PROVE  IsRequest([x EXCEPT !.todo = a])
<1>1. [x EXCEPT !.todo = a] \in Request(W \cup {a})
  BY DEF Request
<1> QED BY <1>1 DEF IsRequest

LEMMA ShapeAtMerged ==
    ASSUME NEW W, NEW x \in Request(W), NEW a, NEW b
    PROVE  IsRequest([x EXCEPT !.at = a, !.merged = b])
<1>1. [x EXCEPT !.at = a, !.merged = b] \in Request(W \cup {a, b})
  BY DEF Request
<1> QED BY <1>1 DEF IsRequest

LEMMA ShapeListMerged ==
    ASSUME NEW W, NEW x \in Request(W), NEW a, NEW b
    PROVE  IsRequest([x EXCEPT !.list = a, !.merged = b])
<1>1. [x EXCEPT !.list = a, !.merged = b] \in Request(W \cup {a, b})
  BY DEF Request
<1> QED BY <1>1 DEF IsRequest

LEMMA ShapePcCurList ==
    ASSUME NEW W, NEW x \in Request(W), NEW a, NEW b, NEW c
    PROVE  IsRequest([x EXCEPT !.pc = a, !.cur = b, !.list = c])
<1>1. [x EXCEPT !.pc = a, !.cur = b, !.list = c] \in Request(W \cup {a, b, c})
  BY DEF Request
<1> QED BY <1>1 DEF IsRequest

LEMMA ShapePcDepth ==
    ASSUME NEW W, NEW x \in Request(W), NEW a, NEW b
    PROVE  IsRequest([x EXCEPT !.pc = a, !.depth = b])
<1>1. [x EXCEPT !.pc = a, !.depth = b] \in Request(W \cup {a, b})
  BY DEF Request
<1> QED BY <1>1 DEF IsRequest

LEMMA ShapePcPkgTodoList ==
    ASSUME NEW W, NEW x \in Request(W), NEW a, NEW b, NEW c, NEW d
    PROVE  IsRequest([x EXCEPT !.pc = a, !.pkg = b, !.todo = c, !.list = d])
<1>1. [x EXCEPT !.pc = a, !.pkg = b, !.todo = c, !.list = d] \in Request(W \cup {a, b, c, d})
  BY DEF Request
<1> QED BY <1>1 DEF IsRequest

LEMMA ShapePcProxyAtMergedDepth ==
    ASSUME NEW W, NEW x \in Request(W), NEW a, NEW b, NEW c, NEW d, NEW e
    PROVE  IsRequest([x EXCEPT !.pc = a, !.proxy = b, !.at = c, !.merged = d, !.depth = e])
<1>1. [x EXCEPT !.pc = a, !.proxy = b, !.at = c, !.merged = d, !.depth = e] \in Request(W \cup {a, b, c, d, e})
  BY DEF Request
<1> QED BY <1>1 DEF IsRequest

\* Whether all requests for a package are sent to one instance does not change.
LEMMA SameStays == ASSUME NEW q, DOMAIN reqs' = DOMAIN reqs PROVE SameInstance(q)' <=> SameInstance(q)
BY DEF SameInstance

\* What another request relies on is still there after a step of r.
LEMMA OthersOwn ==
    ASSUME Safe, NEW r \in DOMAIN reqs, NEW y, Turned(r, y), Mono(r)
    PROVE  \A q \in DOMAIN reqs \ {r} : Own(q, reqs[q])'
<1> SUFFICES ASSUME NEW q \in DOMAIN reqs \ {r} PROVE Own(q, reqs[q])'
  OBVIOUS
<1> PICK W : reqs \in [DOMAIN reqs -> Request(W)]
  BY DEF Safe, Shaped
<1>0. Own(q, reqs[q])
  BY DEF Safe
<1>1. reqs'[q] = reqs[q] \/ \E p \in {"try", "lost"} : reqs[q].pc \in {"wait", "late"} /\ reqs'[q] = [reqs[q] EXCEPT !.pc = p]
  BY DEF Turned
<1>2. Fits(q, reqs[q])'
  BY <1>0, <1>1 DEF Own, Fits, Request, Mono, Blank
<1>3. Apart(reqs[q])'
  BY <1>0, <1>1 DEF Own, Apart, Request, Mono
<1>4. Stored(reqs[q])'
  BY <1>0, <1>1 DEF Own, Stored, Request, Mono, In, DirFor
<1>5. Parted(q, reqs[q])'
  BY <1>0, <1>1 DEF Own, Parted, Request, Mono
<1>6. Claimed(q, reqs[q])'
  <2>1. SameInstance(q)' => SameInstance(q)
    BY SameStays DEF Turned
  <2>2. Claim(q)' = Claim(q)
    BY DEF Claim
  <2> QED BY <1>0, <1>1, <2>1, <2>2 DEF Own, Claimed, Request, Mono, Leads
<1> QED BY <1>2, <1>3, <1>4, <1>5, <1>6 DEF Own

\* The types of the records are kept.
LEMMA TurnedShaped ==
    ASSUME Safe, NEW r \in DOMAIN reqs, NEW y, IsRequest(y), Turned(r, y),
           NEW V, extra' \in [claims : V, docs : V, tags : V, old : V], keys' \in [priv : V, pub : V]
    PROVE  Shaped'
<1> PICK W : /\ reqs \in [DOMAIN reqs -> Request(W)]
             /\ extra \in [claims : W, docs : W, tags : W, old : W] /\ keys \in [priv : W, pub : W]
  BY DEF Safe, Shaped
<1> PICK Y : y \in Request(Y)
  BY DEF IsRequest
<1> DEFINE U == W \cup V \cup Y \cup {"try", "lost"}
<1>1. y \in Request(U)
  BY DEF Request
<1>2. \A q \in DOMAIN reqs \ {r} : reqs'[q] \in Request(U)
  <2> SUFFICES ASSUME NEW q \in DOMAIN reqs \ {r} PROVE reqs'[q] \in Request(U)
    OBVIOUS
  <2>1. reqs[q] \in Request(W)
    OBVIOUS
  <2>2. \A p \in {"try", "lost"} : [reqs[q] EXCEPT !.pc = p] \in Request(U)
    BY <2>1 DEF Request
  <2>3. reqs[q] \in Request(U)
    BY <2>1 DEF Request
  <2> QED BY <2>2, <2>3 DEF Turned
<1>3. DOMAIN reqs' = DOMAIN reqs /\ reqs' \in [DOMAIN reqs -> Request(U)]
  BY <1>1, <1>2 DEF Turned
<1>4. extra' \in [claims : U, docs : U, tags : U, old : U] /\ keys' \in [priv : U, pub : U]
  OBVIOUS
<1> QED BY <1>3, <1>4 DEF Shaped

\* A step that leaves records and indexes alone.
LEMMA SilentSafe ==
    ASSUME Safe, NEW r \in DOMAIN reqs, NEW y, IsRequest(y), Turned(r, y), Silent, Own(r, y),
           format = "pypi" => (Leads(y) => Leads(reqs[r]))
    PROVE  Safe'
<1>1. Mono(r)
  <2>1. Alone /\ \A q \in DOMAIN reqs : Claimed(q, reqs[q])
    BY DEF Safe, Own
  <2> QED BY <2>1 DEF Mono, Silent, Described, Holding, Listed, Claimed
<1>2. \A q \in DOMAIN reqs \ {r} : Own(q, reqs[q])'
  BY <1>1, OthersOwn
<1>3. Own(r, reqs[r])'
  <2>0. reqs'[r] = y
    BY DEF Turned
  <2>1. \A s, l, d, n : In(s, l, d, n)' = In(s, l, d, n)
    BY DEF In, DirFor
  <2>2. \A repo, p : Holding(repo, p)' = Holding(repo, p)
    BY DEF Silent, Holding, Listed
  <2>3. Fits(r, reqs[r])'
    BY <2>0 DEF Own, Fits, Blank
  <2>4. Apart(reqs[r])'
    BY <2>0 DEF Own, Apart, Silent
  <2>5. Stored(reqs[r])'
    BY <2>0, <2>1 DEF Own, Stored, Silent
  <2>6. Parted(r, reqs[r])'
    BY <2>0, <2>2 DEF Own, Parted, Silent, Described
  <2>7. Claimed(r, reqs[r])'
    <3>1. SameInstance(r)' => SameInstance(r)
      BY SameStays DEF Turned
    <3>2. Claim(r)' = Claim(r)
      BY DEF Claim
    <3> QED BY <2>0, <2>2, <3>1, <3>2 DEF Own, Claimed, Silent, Leads
  <2> QED BY <2>3, <2>4, <2>5, <2>6, <2>7 DEF Own
<1>4. DOMAIN reqs' = DOMAIN reqs
  BY DEF Turned
<1>5. StateSafe'
  <2>1. StateTyped'
    BY <1>4 DEF Safe, StateSafe, StateTyped, Silent
  <2>2. StateApart'
    BY DEF Safe, StateSafe, StateApart, Silent
  <2>3. IndexServable'
    BY DEF Safe, StateSafe, IndexServable, Silent
  <2>4. PartsInOrder'
    <3>1. \A repo, p : Holding(repo, p)' = Holding(repo, p)
      BY DEF Silent, Holding, Listed
    <3> QED BY <3>1 DEF Safe, StateSafe, PartsInOrder, Described, Silent
  <2> QED BY <2>1, <2>2, <2>3, <2>4 DEF StateSafe
<1>6. Alone'
  <2>1. ASSUME NEW q \in DOMAIN reqs, format = "pypi" PROVE Leads(reqs'[q]) => Leads(reqs[q])
    <3> PICK W : reqs \in [DOMAIN reqs -> Request(W)]
      BY DEF Safe, Shaped
    <3> QED BY <2>1 DEF Turned, Leads, Request
  <2> QED BY <1>4, <2>1 DEF Alone, Safe, Silent, Leads, Claim
<1>7. Shaped'
  <2> PICK V : extra \in [claims : V, docs : V, tags : V, old : V]
    BY DEF Safe, Shaped
  <2> QED BY TurnedShaped, extra' \in [claims : V \cup Tokens, docs : V \cup Tokens, tags : V \cup Tokens, old : V \cup Tokens], 
             keys' \in [priv : V \cup Tokens, pub : V \cup Tokens] DEF Silent
<1> QED BY <1>2, <1>3, <1>4, <1>5, <1>6, <1>7 DEF Safe

\* Any step that takes nothing away from others.
LEMMA StepSafe ==
    ASSUME Safe, NEW r \in DOMAIN reqs, NEW y, IsRequest(y), Turned(r, y), Mono(r), StateSafe', Kept',
           Own(r, reqs[r])', format = "pypi" => (Leads(y) => Leads(reqs[r]))
    PROVE  Safe'
<1>1. \A q \in DOMAIN reqs \ {r} : Own(q, reqs[q])'
  BY OthersOwn
<1>2. DOMAIN reqs' = DOMAIN reqs
  BY DEF Turned
<1>3. Alone'
  <2>1. ASSUME NEW q \in DOMAIN reqs, format = "pypi" PROVE Leads(reqs'[q]) => Leads(reqs[q])
    <3> PICK W : reqs \in [DOMAIN reqs -> Request(W)]
      BY DEF Safe, Shaped
    <3> QED BY <2>1 DEF Turned, Leads, Request
  <2> QED BY <1>2, <2>1 DEF Alone, Safe, Mono, Leads, Claim
<1>4. Shaped'
  BY TurnedShaped DEF Kept
<1> QED BY <1>1, <1>2, <1>3, <1>4 DEF Safe

\* A step that adds files, and commit points that name stored files.
LEMMA GrownSafe ==
    ASSUME Safe, NEW r \in DOMAIN reqs, NEW y, IsRequest(y), Turned(r, y), Grown, Own(r, reqs[r])',
           format = "pypi" => (Leads(y) => Leads(reqs[r]))
    PROVE  Safe'
<1>0. extra'.claims = extra.claims /\ extra'.docs = extra.docs /\ extra'.tags = extra.tags /\ extra'.old \subseteq Spots
  BY DEF Grown
<1>1. Mono(r)
  <2>1. Alone /\ \A q \in DOMAIN reqs : Claimed(q, reqs[q])
    BY DEF Safe, Own
  <2> QED BY <1>0, <2>1 DEF Mono, Grown, Described, Holding, Listed, Claimed
<1>2. StateSafe'
  <2>0. DOMAIN reqs' = DOMAIN reqs
    BY DEF Turned
  <2>1. StateTyped'
    <3>1. \A i \in index' : i.spot \in Spots /\ i.dir \in Places /\ i.list \subseteq Entries /\ i.key \in Tokens
      BY DEF Grown, Safe, StateSafe, StateTyped
    <3>2. files' \subseteq File
      BY DEF Grown, Safe, StateSafe, StateTyped
    <3> QED BY <1>0, <2>0, <3>1, <3>2 DEF Safe, StateSafe, StateTyped, Grown
  <2>2. StateApart'
    <3>1. format \in {"helm", "npm"} => \A i \in index' : Single(i.list)
      BY DEF Grown, Safe, StateSafe, StateApart
    <3> QED BY <1>0, <3>1 DEF Safe, StateSafe, StateApart, Grown
  <2>3. IndexServable'
    BY DEF Safe, StateSafe, IndexServable, Grown
  <2>4. PartsInOrder'
    <3>1. \A repo, p : Holding(repo, p)' = Holding(repo, p)
      BY DEF Grown, Holding, Listed
    <3> QED BY <1>0, <3>1 DEF Safe, StateSafe, PartsInOrder, Described, Grown
  <2> QED BY <2>1, <2>2, <2>3, <2>4 DEF StateSafe
<1>3. Kept'
  <2> PICK V : extra \in [claims : V, docs : V, tags : V, old : V]  /\ keys \in [priv : V, pub : V]
    BY DEF Safe, Shaped
  <2> DEFINE U == V \cup {extra'.old}
  <2>1. extra' \in [claims : U, docs : U, tags : U, old : U] /\ keys' \in [priv : U, pub : U]
    BY DEF Grown
  <2> QED BY <2>1 DEF Kept
<1> QED BY <1>1, <1>2, <1>3, StepSafe

LEMMA SameKept == ASSUME Safe, UNCHANGED <<extra, keys>> PROVE Kept'
BY DEF Safe, Shaped, Kept

LEMMA ExtraKept ==
    ASSUME Safe, UNCHANGED keys, NEW a, extra' = [extra EXCEPT !.claims = a] \/ extra' = [extra EXCEPT !.docs = a]
                    \/ extra' = [extra EXCEPT !.tags = a] \/ extra' = [extra EXCEPT !.old = a]
    PROVE  Kept'
<1> PICK V : extra \in [claims : V, docs : V, tags : V, old : V]  /\ keys \in [priv : V, pub : V]
  BY DEF Safe, Shaped
<1> DEFINE U == V \cup {a}
<1>1. extra' \in [claims : U, docs : U, tags : U, old : U] /\ keys' \in [priv : U, pub : U]
  OBVIOUS
<1> QED BY <1>1 DEF Kept

LEMMA StartRequest ==
    ASSUME NEW r PROVE \E W : Start(r) \in Request(W)
<1> DEFINE W == {"start", Ask[r].repo, Ask[r].pkg, 0, 1, Root, {}, None}
<1> WITNESS W
<1> QED BY DEF Start, Request

\* A request that is done relies on nothing, before a step or after it.
Over(r, y) == Blank(r, y) /\ y.pc = "done" /\ IsRequest(y)
LEMMA DoneOver ==
    ASSUME NEW r, NEW what
    PROVE  Over(r, [Start(r) EXCEPT !.pc = "done", !.answer = what])
BY StartRequest, ShapePcAnswer DEF Over, Start, Blank

LEMMA DoneOwn ==
    ASSUME NEW r \in Reqs, NEW y, Over(r, y)
    PROVE  Own(r, y) /\ Own(r, y)' /\ ~Leads(y)
<1>1. Ask[r].repo \in Spots
  BY PackageAssumption
<1>2. y.pc = "done" /\ Fits(r, y)
  BY <1>1 DEF Over, Blank, Fits, Places, Tokens
<1>3. Apart(y) /\ Apart(y)'
  BY DEF Apart, Over, Blank, Single
<1> QED BY <1>2, <1>3 DEF Own, Stored, Parted, Claimed, Leads, Fits, Blank

LEMMA OverOwn ==
    ASSUME NEW r \in Reqs, NEW y, Over(r, y), reqs'[r] = y
    PROVE  Own(r, reqs[r])' /\ ~Leads(y) /\ IsRequest(y)
BY DoneOwn DEF Over, Own, Fits, Blank, Apart, Stored, Parted, Claimed, Leads, Single

LEMMA ReplyOver ==
    ASSUME Safe, NEW r \in DOMAIN reqs, NEW what, Reply(r, what)
    PROVE  \E y : Over(r, y) /\ Turned(r, y)
<1> PICK W : reqs \in [DOMAIN reqs -> Request(W)]
  BY DEF Safe, Shaped
<1>1. Turned(r, [Start(r) EXCEPT !.pc = "done", !.answer = what])
  BY DEF Reply, Turned
<1> QED BY <1>1, DoneOver

\* A request that is answered relies on nothing.
LEMMA DoneSafe ==
    ASSUME Safe, NEW r \in DOMAIN reqs, NEW y, Over(r, y), Turned(r, y), Silent
    PROVE  Safe'
BY DoneOwn, SilentSafe DEF Safe, StateSafe, StateTyped, Over

LEMMA ReplySafe ==
    ASSUME Safe, NEW r \in DOMAIN reqs, NEW what, Reply(r, what), Silent
    PROVE  Safe'
BY ReplyOver, DoneSafe

\* A request goes on to a step that relies on nothing.
Aside == {"serve", "lazy", "flag", "clear", "members", "taken", "merge", "merged", "refresh", "proxy clear", "try",
          "claim", "late", "wait", "link", "pages", "page", "public", "resign", "rebuilt", "snapshot", "stored", "loaded",
          "member", "publish", "keep tags"}
\* At most steps a request relies on nothing in the state.
LEMMA AsideOwn ==
    ASSUME NEW r, NEW y, y.pc \in Aside, y.cur \in Spots, y.proxy \in Spots, y.at \in Nat \ {0}, y.dir \in Places, y.key \in Tokens,
           y.merged \subseteq Entries, y.list \subseteq Entries, format \in {"helm", "npm"} => Single(y.merged)
    PROVE  Own(r, y) /\ ~Leads(y)
<1>1. Fits(r, y)
  BY DEF Fits, Aside
<1>2. Apart(y)
  BY DEF Apart, Aside
<1>3. Stored(y) /\ Parted(r, y) /\ Claimed(r, y) /\ ~Leads(y)
  BY DEF Stored, Parted, Claimed, Leads, Aside
<1> QED BY <1>1, <1>2, <1>3 DEF Own

LEMMA OwnFits ==
    ASSUME Safe, NEW r \in DOMAIN reqs
    PROVE  /\ reqs[r].cur \in Spots /\ reqs[r].proxy \in Spots /\ reqs[r].at \in Nat \ {0} /\ reqs[r].dir \in Places
           /\ reqs[r].key \in Tokens /\ reqs[r].merged \subseteq Entries
           /\ reqs[r].pc \notin {"version", "tags", "refreshed"} => reqs[r].list \subseteq Entries
           /\ (format \in {"helm", "npm"} /\ reqs[r].pc # "keep") => Single(reqs[r].merged)
BY DEF Safe, Own, Fits, Apart

\* A request that goes on to such a step.
LEMMA GotoOwn ==
    ASSUME Safe, NEW r \in DOMAIN reqs, NEW pc \in Aside, reqs[r].pc \notin {"version", "tags", "refreshed", "keep"}
    PROVE  Own(r, [reqs[r] EXCEPT !.pc = pc])
<1> PICK W : reqs \in [DOMAIN reqs -> Request(W)]
  BY DEF Safe, Shaped
<1>1. Own(r, reqs[r])
  BY DEF Safe
<1> QED BY <1>1 DEF Own, Fits, Apart, Stored, Parted, Claimed, Leads, Aside, Request

LEMMA GotoSafe ==
    ASSUME Safe, NEW r \in DOMAIN reqs, NEW pc \in Aside, reqs[r].pc \notin {"version", "tags", "refreshed", "keep"},
           Goto(r, pc), Silent
    PROVE  Safe'
<1> PICK W : reqs \in [DOMAIN reqs -> Request(W)]
  BY DEF Safe, Shaped
<1>1. Turned(r, [reqs[r] EXCEPT !.pc = pc]) /\ IsRequest([reqs[r] EXCEPT !.pc = pc])
  BY ShapePc DEF Goto, Turned, Request
<1>2. [reqs[r] EXCEPT !.pc = pc].pc = pc
  BY DEF Request
<1> QED BY <1>1, <1>2, GotoOwn, SilentSafe DEF Leads, Aside

-----------------------------------------------------------------------------
(* The steps that all or several formats have: they keep what is safe.      *)

LEMMA InReqs == ASSUME Safe, NEW r \in DOMAIN reqs PROVE r \in Reqs /\ Ask[r].repo \in Spots /\ Ask[r].pkg \in Pkgs
BY PackageAssumption DEF Safe, StateSafe, StateTyped

LEMMA QuietSilent ==
    ASSUME Safe, Quiet, UNCHANGED state
    PROVE  Silent
BY DEF Quiet, state, Silent, Safe, StateSafe, StateTyped

LEMMA FaultSilent ==
    ASSUME Safe, NEW kind, Fault(kind), UNCHANGED <<format, state>>
    PROVE  Silent
<1>1. faults' \in 0 .. MaxFaults
  BY PackageAssumption DEF Fault, Safe, StateSafe, StateTyped
<1> QED BY <1>1 DEF Fault, state, Silent, Safe, StateSafe, StateTyped

LEMMA AgainSafe ==
    ASSUME Safe, NEW r \in DOMAIN reqs, Again(r)
    PROVE  Safe'
<1> PICK W : reqs \in [DOMAIN reqs -> Request(W)]
  BY DEF Safe, Shaped
<1>1. Turned(r, Start(r))
  BY DEF Again, Turned
<1>2. Silent
  BY QuietSilent DEF Again
<1>3. IsRequest(Start(r))
  BY StartRequest DEF IsRequest
<1>4. Own(r, Start(r))
  BY InReqs DEF Own, Fits, Blank, Apart, Stored, Parted, Claimed, Leads, Start, Single, Places, Tokens
<1>5. ~Leads(Start(r))
  BY DEF Leads, Start
<1> QED BY <1>1, <1>2, <1>3, <1>4, <1>5, SilentSafe

LEMMA rejectedSafe ==
    ASSUME Safe, NEW r \in DOMAIN reqs, rejected(r)
    PROVE  Safe'
BY ReplySafe, QuietSilent DEF rejected

LEMMA unsupportedSafe ==
    ASSUME Safe, NEW r \in DOMAIN reqs, unsupported(r)
    PROVE  Safe'
BY ReplySafe, QuietSilent DEF unsupported

\* A record is put: what the formats with a record only have to show.
LEMMA PutRecTyped ==
    ASSUME Safe, NEW repo \in Repos, NEW p \in Pkgs, NEW v \in Tokens, PutRec(repo, p, v)
    PROVE  /\ recs' \subseteq [repo : Repos, pkg : Pkgs, val : Tokens]
           /\ \A x, y \in recs' : (x.repo = y.repo /\ x.pkg = y.pkg) => x = y
           /\ \A s, n : s # repo \/ n # p => Holding(s, n)' = Holding(s, n)
           /\ Holding(repo, p)' = {Entry(p, v)}
<1> DEFINE new == [repo |-> repo, pkg |-> p, val |-> v]
<1>1. recs \subseteq [repo : Repos, pkg : Pkgs, val : Tokens] /\ \A x, y \in recs : (x.repo = y.repo /\ x.pkg = y.pkg) => x = y
  BY DEF Safe, StateSafe, StateTyped, StateApart
<1>2. recs' = {a \in recs : a.repo # repo \/ a.pkg # p} \cup {new}
  BY DEF PutRec
<1>3. new \in [repo : Repos, pkg : Pkgs, val : Tokens] /\ new.repo = repo /\ new.pkg = p /\ new.val = v
  OBVIOUS
<1> HIDE DEF new
<1>4. recs' \subseteq [repo : Repos, pkg : Pkgs, val : Tokens] /\ \A x, y \in recs' : (x.repo = y.repo /\ x.pkg = y.pkg) => x = y
  BY <1>1, <1>2, <1>3
<1>5. \A s, n : Holding(s, n) = {Entry(a.pkg, a.val) : a \in {b \in recs : b.repo = s /\ b.pkg = n}}
  BY DEF Holding, Listed, Entry
<1>6. \A s, n : Holding(s, n)' = {Entry(a.pkg, a.val) : a \in {b \in recs' : b.repo = s /\ b.pkg = n}}
  BY DEF Holding, Listed, Entry
<1>7. ASSUME NEW s, NEW n, s # repo \/ n # p PROVE Holding(s, n)' = Holding(s, n)
  <2>1. {b \in recs' : b.repo = s /\ b.pkg = n} = {b \in recs : b.repo = s /\ b.pkg = n}
    BY <1>2, <1>3, <1>7
  <2> QED BY <1>5, <1>6, <2>1
<1>8. Holding(repo, p)' = {Entry(p, v)}
  <2>1. {b \in recs' : b.repo = repo /\ b.pkg = p} = {new}
    BY <1>2, <1>3
  <2> QED BY <1>3, <1>6, <2>1
<1> QED BY <1>4, <1>7, <1>8

LEMMA CommitRecordSafe ==
    ASSUME Safe, NEW r \in DOMAIN reqs, CommitRecord(r), format \in {"apt", "yum", "helm", "pypi"}
    PROVE  Safe'
<1> PICK W : reqs \in [DOMAIN reqs -> Request(W)]
  BY DEF Safe, Shaped
<1> DEFINE y == [reqs[r] EXCEPT !.pc = "flag", !.cur = Hosted]
<1>1. Turned(r, y) /\ IsRequest(y)
  BY ShapePcCur DEF CommitRecord, Turned
<1>2. /\ recs' \subseteq [repo : Repos, pkg : Pkgs, val : Tokens]
      /\ \A a, b \in recs' : (a.repo = b.repo /\ a.pkg = b.pkg) => a = b
      /\ \A s, n : s # Hosted \/ n # Ask[r].pkg => Holding(s, n)' = Holding(s, n)
  BY PutRecTyped, InReqs DEF CommitRecord, Repos, Tokens
<1>3. Mono(r)
  <2>1. Alone /\ \A q \in DOMAIN reqs : Claimed(q, reqs[q])
    BY DEF Safe, Own
  <2>2. Hosted # Cache
    BY PackageAssumption
  <2> QED BY <1>2, <2>1, <2>2 DEF Mono, CommitRecord, Quiet, Claimed, Described
<1>4. StateSafe'
  <2>1. StateTyped'
    BY <1>1, <1>2 DEF Safe, StateSafe, StateTyped, CommitRecord, Quiet, Turned
  <2>2. StateApart'
    BY <1>2 DEF Safe, StateSafe, StateApart, CommitRecord, Quiet
  <2>3. IndexServable' /\ PartsInOrder'
    BY DEF Safe, StateSafe, IndexServable, PartsInOrder, CommitRecord, Quiet
  <2> QED BY <2>1, <2>2, <2>3 DEF StateSafe
<1>5. Own(r, reqs[r])'
  <2>1. reqs'[r] = y
    BY <1>1 DEF Turned
  <2>2. Own(r, reqs[r])
    BY DEF Safe
  <2>3. reqs[r].pc = "start"
    BY DEF CommitRecord, upload_preamble, Asks, At
  <2>4. Fits(r, reqs[r])'
    BY <2>1, <2>2, <2>3 DEF Own, Fits, Request, Spots, Repos
  <2>5. Apart(reqs[r])'
    BY <2>1, <2>2, <2>3 DEF Own, Apart, Request, CommitRecord, Quiet
  <2>6. Stored(reqs[r])' /\ Parted(r, reqs[r])' /\ Claimed(r, reqs[r])'
    BY <2>1 DEF Stored, Parted, Claimed, Leads, Request
  <2> QED BY <2>4, <2>5, <2>6 DEF Own
<1>6. Kept' /\ ~Leads(y)
  BY SameKept DEF CommitRecord, Leads, Request
<1> QED BY <1>1, <1>3, <1>4, <1>5, <1>6, StepSafe

LEMMA AncestorSpots == ASSUME NEW repo PROVE Ancestors(repo) \subseteq Proxies /\ Proxies \subseteq Spots
BY DEF Ancestors, Parents, Spots, Repos, Proxies

\* The proxies above a repository are listed (propagate_staleness).
LEMMA PropagateOwn ==
    ASSUME Safe, NEW r \in DOMAIN reqs, reqs[r].pc \notin {"version", "tags", "refreshed", "keep"}, NEW from,
           NEW then \in {"done", "timestamp", "lazy", "merged"}
    PROVE  LET y == [reqs[r] EXCEPT !.pc = "propagating", !.todo = Ancestors(from), !.next = then] IN
           Own(r, y) /\ IsRequest(y) /\ ~Leads(y)
<1> PICK W : reqs \in [DOMAIN reqs -> Request(W)]
  BY DEF Safe, Shaped
<1>1. Own(r, reqs[r])
  BY DEF Safe
<1>2. Ancestors(from) \subseteq Spots
  BY AncestorSpots
<1> QED BY <1>1, <1>2, ShapePcTodoNext DEF Own, Fits, Apart, Stored, Parted, Claimed, Leads, Request

LEMMA SetFlagSafe ==
    ASSUME Safe, NEW r \in DOMAIN reqs, NEW from, NEW then \in {"done", "timestamp", "lazy"}, SetFlag(r, from, then)
    PROVE  Safe'
<1> PICK W : reqs \in [DOMAIN reqs -> Request(W)]
  BY DEF Safe, Shaped
<1> DEFINE y == [reqs[r] EXCEPT !.pc = "propagating", !.todo = Ancestors(from), !.next = then]
<1>1. Turned(r, y)
  BY DEF SetFlag, Propagate, Turned
<1>2. Own(r, y) /\ IsRequest(y) /\ ~Leads(y)
  BY PropagateOwn DEF SetFlag, At
<1>3. Silent
  BY DEF SetFlag, Silent, Safe, StateSafe, StateTyped, Own, Fits, Addressed
<1> QED BY <1>1, <1>2, <1>3, SilentSafe

LEMMA FlagAloneSafe ==
    ASSUME Safe, NEW r \in DOMAIN reqs, FlagAlone(r)
    PROVE  Safe'
<1>1. Silent
  BY DEF FlagAlone, Silent, Safe, StateSafe, StateTyped, Spots, Repos
<1> QED BY <1>1, ReplySafe DEF FlagAlone

LEMMA propagateSafe ==
    ASSUME Safe, NEW r \in DOMAIN reqs, propagate_staleness(r)
    PROVE  Safe'
<1> PICK W : reqs \in [DOMAIN reqs -> Request(W)]
  BY DEF Safe, Shaped
<1>0. At(r, "propagating") /\ Own(r, reqs[r])
  BY DEF propagate_staleness, Safe
<1>1. Silent
  BY <1>0 DEF propagate_staleness, Silent, Quiet, Safe, StateSafe, StateTyped, Own, Fits, At
<1>2. CASE Reply(r, "ok")
  BY <1>1, <1>2, ReplySafe
<1>3. CASE Goto(r, reqs[r].next) /\ reqs[r].next # "done"
  <2> DEFINE y == [reqs[r] EXCEPT !.pc = reqs[r].next]
  <2>1. Turned(r, y) /\ IsRequest(y)
    BY <1>3, ShapePc DEF Goto, Turned
  <2>2. Own(r, y) /\ ~Leads(y)
    BY <1>0, <1>3 DEF Own, Fits, Apart, Stored, Parted, Claimed, Leads, Request, At
  <2> QED BY <1>1, <2>1, <2>2, SilentSafe
<1>4. CASE \E p \in reqs[r].todo : reqs' = [reqs EXCEPT ![r].todo = @ \ {p}]
  <2> PICK p \in reqs[r].todo : reqs' = [reqs EXCEPT ![r].todo = @ \ {p}]
    BY <1>4
  <2> DEFINE y == [reqs[r] EXCEPT !.todo = @ \ {p}]
  <2>1. Turned(r, y) /\ IsRequest(y)
    BY ShapeTodo DEF Turned
  <2>2. Own(r, y) /\ ~Leads(y)
    BY <1>0 DEF Own, Fits, Apart, Stored, Parted, Claimed, Leads, Request, At
  <2> QED BY <1>1, <2>1, <2>2, SilentSafe
<1> QED BY <1>2, <1>3, <1>4 DEF propagate_staleness

LEMMA deleteSafe ==
    ASSUME Safe, NEW r \in DOMAIN reqs, delete(r)
    PROVE  Safe'
<1> PICK W : reqs \in [DOMAIN reqs -> Request(W)]
  BY DEF Safe, Shaped
<1>0. /\ recs' = {a \in recs : a.repo # Hosted \/ a.pkg # Ask[r].pkg}
      /\ format' = format /\ risk \subseteq risk' /\ UNCHANGED <<faults, flags, index, files, offer, fresh, keys, depth, extra>>
      /\ reqs[r].pc = "start"
  BY DEF delete, Asks, At
<1>1. recs' \subseteq recs
  BY <1>0
<1>2. format = "npm" => "deleted" \in risk'
  BY DEF delete
<1>3. \A n : Holding(Cache, n)' \subseteq Holding(Cache, n)
  BY <1>1 DEF Holding, Listed, Entry
<1>4. Mono(r)
  <2>1. Alone /\ \A q \in DOMAIN reqs : Claimed(q, reqs[q])
    BY DEF Safe, Own
  <2>2. (format = "npm" /\ "deleted" \notin risk') => \A p : Holding(Hosted, p) # {} => Holding(Hosted, p)' # {}
    BY <1>2
  <2>3. ASSUME NEW q \in DOMAIN reqs \ {r}, format = "pypi"
        PROVE  /\ Leads(reqs[q]) => Claim(q) \in extra'.claims
               /\ reqs[q].pc \in {"fetch", "store"} => (SameInstance(q) => Holding(Cache, Ask[q].pkg)' = {})
    BY <1>0, <1>3, <2>1, <2>3 DEF Claimed
  <2>4. \A repo, p : Described(repo, p) => Described(repo, p)'
    BY <1>0 DEF Described
  <2> QED BY <1>0, <2>2, <2>3, <2>4 DEF Mono
<1>5. DOMAIN reqs' = DOMAIN reqs
  BY DEF delete, Goto, Reply
<1>6. StateSafe'
  <2>1. StateTyped'
    BY <1>0, <1>1, <1>5 DEF Safe, StateSafe, StateTyped
  <2>2. StateApart'
    BY <1>0, <1>1 DEF Safe, StateSafe, StateApart
  <2>3. IndexServable'
    BY <1>0 DEF Safe, StateSafe, IndexServable
  <2>4. PartsInOrder'
    BY <1>0, <1>1, <1>2 DEF Safe, StateSafe, PartsInOrder, Described
  <2> QED BY <2>1, <2>2, <2>3, <2>4 DEF StateSafe
<1>7. Kept'
  BY <1>0, SameKept
<1>8. CASE Goto(r, "flag")
  <2> DEFINE y == [reqs[r] EXCEPT !.pc = "flag"]
  <2>1. Turned(r, y) /\ IsRequest(y) /\ y.pc = "flag"
    BY <1>8, ShapePc DEF Goto, Turned, Request
  <2>2. Own(r, reqs[r])
    BY DEF Safe
  <2>3. Own(r, reqs[r])' /\ ~Leads(y)
    BY <1>0, <2>1, <2>2 DEF Turned, Own, Fits, Apart, Stored, Parted, Claimed, Leads, Request
  <2> QED BY <1>4, <1>6, <1>7, <2>1, <2>3, StepSafe
<1>9. CASE Reply(r, "ok")
  <2> PICK y : Over(r, y) /\ Turned(r, y)
    BY <1>9, ReplyOver
  <2>1. Own(r, reqs[r])' /\ ~Leads(y) /\ IsRequest(y)
    BY InReqs, OverOwn DEF Turned
  <2> QED BY <1>4, <1>6, <1>7, <2>1, StepSafe
<1> QED BY <1>8, <1>9 DEF delete

-----------------------------------------------------------------------------
(* The rebuild of an index.                                                *)

LEMMA ClearFlagSafe ==
    ASSUME Safe, NEW r \in DOMAIN reqs, ClearFlag(r)
    PROVE  Safe'
<1> PICK W : reqs \in [DOMAIN reqs -> Request(W)]
  BY DEF Safe, Shaped
<1> DEFINE y == [reqs[r] EXCEPT !.pc = "scan", !.todo = Pkgs, !.list = {}]
<1>1. Turned(r, y) /\ IsRequest(y)
  BY ShapePcTodoList DEF ClearFlag, Turned
<1>2. Own(r, reqs[r]) /\ reqs[r].pc = "clear"
  BY DEF Safe, ClearFlag, At
<1>3. Own(r, y) /\ ~Leads(y)
  BY <1>2 DEF Own, Fits, Apart, Stored, Parted, Claimed, Leads, Request, Single
<1>4. Silent
  BY DEF ClearFlag, Overlap, Silent, Safe, StateSafe, StateTyped
<1> QED BY <1>1, <1>3, <1>4, SilentSafe

\* What a repository lists has each package once.
LEMMA ListedFits ==
    ASSUME Safe, NEW repo
    PROVE  Listed(repo) \subseteq Entries /\ Single(Listed(repo)) /\ \A p : Single(Holding(repo, p)) /\ Holding(repo, p) \subseteq Entries
<1>1. recs \subseteq [repo : Repos, pkg : Pkgs, val : Tokens] /\ \A x, y \in recs : (x.repo = y.repo /\ x.pkg = y.pkg) => x = y
  BY DEF Safe, StateSafe, StateTyped, StateApart
<1>2. Listed(repo) \subseteq Entries
  BY <1>1 DEF Listed, Entry, Entries, Tokens
<1>3. Single(Listed(repo))
  BY <1>1 DEF Listed, Entry, Single
<1> QED BY <1>2, <1>3 DEF Holding, Single

LEMMA ScanShardSafe ==
    ASSUME Safe, NEW r \in DOMAIN reqs, At(r, "scan"), NEW p \in reqs[r].todo, NEW list, NEW dirs \in SUBSET Places,
           list = reqs[r].list \cup {e \in Listed(reqs[r].cur) : e.pkg = p},
           reqs' = [reqs EXCEPT ![r].list = list, ![r].pc = IF reqs[r].todo = {p} THEN "write" ELSE "scan",
                                ![r].todo = IF reqs[r].todo = {p} THEN dirs ELSE @ \ {p}],
           Quiet, UNCHANGED state
    PROVE  Safe'
<1> PICK W : reqs \in [DOMAIN reqs -> Request(W)]
  BY DEF Safe, Shaped
<1> DEFINE y == [reqs[r] EXCEPT !.pc = IF reqs[r].todo = {p} THEN "write" ELSE "scan",
                                !.todo = IF reqs[r].todo = {p} THEN dirs ELSE @ \ {p}, !.list = list]
<1>1. Turned(r, y)
  BY DEF Turned
<1>2. IsRequest(y)
  BY ShapePcTodoList
<1>3. Own(r, reqs[r]) /\ reqs[r].pc = "scan" /\ reqs[r].todo \subseteq Pkgs
  BY DEF Safe, At, Own, Fits
<1>4. list \subseteq Entries
  BY <1>3, ListedFits DEF Own, Fits
<1>5. format \in {"helm", "npm"} => Single(list) /\ \A e \in list : e.pkg \notin reqs[r].todo \ {p}
  <2> SUFFICES ASSUME format \in {"helm", "npm"} PROVE Single(list) /\ \A e \in list : e.pkg \notin reqs[r].todo \ {p}
    OBVIOUS
  <2>1. Single(reqs[r].list) /\ \A e \in reqs[r].list : e.pkg \notin reqs[r].todo
    BY <1>3 DEF Own, Apart
  <2>2. Single(Listed(reqs[r].cur))
    BY ListedFits
  <2>3. \A e \in list : e \in reqs[r].list \/ (e \in Listed(reqs[r].cur) /\ e.pkg = p)
    OBVIOUS
  <2>4. Single(list)
    <3> SUFFICES ASSUME NEW e \in list, NEW f \in list, e.pkg = f.pkg PROVE e = f
      BY DEF Single
    <3>1. CASE e \in reqs[r].list /\ f \in reqs[r].list
      BY <2>1, <3>1 DEF Single
    <3>2. CASE e \in Listed(reqs[r].cur) /\ f \in Listed(reqs[r].cur)
      BY <2>2, <3>2 DEF Single
    <3> QED BY <2>1, <2>3, <3>1, <3>2
  <2> QED BY <2>1, <2>3, <2>4
<1>6. Fits(r, y)
  BY <1>3, <1>4 DEF Own, Fits, Request
<1>7. Apart(y)
  BY <1>3, <1>5 DEF Own, Apart, Request
<1>8. Stored(y) /\ Parted(r, y) /\ Claimed(r, y) /\ ~Leads(y)
  BY DEF Stored, Parted, Claimed, Leads, Request
<1> QED BY <1>1, <1>2, <1>6, <1>7, <1>8, QuietSilent, SilentSafe DEF Own

LEMMA WriteFilesSafe ==
    ASSUME Safe, NEW r \in DOMAIN reqs, WriteFiles(r)
    PROVE  Safe'
<1> PICK W : reqs \in [DOMAIN reqs -> Request(W)]
  BY DEF Safe, Shaped
<1> PICK d \in reqs[r].todo :
         /\ files' = files \cup {[spot |-> reqs[r].cur, dir |-> d, list |-> Part(r, d)]}
         /\ reqs' = [reqs EXCEPT ![r].pc = "commit", ![r].dir = d]
  BY DEF WriteFiles
<1> PICK y : y = [reqs[r] EXCEPT !.pc = "commit", !.dir = d]
  OBVIOUS
<1>0. reqs[r].pc = "write" /\ Quiet /\ UNCHANGED <<recs, flags, index, offer, fresh, keys, depth, extra>>
  BY DEF WriteFiles, At
<1>1. Turned(r, y) /\ IsRequest(y)
  BY ShapePcDir DEF Turned
<1>2. Own(r, reqs[r]) /\ d \in Places /\ reqs[r].cur \in Spots /\ reqs[r].list \subseteq Entries
  BY <1>0 DEF Safe, Own, Fits
<1>3. Part(r, d) \subseteq Entries
  BY <1>2 DEF Part, In
<1>4. Grown
  BY <1>0, <1>2, <1>3 DEF Grown, File, Quiet, Safe, StateSafe, StateTyped, Shaped
<1>5. Own(r, reqs[r])'
  <2>1. reqs'[r] = y
    BY <1>1 DEF Turned
  <2>2. /\ y.pc = "commit" /\ y.dir = d /\ y.cur = reqs[r].cur /\ y.list = reqs[r].list /\ y.proxy = reqs[r].proxy
        /\ y.at = reqs[r].at /\ y.key = reqs[r].key /\ y.merged = reqs[r].merged /\ y.todo = reqs[r].todo
        /\ y.depth = reqs[r].depth
    BY DEF Request
  <2>3. Fits(r, reqs[r])'
    BY <1>0, <1>2, <2>1, <2>2 DEF Own, Fits
  <2>4. Apart(reqs[r])'
    BY <1>0, <1>2, <2>1 DEF Own, Apart, Request, Quiet
  <2>5. Stored(reqs[r])'
    <3>1. \A s, l, dir, n : In(s, l, dir, n)' = In(s, l, dir, n)
      BY DEF In, DirFor
    <3>2. [spot |-> y.cur, dir |-> y.dir, list |-> In(y.cur, y.list, y.dir, y.depth)] \in files'
      BY <2>2 DEF Part
    <3> QED BY <2>1, <2>2, <3>1, <3>2 DEF Stored
  <2>6. Parted(r, reqs[r])' /\ Claimed(r, reqs[r])'
    BY <2>1, <2>2 DEF Parted, Claimed, Leads
  <2> QED BY <2>3, <2>4, <2>5, <2>6 DEF Own
<1>6. ~Leads(y)
  BY DEF Leads, Request
<1> QED BY <1>1, <1>4, <1>5, <1>6, GrownSafe

\* A commit point that names a stored file (store_index of every format).
LEMMA PutIndexTyped ==
    ASSUME Safe, NEW spot \in Spots, NEW dir \in Places, NEW list, list \subseteq Entries, NEW key \in Tokens,
           PutIndex(spot, dir, list, key), format \in {"helm", "npm"} => Single(list),
           ("divided" \notin risk /\ spot # Cache) => [spot |-> spot, dir |-> dir, list |-> list] \in files',
           format' = format, risk \subseteq risk', faults' \in 0 .. MaxFaults, flags' \subseteq Spots, fresh' \in BOOLEAN,
           extra' \in [claims : {extra.claims}, docs : {extra.docs}, tags : {extra.tags}, old : SUBSET Spots],
           UNCHANGED <<recs, offer, keys, depth>>, files \subseteq files',
           files' \ files \subseteq File
    PROVE  Grown
<1> DEFINE new == [spot |-> spot, dir |-> dir, list |-> list, key |-> key]
<1>1. \A i \in index' \ index : i = new
  BY DEF PutIndex
<1> QED BY <1>1 DEF Grown

LEMMA ExtraStays == ASSUME Safe, UNCHANGED extra
  PROVE extra' \in [claims : {extra.claims}, docs : {extra.docs}, tags : {extra.tags}, old : SUBSET Spots]
BY DEF Safe, Shaped, StateSafe, StateTyped

\* After a rebuild the request goes on with its members, or serves.
LEMMA RebuiltOwn ==
    ASSUME Safe, NEW r \in DOMAIN reqs, NEW then \in Aside, Rebuilt(r, then), reqs[r].pc # "keep", format' = format
    PROVE  \E y : IsRequest(y) /\ Turned(r, y) /\ Own(r, y) /\ Own(r, y)' /\ ~Leads(y) /\ y.pc \in {then, "taken"}
<1> PICK W : reqs \in [DOMAIN reqs -> Request(W)]
  BY DEF Safe, Shaped
<1> PICK V : Start(r) \in Request(V)
  BY StartRequest
<1> PICK y : y = [Start(r) EXCEPT !.pc = IF OfMember(r) THEN "taken" ELSE then, !.proxy = reqs[r].proxy,
                                 !.at = reqs[r].at, !.merged = reqs[r].merged, !.depth = reqs[r].depth]
  OBVIOUS
<1>1. Turned(r, y)
  BY DEF Rebuilt, Turned
<1>2. IsRequest(y)
  BY ShapePcProxyAtMergedDepth
<1>3. /\ y.pc \in Aside /\ y.pc \in {then, "taken"} /\ y.cur = Ask[r].repo /\ y.proxy = reqs[r].proxy /\ y.at = reqs[r].at /\ y.dir = Root
      /\ y.list = {} /\ y.merged = reqs[r].merged /\ y.key = None
  BY DEF Start, Aside
<1>4. Own(r, reqs[r]) /\ Ask[r].repo \in Spots
  BY InReqs DEF Safe
<1>5. Fits(r, y)
  BY <1>3, <1>4 DEF Own, Fits, Aside, Places, Tokens
<1>6. Apart(y) /\ Apart(y)'
  BY <1>3, <1>4 DEF Own, Apart, Aside
<1>7. Stored(y) /\ Parted(r, y) /\ Claimed(r, y) /\ Stored(y)' /\ Parted(r, y)' /\ Claimed(r, y)' /\ ~Leads(y)
  BY <1>3 DEF Stored, Parted, Claimed, Leads, Aside
<1> QED BY <1>1, <1>2, <1>3, <1>5, <1>6, <1>7 DEF Own

LEMMA CommitIndexSafe ==
    ASSUME Safe, NEW r \in DOMAIN reqs, NEW then \in Aside, CommitIndex(r, then)
    PROVE  Safe'
<1> PICK W : reqs \in [DOMAIN reqs -> Request(W)]
  BY DEF Safe, Shaped
<1> DEFINE d == reqs[r].dir
           list == Part(r, d)
<1>1. /\ reqs[r].pc = "commit" /\ Quiet /\ UNCHANGED <<recs, flags, files, offer, fresh, keys, depth, extra>>
      /\ PutIndex(reqs[r].cur, d, list, reqs[r].key)
  BY DEF CommitIndex, At
<1>2. Own(r, reqs[r])
  BY DEF Safe
<1>3. Grown
  <2>1. reqs[r].cur \in Spots /\ d \in Places /\ list \subseteq Entries /\ reqs[r].key \in Tokens
    BY <1>1, <1>2 DEF Own, Fits, In, Part
  <2>2. format \in {"helm", "npm"} => Single(list)
    BY <1>1, <1>2 DEF Own, Apart, In, Part, Single
  <2>3. "divided" \notin risk => [spot |-> reqs[r].cur, dir |-> d, list |-> list] \in files'
    BY <1>1, <1>2 DEF Own, Stored, Part
  <2> QED BY <1>1, <2>1, <2>2, <2>3, PutIndexTyped, ExtraStays DEF Quiet, Safe, StateSafe, StateTyped
<1>4. CASE Rebuilt(r, then)
  <2> PICK y : IsRequest(y) /\ Turned(r, y) /\ Own(r, y)' /\ ~Leads(y)
    BY <1>1, <1>4, RebuiltOwn DEF Quiet
  <2>1. Own(r, reqs[r])'
    BY DEF Turned
  <2> QED BY <1>3, <2>1, GrownSafe
<1>5. CASE reqs' = [reqs EXCEPT ![r].pc = "write", ![r].todo = @ \ {d}, ![r].dir = Root]
  <2> PICK y : y = [reqs[r] EXCEPT !.pc = "write", !.dir = Root, !.todo = @ \ {d}]
    OBVIOUS
  <2>1. Turned(r, y) /\ IsRequest(y)
    BY <1>5, ShapePcDirTodo DEF Turned
  <2>2. /\ y.pc = "write" /\ y.dir = Root /\ y.cur = reqs[r].cur /\ y.list = reqs[r].list /\ y.proxy = reqs[r].proxy
        /\ y.at = reqs[r].at /\ y.key = reqs[r].key /\ y.merged = reqs[r].merged /\ y.todo \subseteq reqs[r].todo
    BY DEF Request
  <2>3. reqs'[r] = y
    BY <2>1 DEF Turned
  <2>4. Fits(r, reqs[r])'
    BY <1>1, <1>2, <2>2, <2>3 DEF Own, Fits, Places
  <2>5. Apart(reqs[r])'
    BY <1>1, <1>2, <2>2, <2>3 DEF Own, Apart, Quiet
  <2>6. Own(r, reqs[r])' /\ ~Leads(y)
    BY <2>2, <2>3, <2>4, <2>5 DEF Own, Stored, Parted, Claimed, Leads
  <2> QED BY <1>3, <2>1, <2>6, GrownSafe
<1> QED BY <1>4, <1>5 DEF CommitIndex

LEMMA NoIndexSafe ==
    ASSUME Safe, NEW r \in DOMAIN reqs, NEW then \in Aside, NoIndex(r, then)
    PROVE  Safe'
<1>1. Silent /\ format' = format /\ reqs[r].pc # "keep"
  BY QuietSilent DEF NoIndex, At, Quiet
<1> PICK y : IsRequest(y) /\ Turned(r, y) /\ Own(r, y) /\ ~Leads(y)
  BY <1>1, RebuiltOwn DEF NoIndex
<1> QED BY <1>1, SilentSafe

-----------------------------------------------------------------------------
(* The merged index of a proxy.                                            *)

LEMMA RebuildSafe ==
    ASSUME Safe, NEW r \in DOMAIN reqs, NEW repo \in Repos, Rebuild(r, repo), Silent, reqs[r].pc \in {"members", "member"}
    PROVE  Safe'
<1> PICK W : reqs \in [DOMAIN reqs -> Request(W)]
  BY DEF Safe, Shaped
<1> PICK y : y = [reqs[r] EXCEPT !.pc = "clear", !.cur = repo, !.key = IF repo = Hosted THEN keys.priv ELSE None]
  OBVIOUS
<1>1. Turned(r, y) /\ IsRequest(y)
  BY ShapePcCurKey DEF Turned, Rebuild
<1>2. /\ y.pc = "clear" /\ y.dir = reqs[r].dir /\ y.cur = repo /\ y.list = reqs[r].list /\ y.proxy = reqs[r].proxy
      /\ y.at = reqs[r].at /\ y.key \in {keys.priv, None} /\ y.merged = reqs[r].merged
  BY DEF Request
<1>3. keys.priv \in Tokens /\ Own(r, reqs[r])
  BY DEF Safe, StateSafe, StateTyped
<1>4. Own(r, y) /\ ~Leads(y)
  BY <1>2, <1>3 DEF Own, Fits, Apart, Stored, Parted, Claimed, Leads, Tokens, Spots
<1> QED BY <1>1, <1>4, SilentSafe

LEMMA ProxyCheckSafe ==
    ASSUME Safe, NEW r \in DOMAIN reqs, ProxyCheck(r)
    PROVE  Safe'
BY GotoSafe, QuietSilent DEF ProxyCheck, Asks, At, Aside

LEMMA ProxyClearSafe ==
    ASSUME Safe, NEW r \in DOMAIN reqs, ProxyClear(r)
    PROVE  Safe'
<1>1. Silent
  BY DEF ProxyClear, Silent, Safe, StateSafe, StateTyped
<1> QED BY <1>1, GotoSafe DEF ProxyClear, At, Aside

LEMMA NextMemberSafe ==
    ASSUME Safe, NEW r \in DOMAIN reqs, NextMember(r), Silent, reqs[r].pc \in {"members", "taken"}
    PROVE  Safe'
<1> PICK W : reqs \in [DOMAIN reqs -> Request(W)]
  BY DEF Safe, Shaped
<1> PICK y : y = [reqs[r] EXCEPT !.pc = "members", !.at = @ + 1]
  OBVIOUS
<1>1. Turned(r, y) /\ IsRequest(y)
  BY ShapePcAt DEF Turned, NextMember
<1>2. /\ y.pc = "members" /\ y.dir = reqs[r].dir /\ y.cur = reqs[r].cur /\ y.list = reqs[r].list /\ y.proxy = reqs[r].proxy
      /\ y.at = reqs[r].at + 1 /\ y.key = reqs[r].key /\ y.merged = reqs[r].merged
  BY DEF Request
<1>3. reqs[r].at + 1 \in Nat \ {0}
  BY OwnFits
<1>4. /\ y.pc \in Aside /\ y.cur \in Spots /\ y.proxy \in Spots /\ y.at \in Nat \ {0} /\ y.dir \in Places /\ y.key \in Tokens
      /\ y.merged \subseteq Entries /\ y.list \subseteq Entries /\ (format \in {"helm", "npm"} => Single(y.merged))
  BY <1>2, <1>3, OwnFits DEF Aside
<1>5. Own(r, y) /\ ~Leads(y)
  BY <1>4, AsideOwn
<1> QED BY <1>1, <1>5, SilentSafe

LEMMA MemberFailsSafe ==
    ASSUME Safe, NEW r \in DOMAIN reqs, MemberFails(r)
    PROVE  Safe'
<1> PICK W : reqs \in [DOMAIN reqs -> Request(W)]
  BY DEF Safe, Shaped
<1> PICK V : Start(r) \in Request(V)
  BY StartRequest
<1> PICK y : y = [Start(r) EXCEPT !.pc = "taken", !.proxy = reqs[r].proxy, !.at = reqs[r].at, !.merged = reqs[r].merged]
  OBVIOUS
<1>1. Turned(r, y) /\ IsRequest(y)
  BY ShapePcProxyAtMerged DEF MemberFails, Turned
<1>2. /\ y.pc = "taken" /\ y.cur = Ask[r].repo /\ y.proxy = reqs[r].proxy /\ y.at = reqs[r].at /\ y.dir = Root
      /\ y.list = {} /\ y.merged = reqs[r].merged /\ y.key = None
  BY DEF Start
<1>3. Own(r, reqs[r]) /\ Ask[r].repo \in Spots /\ reqs[r].pc \in Rebuilding
  BY InReqs DEF Safe, MemberFails
<1>4. Own(r, y) /\ ~Leads(y)
  BY <1>2, <1>3 DEF Own, Fits, Apart, Stored, Parted, Claimed, Leads, Places, Tokens, Rebuilding
<1> QED BY <1>1, <1>4, SilentSafe, FaultSilent DEF MemberFails

\* What is found by way of a commit point is a list of entries.
LEMMA ServedFits ==
    ASSUME Safe, NEW spot, NEW dir
    PROVE  \/ Served(spot, dir) = None
           \/ /\ Served(spot, dir) \subseteq Entries
              /\ format \in {"helm", "npm"} => Single(Served(spot, dir))
<1> DEFINE found == {i \in CommitPoint(spot, dir) : [spot |-> spot, dir |-> dir, list |-> i.list] \in files}
<1>1. CASE found = {}
  BY <1>1 DEF Served
<1>2. CASE found # {}
  <2>1. (CHOOSE i \in found : TRUE) \in found
    BY <1>2
  <2>2. PICK i \in index : Served(spot, dir) = i.list
    BY <1>2, <2>1 DEF Served, CommitPoint
  <2> QED BY <2>2 DEF Safe, StateSafe, StateTyped, StateApart
<1> QED BY <1>1, <1>2

LEMMA MergeSafe ==
    ASSUME Safe, NEW r \in DOMAIN reqs, Merge(r), reqs[r].pc \in {"taken", "merge"}, format \in {"apt", "yum"}
    PROVE  Safe'
<1> PICK W : reqs \in [DOMAIN reqs -> Request(W)]
  BY DEF Safe, Shaped
<1> PICK found : found = Served(Member(r), Root)
  OBVIOUS
<1> PICK more : more = IF found = None THEN {} ELSE found
  OBVIOUS
<1> PICK y : y = [reqs[r] EXCEPT !.pc = IF @ = "taken" THEN "members" ELSE @, !.at = @ + 1, !.merged = @ \cup more]
  OBVIOUS
<1>1. Turned(r, y)
  BY DEF Turned, Merge
<1>2. IsRequest(y)
  BY ShapePcAtMerged
<1>3. /\ y.pc \in {"members", "merge"} /\ y.dir = reqs[r].dir /\ y.cur = reqs[r].cur /\ y.list = reqs[r].list /\ y.proxy = reqs[r].proxy
      /\ y.at = reqs[r].at + 1 /\ y.key = reqs[r].key /\ y.merged = reqs[r].merged \cup more
  BY DEF Request
<1>4. Own(r, reqs[r]) /\ more \subseteq Entries /\ reqs[r].at + 1 \in Nat \ {0}
  BY ServedFits, OwnFits DEF Safe
<1>5. Own(r, y) /\ ~Leads(y)
  <2>1. /\ y.pc \in Aside /\ y.cur \in Spots /\ y.proxy \in Spots /\ y.at \in Nat \ {0} /\ y.dir \in Places /\ y.key \in Tokens
        /\ y.merged \subseteq Entries /\ y.list \subseteq Entries
    BY <1>3, <1>4, OwnFits DEF Aside
  <2> QED BY <2>1, AsideOwn
<1>6. Silent
  BY DEF Merge, state, Silent, Overlap, Safe, StateSafe, StateTyped
<1> QED BY <1>1, <1>2, <1>5, <1>6, SilentSafe

LEMMA ProxyWriteSafe ==
    ASSUME Safe, NEW r \in DOMAIN reqs, ProxyWrite(r), Silent, format \in {"apt", "yum"}
    PROVE  Safe'
<1> PICK W : reqs \in [DOMAIN reqs -> Request(W)]
  BY DEF Safe, Shaped
<1> PICK V : Start(r) \in Request(V)
  BY StartRequest
<1> PICK y : y = [Start(r) EXCEPT !.pc = "write", !.todo = {Root}, !.list = reqs[r].merged]
  OBVIOUS
<1>1. Turned(r, y) /\ IsRequest(y)
  BY ShapePcTodoList DEF ProxyWrite, Turned
<1>2. /\ y.pc = "write" /\ y.cur = Ask[r].repo /\ y.proxy = Ask[r].repo /\ y.at = 1 /\ y.dir = Root
      /\ y.list = reqs[r].merged /\ y.merged = {} /\ y.key = None /\ y.todo = {Root}
  BY DEF Start
<1>3. Fits(r, y)
  BY <1>2, InReqs, OwnFits DEF Fits, Places, Tokens
<1>4. Own(r, y) /\ ~Leads(y)
  BY <1>2, <1>3 DEF Own, Apart, Stored, Parted, Claimed, Leads
<1> QED BY <1>1, <1>4, SilentSafe

-----------------------------------------------------------------------------
(* Downloads.                                                              *)

\* A download goes on to the next member of a proxy.
LEMMA NotHereOwn ==
    ASSUME Safe, NEW r \in DOMAIN reqs, reqs[r].pc \notin {"version", "tags", "refreshed", "keep"}
    PROVE  IsRequest(NotHere(r)) /\ Own(r, NotHere(r)) /\ ~Leads(NotHere(r)) /\ NotHere(r).pc \in {"try", "done"}
<1> PICK W : reqs \in [DOMAIN reqs -> Request(W)]
  BY DEF Safe, Shaped
<1>1. CASE reqs[r].at < Len(From(r))
  <2> PICK y : y = [reqs[r] EXCEPT !.pc = "try", !.at = @ + 1]
    OBVIOUS
  <2>1. /\ y.pc = "try" /\ y.dir = reqs[r].dir /\ y.cur = reqs[r].cur /\ y.list = reqs[r].list /\ y.proxy = reqs[r].proxy
        /\ y.at = reqs[r].at + 1 /\ y.key = reqs[r].key /\ y.merged = reqs[r].merged
    BY DEF Request
  <2>2. reqs[r].at + 1 \in Nat \ {0}
    BY OwnFits
  <2>3. Own(r, y) /\ ~Leads(y)
    <3>1. /\ y.pc \in Aside /\ y.cur \in Spots /\ y.proxy \in Spots /\ y.at \in Nat \ {0} /\ y.dir \in Places /\ y.key \in Tokens
          /\ y.merged \subseteq Entries /\ y.list \subseteq Entries /\ (format \in {"helm", "npm"} => Single(y.merged))
      BY <2>1, <2>2, OwnFits DEF Aside
    <3> QED BY <3>1, AsideOwn
  <2>4. IsRequest(y)
    BY ShapePcAt
  <2>5. NotHere(r) = y
    BY <1>1 DEF NotHere
  <2> QED BY <2>1, <2>3, <2>4, <2>5
<1>2. CASE ~(reqs[r].at < Len(From(r)))
  <2> PICK y : y = [Start(r) EXCEPT !.pc = "done"]
    OBVIOUS
  <2>1. Blank(r, y) /\ y.pc = "done"
    BY DEF Start, Blank
  <2>2. Over(r, y)
    BY <2>1, StartRequest, ShapePc DEF Over
  <2>3. NotHere(r) = y
    BY <1>2 DEF NotHere
  <2> QED BY <2>1, <2>2, <2>3, DoneOwn, InReqs DEF Over
<1> QED BY <1>1, <1>2

LEMMA DeliveredOver ==
    ASSUME NEW r, NEW found PROVE Over(r, Delivered(r, found))
BY DoneOver DEF Delivered

LEMMA PassSafe ==
    ASSUME Safe, NEW r \in DOMAIN reqs, reqs[r].pc \notin {"version", "tags", "refreshed", "keep"}, Silent,
           \/ reqs' = [reqs EXCEPT ![r] = NotHere(r)]
           \/ \E found : reqs' = [reqs EXCEPT ![r] = Delivered(r, found)]
    PROVE  Safe'
<1> PICK W : reqs \in [DOMAIN reqs -> Request(W)]
  BY DEF Safe, Shaped
<1>1. CASE reqs' = [reqs EXCEPT ![r] = NotHere(r)]
  <2>1. Turned(r, NotHere(r))
    BY <1>1 DEF Turned
  <2> QED BY <2>1, NotHereOwn, SilentSafe
<1>2. CASE \E found : reqs' = [reqs EXCEPT ![r] = Delivered(r, found)]
  <2> PICK found : reqs' = [reqs EXCEPT ![r] = Delivered(r, found)]
    BY <1>2
  <2>1. Turned(r, Delivered(r, found))
    BY DEF Turned
  <2> QED BY <2>1, DeliveredOver, DoneSafe
<1> QED BY <1>1, <1>2

LEMMA HoldsOrNotSafe ==
    ASSUME Safe, NEW r \in DOMAIN reqs, NEW repos, HoldsOrNot(r, repos)
    PROVE  Safe'
<1>1. Silent /\ reqs[r].pc \in {"start", "try"}
  BY QuietSilent DEF HoldsOrNot, Trying
<1>2. \/ reqs' = [reqs EXCEPT ![r] = NotHere(r)]
      \/ \E found : reqs' = [reqs EXCEPT ![r] = Delivered(r, found)]
  BY DEF HoldsOrNot
<1> QED BY <1>1, <1>2, PassSafe

\* From an unclaimed package a request goes to look for a claim, or on its own.
LEMMA MissedSafe ==
    ASSUME Safe, NEW r \in DOMAIN reqs, reqs[r].pc \in {"start", "try", "link"}, Silent, NEW missed \in {"claim", "link", "fetch"},
           format = "pypi" => missed # "fetch",
           reqs' = [reqs EXCEPT ![r] = [reqs[r] EXCEPT !.pc = missed]]
    PROVE  Safe'
<1> PICK W : reqs \in [DOMAIN reqs -> Request(W)]
  BY DEF Safe, Shaped
<1> PICK y : y = [reqs[r] EXCEPT !.pc = missed]
  OBVIOUS
<1>1. Turned(r, y) /\ IsRequest(y)
  BY ShapePc DEF Turned
<1>2. /\ y.pc = missed /\ y.dir = reqs[r].dir /\ y.cur = reqs[r].cur /\ y.list = reqs[r].list /\ y.proxy = reqs[r].proxy
      /\ y.at = reqs[r].at /\ y.key = reqs[r].key /\ y.merged = reqs[r].merged
  BY DEF Request
<1>3. Own(r, reqs[r])
  BY DEF Safe
<1>4. Own(r, y) /\ (format = "pypi" => ~Leads(y))
  BY <1>2, <1>3 DEF Own, Fits, Apart, Stored, Parted, Claimed, Leads
<1> QED BY <1>1, <1>4, SilentSafe

LEMMA CacheLookupSafe ==
    ASSUME Safe, NEW r \in DOMAIN reqs, NEW missed \in {"claim", "link", "fetch"}, format = "pypi" => missed # "fetch",
           CacheLookup(r, missed)
    PROVE  Safe'
<1>1. Silent /\ reqs[r].pc \in {"start", "try"}
  BY QuietSilent DEF CacheLookup, Trying
<1>2. \/ reqs' = [reqs EXCEPT ![r] = [reqs[r] EXCEPT !.pc = missed]]
      \/ \E found : reqs' = [reqs EXCEPT ![r] = Delivered(r, found)]
  BY DEF CacheLookup
<1> QED BY <1>1, <1>2, PassSafe, MissedSafe

\* Claims: the packages being fetched are those of the requests that lead.
LEMMA TryClaimSafe ==
    ASSUME Safe, NEW r \in DOMAIN reqs, NEW claimed, TryClaim(r, claimed),
           IF format = "pypi" THEN claimed = "recheck" ELSE claimed = "fetch"
    PROVE  Safe'
<1> PICK W : reqs \in [DOMAIN reqs -> Request(W)]
  BY DEF Safe, Shaped
<1>1. CASE At(r, "late") /\ Goto(r, "wait") /\ Quiet /\ UNCHANGED state
  BY <1>1, QuietSilent, GotoSafe DEF At, Aside
<1>2. CASE At(r, "claim") /\ Goto(r, "late") /\ Quiet /\ UNCHANGED state
  BY <1>2, QuietSilent, GotoSafe DEF At, Aside
<1>3. CASE /\ At(r, "claim") /\ Claim(r) \notin extra.claims /\ Goto(r, claimed)
           /\ extra' = [extra EXCEPT !.claims = @ \cup {Claim(r)}]
           /\ Quiet /\ UNCHANGED <<recs, flags, index, files, offer, fresh, keys, depth>>
  <2> PICK V : extra \in [claims : V, docs : V, tags : V, old : V]
    BY DEF Safe, Shaped
  <2> PICK y : y = [reqs[r] EXCEPT !.pc = claimed]
    OBVIOUS
  <2>1. Turned(r, y) /\ IsRequest(y)
    BY <1>3, ShapePc DEF Turned, Goto
  <2>2. /\ y.pc = claimed /\ y.dir = reqs[r].dir /\ y.cur = reqs[r].cur /\ y.list = reqs[r].list /\ y.proxy = reqs[r].proxy
        /\ y.at = reqs[r].at /\ y.key = reqs[r].key /\ y.merged = reqs[r].merged
    BY DEF Request
  <2>3. /\ extra'.claims = extra.claims \cup {Claim(r)} /\ extra'.docs = extra.docs /\ extra'.tags = extra.tags
        /\ extra'.old = extra.old
    BY <1>3
  <2>4. \A repo, p : Holding(repo, p)' = Holding(repo, p) /\ Described(repo, p)' = Described(repo, p)
    BY <1>3, <2>3 DEF Holding, Listed, Described
  <2>5. Alone /\ \A q \in DOMAIN reqs : Claimed(q, reqs[q])
    BY DEF Safe, Own
  <2>6. Mono(r)
    BY <1>3, <2>3, <2>4, <2>5 DEF Mono, Quiet, Claimed
  <2>7. StateSafe'
    <3>1. DOMAIN reqs' = DOMAIN reqs
      BY <2>1 DEF Turned
    <3>2. StateTyped'
      BY <1>3, <2>3, <3>1 DEF Safe, StateSafe, StateTyped, Quiet
    <3>3. StateApart'
      BY <1>3, <2>3 DEF Safe, StateSafe, StateApart, Quiet
    <3>4. IndexServable' /\ PartsInOrder'
      BY <1>3, <2>3, <2>4 DEF Safe, StateSafe, IndexServable, PartsInOrder, Quiet, Described
    <3> QED BY <3>2, <3>3, <3>4 DEF StateSafe
  <2>8. Own(r, reqs[r])'
    <3>1. reqs'[r] = y /\ claimed \in {"recheck", "fetch"}
      BY <2>1 DEF Turned
    <3>2. Fits(r, reqs[r])'
      BY <1>3, <2>2, <3>1, OwnFits DEF Fits, At
    <3>3. Apart(reqs[r])'
      BY <1>3, <2>2, <3>1, OwnFits DEF Apart, At, Quiet
    <3>4. Claimed(r, reqs[r])'
      BY <1>3, <2>2, <2>3, <3>1 DEF Claimed, Leads, Quiet, Claim
    <3> QED BY <2>2, <3>1, <3>2, <3>3, <3>4 DEF Own, Stored, Parted
  <2>9. Kept'
    BY <1>3, ExtraKept
  <2>10. Alone'
    <3>1. DOMAIN reqs' = DOMAIN reqs /\ reqs'[r] = y
      BY <2>1 DEF Turned
    <3>2. \A q \in DOMAIN reqs \ {r} : Leads(reqs'[q]) => Leads(reqs[q])
      BY <2>1 DEF Turned, Leads, Request
    <3> QED BY <1>3, <2>5, <3>1, <3>2 DEF Alone, Claimed, Quiet, Claim
  <2>11. \A q \in DOMAIN reqs \ {r} : Own(q, reqs[q])'
    BY <2>1, <2>6, OthersOwn
  <2>12. Shaped'
    BY <2>1, <2>9, TurnedShaped DEF Kept
  <2>13. DOMAIN reqs' = DOMAIN reqs
    BY <2>1 DEF Turned
  <2> QED BY <2>7, <2>8, <2>10, <2>11, <2>12, <2>13 DEF Safe
<1> QED BY <1>1, <1>2, <1>3 DEF TryClaim, state

\* A leader drops its claim: nobody else leads for its package.
LEMMA UnclaimedSafe ==
    ASSUME Safe, NEW r \in DOMAIN reqs, Leads(reqs[r]), NEW y, IsRequest(y), Turned(r, y), ~Leads(y),
           extra' = Unclaimed(r), format' = format, risk \subseteq risk', faults' \in 0 .. MaxFaults,
           \/ UNCHANGED recs
           \/ format \notin {"apt", "yum", "npm"} /\ (\E e \in reqs[r].list : PutRec(Cache, e.pkg, e.val)) /\ reqs[r].pc = "store",
           UNCHANGED <<flags, index, files, offer, fresh, keys, depth>>, Own(r, y), Own(r, reqs[r])'
    PROVE  Safe'
<1> PICK V : extra \in [claims : V, docs : V, tags : V, old : V]
  BY DEF Safe, Shaped
<1>1. /\ extra'.claims = extra.claims \ {Claim(r)} /\ extra'.docs = extra.docs /\ extra'.tags = extra.tags
      /\ extra'.old = extra.old
  BY DEF Unclaimed
<1>2. Alone /\ \A q \in DOMAIN reqs : Claimed(q, reqs[q])
  BY DEF Safe, Own
<1>3. \A repo, p : Described(repo, p)' = Described(repo, p)
  BY <1>1 DEF Described
<1>4. /\ recs' \subseteq [repo : Repos, pkg : Pkgs, val : Tokens]
      /\ \A a, b \in recs' : (a.repo = b.repo /\ a.pkg = b.pkg) => a = b
      /\ \A p : Holding(Hosted, p)' = Holding(Hosted, p)
      /\ format = "pypi" => \A p : p # Ask[r].pkg => Holding(Cache, p)' = Holding(Cache, p)
      /\ {a \in recs' : a.repo = Hosted} = {a \in recs : a.repo = Hosted}
  <2>1. CASE UNCHANGED recs
    BY <2>1 DEF Safe, StateSafe, StateTyped, StateApart, Holding, Listed
  <2>2. CASE (\E e \in reqs[r].list : PutRec(Cache, e.pkg, e.val)) /\ reqs[r].pc = "store"
    <3> PICK e \in reqs[r].list : PutRec(Cache, e.pkg, e.val)
      BY <2>2
    <3>1. e.pkg \in Pkgs /\ e.val \in Tokens /\ Cache \in Repos /\ Hosted # Cache
      BY <2>2, OwnFits, PackageAssumption DEF Entries, Tokens, Repos
    <3>2. format = "pypi" => e.pkg = Ask[r].pkg
      BY <1>2, <2>2 DEF Claimed
    <3>3. {a \in recs' : a.repo = Hosted} = {a \in recs : a.repo = Hosted}
      BY <3>1 DEF PutRec
    <3> QED BY <3>1, <3>2, <3>3, PutRecTyped
  <2> QED BY <2>1, <2>2
<1>5. Mono(r)
  <2>1. ASSUME NEW q \in DOMAIN reqs \ {r}, format = "pypi"
        PROVE  /\ Leads(reqs[q]) => Claim(q) \in extra'.claims
               /\ reqs[q].pc \in {"fetch", "store"} => (SameInstance(q) => Holding(Cache, Ask[q].pkg)' = {})
    <3>1. Leads(reqs[q]) => Claim(q) # Claim(r)
      BY <1>2, <2>1 DEF Alone
    <3>2. SameInstance(q) /\ Leads(reqs[q]) => Ask[q].pkg # Ask[r].pkg
      BY <3>1 DEF SameInstance, Claim
    <3> QED BY <1>1, <1>2, <1>4, <2>1, <3>1, <3>2 DEF Claimed, Leads
  <2> QED BY <1>3, <1>4, <2>1 DEF Mono
<1>6. StateSafe'
  <2>1. DOMAIN reqs' = DOMAIN reqs
    BY DEF Turned
  <2>2. StateTyped'
    BY <1>1, <1>4, <2>1 DEF Safe, StateSafe, StateTyped
  <2>3. StateApart'
    BY <1>1, <1>4 DEF Safe, StateSafe, StateApart
  <2>4. IndexServable'
    BY DEF Safe, StateSafe, IndexServable
  <2>5. PartsInOrder'
    BY <1>1, <1>4 DEF Safe, StateSafe, PartsInOrder, Described
  <2> QED BY <2>2, <2>3, <2>4, <2>5 DEF StateSafe
<1>7. Kept'
  BY ExtraKept DEF Unclaimed
<1> QED BY <1>5, <1>6, <1>7, StepSafe

\* Those that wait for a leader are woken with it.
LEMMA WokenTurned ==
    ASSUME Safe, NEW r \in DOMAIN reqs, NEW y, reqs' = Woken(r, y)
    PROVE  Turned(r, y)
<1> PICK W : reqs \in [DOMAIN reqs -> Request(W)]
  BY DEF Safe, Shaped
<1> QED BY DEF Turned, Woken, At

LEMMA AskUpstreamSafe ==
    ASSUME Safe, NEW r \in DOMAIN reqs, AskUpstream(r)
    PROVE  Safe'
<1> PICK W : reqs \in [DOMAIN reqs -> Request(W)]
  BY DEF Safe, Shaped
<1> PICK found : found = {e \in offer : e.pkg = Ask[r].pkg}
  OBVIOUS
<1>0. reqs[r].pc = "fetch" /\ Leads(reqs[r]) /\ Own(r, reqs[r])
  BY DEF AskUpstream, At, Leads, Safe
<1>1. CASE reqs' = [reqs EXCEPT ![r].pc = "store", ![r].list = found] /\ Quiet /\ UNCHANGED state
  <2> PICK y : y = [reqs[r] EXCEPT !.pc = "store", !.list = found]
    OBVIOUS
  <2>1. Turned(r, y) /\ IsRequest(y)
    BY <1>1, ShapePcList DEF Turned
  <2>2. /\ y.pc = "store" /\ y.dir = reqs[r].dir /\ y.cur = reqs[r].cur /\ y.list = found /\ y.proxy = reqs[r].proxy
        /\ y.at = reqs[r].at /\ y.key = reqs[r].key /\ y.merged = reqs[r].merged
    BY DEF Request
  <2>3. found \subseteq Entries
    BY DEF Safe, StateSafe, StateTyped
  <2>4. Fits(r, y) /\ Apart(y)
    BY <1>0, <2>2, <2>3, OwnFits DEF Fits, Apart
  <2>5. Claimed(r, y)
    BY <1>0, <2>2 DEF Own, Claimed, Leads
  <2>6. Own(r, y)
    BY <2>2, <2>4, <2>5 DEF Own, Stored, Parted
  <2> QED BY <1>0, <1>1, <2>1, <2>6, QuietSilent, SilentSafe
<1>2. CASE reqs' = Woken(r, NotHere(r)) /\ extra' = Unclaimed(r) /\ format' = format /\ risk \subseteq risk' /\ faults' \in 0 .. MaxFaults
           /\ UNCHANGED <<recs, flags, index, files, offer, fresh, keys, depth>>
  <2> PICK y : y = NotHere(r)
    OBVIOUS
  <2>1. Turned(r, y)
    BY <1>2, WokenTurned
  <2>2. IsRequest(y) /\ Own(r, y) /\ ~Leads(y) /\ y.pc \in {"try", "done"}
    BY <1>0, NotHereOwn
  <2>3. Own(r, reqs[r])'
    BY <1>2, <2>1, <2>2 DEF Turned, Own, Fits, Blank, Apart, Stored, Parted, Claimed, Leads
  <2> QED BY <1>0, <1>2, <2>1, <2>2, <2>3, UnclaimedSafe
<1>3. Quiet => format' = format /\ risk \subseteq risk' /\ faults' \in 0 .. MaxFaults
  BY DEF Quiet, Safe, StateSafe, StateTyped
<1>4. Fault("upstream") => risk \subseteq risk' /\ faults' \in 0 .. MaxFaults
  BY PackageAssumption DEF Fault, Safe, StateSafe, StateTyped
<1> QED BY <1>1, <1>2, <1>3, <1>4 DEF AskUpstream, state

LEMMA StoreFetchedSafe ==
    ASSUME Safe, NEW r \in DOMAIN reqs, StoreFetched(r), format \notin {"apt", "yum", "npm"}
    PROVE  Safe'
<1> PICK y : y = Delivered(r, reqs[r].list)
  OBVIOUS
<1>0. reqs[r].pc = "store" /\ Leads(reqs[r])
  BY DEF StoreFetched, At, Leads
<1>1. Turned(r, y)
  BY WokenTurned DEF StoreFetched
<1>2. Over(r, y)
  BY DeliveredOver
<1>3. Own(r, y) /\ Own(r, reqs[r])' /\ ~Leads(y) /\ IsRequest(y)
  BY <1>1, <1>2, DoneOwn, OverOwn, InReqs DEF Turned
<1>4. faults' \in 0 .. MaxFaults /\ format' = format /\ risk \subseteq risk'
  BY DEF StoreFetched, Quiet, Safe, StateSafe, StateTyped
<1> QED BY <1>0, <1>1, <1>3, <1>4, UnclaimedSafe DEF StoreFetched

LEMMA StopsSafe ==
    ASSUME Safe, NEW r \in DOMAIN reqs, Stops(r)
    PROVE  Safe'
<1> PICK y : y = [Start(r) EXCEPT !.pc = "done"]
  OBVIOUS
<1>0. faults' \in 0 .. MaxFaults /\ format' = format /\ risk \subseteq risk'
  BY PackageAssumption DEF Stops, Fault, Safe, StateSafe, StateTyped
<1>1. CASE Fetching(r) /\ reqs' = Woken(r, [Start(r) EXCEPT !.pc = "done"]) /\ extra' = Unclaimed(r)
  <2>1. Turned(r, y)
    BY <1>1, WokenTurned
  <2>2. Over(r, y)
    BY StartRequest, ShapePc DEF Over, Blank, Start
  <2>3. Own(r, y) /\ Own(r, reqs[r])' /\ ~Leads(y) /\ IsRequest(y)
    BY <2>1, <2>2, DoneOwn, OverOwn, InReqs DEF Turned
  <2>4. Leads(reqs[r])
    BY <1>1 DEF Fetching, Leads
  <2> QED BY <1>0, <1>1, <2>1, <2>3, <2>4, UnclaimedSafe DEF Stops
<1>2. CASE Reply(r, None) /\ UNCHANGED extra
  <2>1. Silent
    BY <1>0, <1>2 DEF Stops, Silent, Safe, StateSafe, StateTyped
  <2> QED BY <1>2, <2>1, ReplySafe
<1> QED BY <1>1, <1>2 DEF Stops

\* The operators of the instances are those of PackageRepo.
LEMMA AptWords ==
    ASSUME NEW r
    PROVE  /\ Apt!Kind(r) = Kind(r)
           /\ \A pc : Apt!At(r, pc) <=> At(r, pc)
           /\ \A pc : Apt!Goto(r, pc) <=> Goto(r, pc)
           /\ \A what : Apt!Reply(r, what) <=> Reply(r, what)
           /\ \A kind, repos : Apt!Asks(r, kind, repos) <=> Asks(r, kind, repos)
           /\ Apt!Quiet <=> Quiet
           /\ \A kind : Apt!Fault(kind) <=> Fault(kind)
           /\ Apt!CommitRecord(r) <=> CommitRecord(r)
           /\ \A from, then : Apt!SetFlag(r, from, then) <=> SetFlag(r, from, then)
           /\ Apt!FlagAlone(r) <=> FlagAlone(r)
           /\ Apt!Rebuilding = Rebuilding
           /\ \A spot, dir : Apt!CommitPoint(spot, dir) = CommitPoint(spot, dir)
           /\ \A spot, dir : Apt!Served(spot, dir) = Served(spot, dir)
           /\ Apt!ClearFlag(r) <=> ClearFlag(r)
           /\ Apt!WriteFiles(r) <=> WriteFiles(r)
           /\ \A spot, dir, list, key : Apt!PutIndex(spot, dir, list, key) <=> PutIndex(spot, dir, list, key)
           /\ \A then : Apt!Rebuilt(r, then) <=> Rebuilt(r, then)
           /\ \A then : Apt!CommitIndex(r, then) <=> CommitIndex(r, then)
           /\ \A repo : Apt!Rebuild(r, repo) <=> Rebuild(r, repo)
           /\ Apt!ProxyCheck(r) <=> ProxyCheck(r)
           /\ Apt!ProxyClear(r) <=> ProxyClear(r)
           /\ Apt!Member(r) = Member(r)
           /\ Apt!NextMember(r) <=> NextMember(r)
           /\ Apt!MoreMembers(r) <=> MoreMembers(r)
           /\ Apt!Merge(r) <=> Merge(r)
           /\ Apt!MemberFails(r) <=> MemberFails(r)
           /\ Apt!ProxyWrite(r) <=> ProxyWrite(r)
<1>1. Apt!Kind(r) = Kind(r)
  BY DEF Apt!Kind, Kind
<1>2. \A pc : Apt!At(r, pc) <=> At(r, pc)
  BY DEF Apt!At, At
<1>3. \A pc : Apt!Goto(r, pc) <=> Goto(r, pc)
  BY DEF Apt!Goto, Goto
<1>4. \A what : Apt!Reply(r, what) <=> Reply(r, what)
  BY DEF Apt!Reply, Apt!Start, Reply, Start
<1>5. \A kind, repos : Apt!Asks(r, kind, repos) <=> Asks(r, kind, repos)
  BY DEF Apt!Asks, Apt!At, Apt!Kind, Asks, At, Kind
<1>6. Apt!Quiet <=> Quiet
  BY DEF Apt!Quiet, Quiet
<1>7. \A kind : Apt!Fault(kind) <=> Fault(kind)
  BY DEF Apt!Fault, Fault
<1>8. Apt!CommitRecord(r) <=> CommitRecord(r)
  BY DEF Apt!CommitRecord, Apt!upload_preamble, Apt!Asks, Apt!At, Apt!Kind, Apt!Repos,
         Apt!resolve_format_write_target, Apt!Proxies, Apt!Members, Apt!PutRec, Apt!Quiet, CommitRecord,
         upload_preamble, Asks, At, Kind, Repos, resolve_format_write_target, Proxies, Members, PutRec, Quiet
<1>9. \A from, then : Apt!SetFlag(r, from, then) <=> SetFlag(r, from, then)
  BY DEF Apt!SetFlag, Apt!At, Apt!Propagate, Apt!Ancestors, Apt!Parents, Apt!Proxies, Apt!Members, Apt!Addressed,
         Apt!Source, Apt!Kind, SetFlag, At, Propagate, Ancestors, Parents, Proxies, Members, Addressed, Source, Kind
<1>10. Apt!FlagAlone(r) <=> FlagAlone(r)
  BY DEF Apt!FlagAlone, Apt!At, Apt!Reply, Apt!Start, FlagAlone, At, Reply, Start
<1>11. Apt!Rebuilding = Rebuilding
  BY DEF Apt!Rebuilding, Rebuilding
<1>12. \A spot, dir : Apt!CommitPoint(spot, dir) = CommitPoint(spot, dir)
  BY DEF Apt!CommitPoint, CommitPoint
<1>13. \A spot, dir : Apt!Served(spot, dir) = Served(spot, dir)
  BY DEF Apt!Served, Apt!CommitPoint, Served, CommitPoint
<1>14. Apt!ClearFlag(r) <=> ClearFlag(r)
  BY DEF Apt!ClearFlag, Apt!At, Apt!Overlap, Apt!Rebuilding, ClearFlag, At, Overlap, Rebuilding
<1>15. Apt!WriteFiles(r) <=> WriteFiles(r)
  BY DEF Apt!WriteFiles, Apt!At, Apt!Part, Apt!In, Apt!DirFor, Apt!Quiet, WriteFiles, At, Part, In, DirFor, Quiet
<1>16. \A spot, dir, list, key : Apt!PutIndex(spot, dir, list, key) <=> PutIndex(spot, dir, list, key)
  BY DEF Apt!PutIndex, Apt!CommitPoint, PutIndex, CommitPoint
<1>17. \A then : Apt!Rebuilt(r, then) <=> Rebuilt(r, then)
  BY DEF Apt!Rebuilt, Apt!Start, Apt!OfMember, Apt!Proxies, Rebuilt, Start, OfMember, Proxies
<1>18. \A then : Apt!CommitIndex(r, then) <=> CommitIndex(r, then)
  BY DEF Apt!CommitIndex, Apt!At, Apt!PutIndex, Apt!CommitPoint, Apt!Part, Apt!In, Apt!DirFor, Apt!Rebuilt, Apt!Start,
         Apt!OfMember, Apt!Proxies, Apt!Quiet, CommitIndex, At, PutIndex, CommitPoint, Part, In, DirFor, Rebuilt,
         Start, OfMember, Proxies, Quiet
<1>19. \A repo : Apt!Rebuild(r, repo) <=> Rebuild(r, repo)
  BY DEF Apt!Rebuild, Rebuild
<1>20. Apt!ProxyCheck(r) <=> ProxyCheck(r)
  BY DEF Apt!ProxyCheck, Apt!Asks, Apt!At, Apt!Kind, Apt!Proxies, Apt!Goto, Apt!CommitPoint, Apt!Quiet, Apt!state,
         ProxyCheck, Asks, At, Kind, Proxies, Goto, CommitPoint, Quiet, state
<1>21. Apt!ProxyClear(r) <=> ProxyClear(r)
  BY DEF Apt!ProxyClear, Apt!At, Apt!Goto, Apt!Merging, Apt!Kind, Apt!Rebuilding, ProxyClear, At, Goto, Merging, Kind,
         Rebuilding
<1>22. Apt!Member(r) = Member(r)
  BY DEF Apt!Member, Apt!Members, Member, Members
<1>23. Apt!NextMember(r) <=> NextMember(r)
  BY DEF Apt!NextMember, NextMember
<1>24. Apt!MoreMembers(r) <=> MoreMembers(r)
  BY DEF Apt!MoreMembers, Apt!Members, MoreMembers, Members
<1>25. Apt!Merge(r) <=> Merge(r)
  BY DEF Apt!Merge, Apt!Served, Apt!CommitPoint, Apt!Member, Apt!Members, Apt!Overlap, Apt!Rebuilding, Apt!state,
         Merge, Served, CommitPoint, Member, Members, Overlap, Rebuilding, state
<1>26. Apt!MemberFails(r) <=> MemberFails(r)
  BY DEF Apt!MemberFails, Apt!Rebuilding, Apt!OfMember, Apt!Proxies, Apt!Fault, Apt!Start, Apt!state, MemberFails,
         Rebuilding, OfMember, Proxies, Fault, Start, state
<1>27. Apt!ProxyWrite(r) <=> ProxyWrite(r)
  BY DEF Apt!ProxyWrite, Apt!Start, ProxyWrite, Start
<1> QED BY <1>1, <1>2, <1>3, <1>4, <1>5, <1>6, <1>7, <1>8, <1>9, <1>10, <1>11, <1>12, <1>13, <1>14, <1>15, <1>16, <1>17, <1>18, <1>19, <1>20, <1>21, <1>22, <1>23, <1>24, <1>25, <1>26, <1>27

LEMMA YumWords ==
    ASSUME NEW r
    PROVE  /\ Yum!Kind(r) = Kind(r)
           /\ \A pc : Yum!At(r, pc) <=> At(r, pc)
           /\ \A pc : Yum!Goto(r, pc) <=> Goto(r, pc)
           /\ \A what : Yum!Reply(r, what) <=> Reply(r, what)
           /\ \A kind, repos : Yum!Asks(r, kind, repos) <=> Asks(r, kind, repos)
           /\ Yum!Quiet <=> Quiet
           /\ \A kind : Yum!Fault(kind) <=> Fault(kind)
           /\ Yum!CommitRecord(r) <=> CommitRecord(r)
           /\ \A from, then : Yum!SetFlag(r, from, then) <=> SetFlag(r, from, then)
           /\ Yum!FlagAlone(r) <=> FlagAlone(r)
           /\ \A spot, p, deep : Yum!DirFor(spot, p, deep) = DirFor(spot, p, deep)
           /\ \A spot, list, dir, deep : Yum!In(spot, list, dir, deep) = In(spot, list, dir, deep)
           /\ \A spot, dir : Yum!CommitPoint(spot, dir) = CommitPoint(spot, dir)
           /\ \A spot, dir : Yum!Served(spot, dir) = Served(spot, dir)
           /\ Yum!ClearFlag(r) <=> ClearFlag(r)
           /\ Yum!WriteFiles(r) <=> WriteFiles(r)
           /\ \A spot, dir, list, key : Yum!PutIndex(spot, dir, list, key) <=> PutIndex(spot, dir, list, key)
           /\ \A then : Yum!CommitIndex(r, then) <=> CommitIndex(r, then)
           /\ \A then : Yum!NoIndex(r, then) <=> NoIndex(r, then)
           /\ \A repo : Yum!Rebuild(r, repo) <=> Rebuild(r, repo)
           /\ Yum!ProxyCheck(r) <=> ProxyCheck(r)
           /\ Yum!ProxyClear(r) <=> ProxyClear(r)
           /\ Yum!Member(r) = Member(r)
           /\ Yum!MoreMembers(r) <=> MoreMembers(r)
           /\ Yum!Merge(r) <=> Merge(r)
           /\ Yum!MemberFails(r) <=> MemberFails(r)
           /\ Yum!ProxyWrite(r) <=> ProxyWrite(r)
<1>1. Yum!Kind(r) = Kind(r)
  BY DEF Yum!Kind, Kind
<1>2. \A pc : Yum!At(r, pc) <=> At(r, pc)
  BY DEF Yum!At, At
<1>3. \A pc : Yum!Goto(r, pc) <=> Goto(r, pc)
  BY DEF Yum!Goto, Goto
<1>4. \A what : Yum!Reply(r, what) <=> Reply(r, what)
  BY DEF Yum!Reply, Yum!Start, Reply, Start
<1>5. \A kind, repos : Yum!Asks(r, kind, repos) <=> Asks(r, kind, repos)
  BY DEF Yum!Asks, Yum!At, Yum!Kind, Asks, At, Kind
<1>6. Yum!Quiet <=> Quiet
  BY DEF Yum!Quiet, Quiet
<1>7. \A kind : Yum!Fault(kind) <=> Fault(kind)
  BY DEF Yum!Fault, Fault
<1>8. Yum!CommitRecord(r) <=> CommitRecord(r)
  BY DEF Yum!CommitRecord, Yum!upload_preamble, Yum!Asks, Yum!At, Yum!Kind, Yum!Repos,
         Yum!resolve_format_write_target, Yum!Proxies, Yum!Members, Yum!PutRec, Yum!Quiet, CommitRecord,
         upload_preamble, Asks, At, Kind, Repos, resolve_format_write_target, Proxies, Members, PutRec, Quiet
<1>9. \A from, then : Yum!SetFlag(r, from, then) <=> SetFlag(r, from, then)
  BY DEF Yum!SetFlag, Yum!At, Yum!Propagate, Yum!Ancestors, Yum!Parents, Yum!Proxies, Yum!Members, Yum!Addressed,
         Yum!Source, Yum!Kind, SetFlag, At, Propagate, Ancestors, Parents, Proxies, Members, Addressed, Source, Kind
<1>10. Yum!FlagAlone(r) <=> FlagAlone(r)
  BY DEF Yum!FlagAlone, Yum!At, Yum!Reply, Yum!Start, FlagAlone, At, Reply, Start
<1>11. \A spot, p, deep : Yum!DirFor(spot, p, deep) = DirFor(spot, p, deep)
  BY DEF Yum!DirFor, DirFor
<1>12. \A spot, list, dir, deep : Yum!In(spot, list, dir, deep) = In(spot, list, dir, deep)
  BY DEF Yum!In, Yum!DirFor, In, DirFor
<1>13. \A spot, dir : Yum!CommitPoint(spot, dir) = CommitPoint(spot, dir)
  BY DEF Yum!CommitPoint, CommitPoint
<1>14. \A spot, dir : Yum!Served(spot, dir) = Served(spot, dir)
  BY DEF Yum!Served, Yum!CommitPoint, Served, CommitPoint
<1>15. Yum!ClearFlag(r) <=> ClearFlag(r)
  BY DEF Yum!ClearFlag, Yum!At, Yum!Overlap, Yum!Rebuilding, ClearFlag, At, Overlap, Rebuilding
<1>16. Yum!WriteFiles(r) <=> WriteFiles(r)
  BY DEF Yum!WriteFiles, Yum!At, Yum!Part, Yum!In, Yum!DirFor, Yum!Quiet, WriteFiles, At, Part, In, DirFor, Quiet
<1>17. \A spot, dir, list, key : Yum!PutIndex(spot, dir, list, key) <=> PutIndex(spot, dir, list, key)
  BY DEF Yum!PutIndex, Yum!CommitPoint, PutIndex, CommitPoint
<1>18. \A then : Yum!CommitIndex(r, then) <=> CommitIndex(r, then)
  BY DEF Yum!CommitIndex, Yum!At, Yum!PutIndex, Yum!CommitPoint, Yum!Part, Yum!In, Yum!DirFor, Yum!Rebuilt, Yum!Start,
         Yum!OfMember, Yum!Proxies, Yum!Quiet, CommitIndex, At, PutIndex, CommitPoint, Part, In, DirFor, Rebuilt,
         Start, OfMember, Proxies, Quiet
<1>19. \A then : Yum!NoIndex(r, then) <=> NoIndex(r, then)
  BY DEF Yum!NoIndex, Yum!At, Yum!Rebuilt, Yum!Start, Yum!OfMember, Yum!Proxies, Yum!Quiet, Yum!state, NoIndex, At,
         Rebuilt, Start, OfMember, Proxies, Quiet, state
<1>20. \A repo : Yum!Rebuild(r, repo) <=> Rebuild(r, repo)
  BY DEF Yum!Rebuild, Rebuild
<1>21. Yum!ProxyCheck(r) <=> ProxyCheck(r)
  BY DEF Yum!ProxyCheck, Yum!Asks, Yum!At, Yum!Kind, Yum!Proxies, Yum!Goto, Yum!CommitPoint, Yum!Quiet, Yum!state,
         ProxyCheck, Asks, At, Kind, Proxies, Goto, CommitPoint, Quiet, state
<1>22. Yum!ProxyClear(r) <=> ProxyClear(r)
  BY DEF Yum!ProxyClear, Yum!At, Yum!Goto, Yum!Merging, Yum!Kind, Yum!Rebuilding, ProxyClear, At, Goto, Merging, Kind,
         Rebuilding
<1>23. Yum!Member(r) = Member(r)
  BY DEF Yum!Member, Yum!Members, Member, Members
<1>24. Yum!MoreMembers(r) <=> MoreMembers(r)
  BY DEF Yum!MoreMembers, Yum!Members, MoreMembers, Members
<1>25. Yum!Merge(r) <=> Merge(r)
  BY DEF Yum!Merge, Yum!Served, Yum!CommitPoint, Yum!Member, Yum!Members, Yum!Overlap, Yum!Rebuilding, Yum!state,
         Merge, Served, CommitPoint, Member, Members, Overlap, Rebuilding, state
<1>26. Yum!MemberFails(r) <=> MemberFails(r)
  BY DEF Yum!MemberFails, Yum!Rebuilding, Yum!OfMember, Yum!Proxies, Yum!Fault, Yum!Start, Yum!state, MemberFails,
         Rebuilding, OfMember, Proxies, Fault, Start, state
<1>27. Yum!ProxyWrite(r) <=> ProxyWrite(r)
  BY DEF Yum!ProxyWrite, Yum!Start, ProxyWrite, Start
<1> QED BY <1>1, <1>2, <1>3, <1>4, <1>5, <1>6, <1>7, <1>8, <1>9, <1>10, <1>11, <1>12, <1>13, <1>14, <1>15, <1>16, <1>17, <1>18, <1>19, <1>20, <1>21, <1>22, <1>23, <1>24, <1>25, <1>26, <1>27

LEMMA HelmWords ==
    ASSUME NEW r
    PROVE  /\ Helm!Proxies = Proxies
           /\ Helm!Kind(r) = Kind(r)
           /\ Helm!Start(r) = Start(r)
           /\ \A pc : Helm!At(r, pc) <=> At(r, pc)
           /\ \A pc : Helm!Goto(r, pc) <=> Goto(r, pc)
           /\ \A what : Helm!Reply(r, what) <=> Reply(r, what)
           /\ \A kind, repos : Helm!Asks(r, kind, repos) <=> Asks(r, kind, repos)
           /\ Helm!Quiet <=> Quiet
           /\ \A kind : Helm!Fault(kind) <=> Fault(kind)
           /\ \A repo : Helm!Ancestors(repo) = Ancestors(repo)
           /\ Helm!Source(r) = Source(r)
           /\ Helm!CommitRecord(r) <=> CommitRecord(r)
           /\ \A from, then : Helm!SetFlag(r, from, then) <=> SetFlag(r, from, then)
           /\ Helm!Rebuilding = Rebuilding
           /\ \A spot, dir : Helm!Served(spot, dir) = Served(spot, dir)
           /\ \A repo : Helm!Overlap(r, repo) = Overlap(r, repo)
           /\ Helm!ClearFlag(r) <=> ClearFlag(r)
           /\ \A spot, dir, list, key : Helm!PutIndex(spot, dir, list, key) <=> PutIndex(spot, dir, list, key)
           /\ \A then : Helm!Rebuilt(r, then) <=> Rebuilt(r, then)
           /\ \A repo : Helm!Rebuild(r, repo) <=> Rebuild(r, repo)
           /\ Helm!ProxyClear(r) <=> ProxyClear(r)
           /\ Helm!Member(r) = Member(r)
           /\ Helm!MoreMembers(r) <=> MoreMembers(r)
           /\ \A merged, list : Helm!FirstWins(merged, list) = FirstWins(merged, list)
           /\ Helm!MemberFails(r) <=> MemberFails(r)
           /\ \A repo, p : Helm!Holding(repo, p) = Holding(repo, p)
           /\ \A repos : Helm!Trying(r, repos) <=> Trying(r, repos)
           /\ \A found : Helm!Delivered(r, found) = Delivered(r, found)
           /\ \A repos : Helm!HoldsOrNot(r, repos) <=> HoldsOrNot(r, repos)
           /\ \A missed : Helm!CacheLookup(r, missed) <=> CacheLookup(r, missed)
           /\ \A claimed : Helm!TryClaim(r, claimed) <=> TryClaim(r, claimed)
           /\ Helm!AskUpstream(r) <=> AskUpstream(r)
           /\ Helm!StoreFetched(r) <=> StoreFetched(r)
<1>1. Helm!Proxies = Proxies
  BY DEF Helm!Proxies, Proxies
<1>2. Helm!Kind(r) = Kind(r)
  BY DEF Helm!Kind, Kind
<1>3. Helm!Start(r) = Start(r)
  BY DEF Helm!Start, Start
<1>4. \A pc : Helm!At(r, pc) <=> At(r, pc)
  BY DEF Helm!At, At
<1>5. \A pc : Helm!Goto(r, pc) <=> Goto(r, pc)
  BY DEF Helm!Goto, Goto
<1>6. \A what : Helm!Reply(r, what) <=> Reply(r, what)
  BY DEF Helm!Reply, Helm!Start, Reply, Start
<1>7. \A kind, repos : Helm!Asks(r, kind, repos) <=> Asks(r, kind, repos)
  BY DEF Helm!Asks, Helm!At, Helm!Kind, Asks, At, Kind
<1>8. Helm!Quiet <=> Quiet
  BY DEF Helm!Quiet, Quiet
<1>9. \A kind : Helm!Fault(kind) <=> Fault(kind)
  BY DEF Helm!Fault, Fault
<1>10. \A repo : Helm!Ancestors(repo) = Ancestors(repo)
  BY DEF Helm!Ancestors, Helm!Parents, Helm!Proxies, Helm!Members, Ancestors, Parents, Proxies, Members
<1>11. Helm!Source(r) = Source(r)
  BY DEF Helm!Source, Helm!Kind, Source, Kind
<1>12. Helm!CommitRecord(r) <=> CommitRecord(r)
  BY DEF Helm!CommitRecord, Helm!upload_preamble, Helm!Asks, Helm!At, Helm!Kind, Helm!Repos,
         Helm!resolve_format_write_target, Helm!Proxies, Helm!Members, Helm!PutRec, Helm!Quiet, CommitRecord,
         upload_preamble, Asks, At, Kind, Repos, resolve_format_write_target, Proxies, Members, PutRec, Quiet
<1>13. \A from, then : Helm!SetFlag(r, from, then) <=> SetFlag(r, from, then)
  BY DEF Helm!SetFlag, Helm!At, Helm!Propagate, Helm!Ancestors, Helm!Parents, Helm!Proxies, Helm!Members,
         Helm!Addressed, Helm!Source, Helm!Kind, SetFlag, At, Propagate, Ancestors, Parents, Proxies, Members,
         Addressed, Source, Kind
<1>14. Helm!Rebuilding = Rebuilding
  BY DEF Helm!Rebuilding, Rebuilding
<1>15. \A spot, dir : Helm!Served(spot, dir) = Served(spot, dir)
  BY DEF Helm!Served, Helm!CommitPoint, Served, CommitPoint
<1>16. \A repo : Helm!Overlap(r, repo) = Overlap(r, repo)
  BY DEF Helm!Overlap, Helm!Rebuilding, Overlap, Rebuilding
<1>17. Helm!ClearFlag(r) <=> ClearFlag(r)
  BY DEF Helm!ClearFlag, Helm!At, Helm!Overlap, Helm!Rebuilding, ClearFlag, At, Overlap, Rebuilding
<1>18. \A spot, dir, list, key : Helm!PutIndex(spot, dir, list, key) <=> PutIndex(spot, dir, list, key)
  BY DEF Helm!PutIndex, Helm!CommitPoint, PutIndex, CommitPoint
<1>19. \A then : Helm!Rebuilt(r, then) <=> Rebuilt(r, then)
  BY DEF Helm!Rebuilt, Helm!Start, Helm!OfMember, Helm!Proxies, Rebuilt, Start, OfMember, Proxies
<1>20. \A repo : Helm!Rebuild(r, repo) <=> Rebuild(r, repo)
  BY DEF Helm!Rebuild, Rebuild
<1>21. Helm!ProxyClear(r) <=> ProxyClear(r)
  BY DEF Helm!ProxyClear, Helm!At, Helm!Goto, Helm!Merging, Helm!Kind, Helm!Rebuilding, ProxyClear, At, Goto, Merging,
         Kind, Rebuilding
<1>22. Helm!Member(r) = Member(r)
  BY DEF Helm!Member, Helm!Members, Member, Members
<1>23. Helm!MoreMembers(r) <=> MoreMembers(r)
  BY DEF Helm!MoreMembers, Helm!Members, MoreMembers, Members
<1>24. \A merged, list : Helm!FirstWins(merged, list) = FirstWins(merged, list)
  BY DEF Helm!FirstWins, FirstWins
<1>25. Helm!MemberFails(r) <=> MemberFails(r)
  BY DEF Helm!MemberFails, Helm!Rebuilding, Helm!OfMember, Helm!Proxies, Helm!Fault, Helm!Start, Helm!state,
         MemberFails, Rebuilding, OfMember, Proxies, Fault, Start, state
<1>26. \A repo, p : Helm!Holding(repo, p) = Holding(repo, p)
  BY DEF Helm!Holding, Helm!Listed, Helm!Entry, Holding, Listed, Entry
<1>27. \A repos : Helm!Trying(r, repos) <=> Trying(r, repos)
  BY DEF Helm!Trying, Helm!Kind, Helm!From, Helm!Proxies, Helm!Members, Trying, Kind, From, Proxies, Members
<1>28. \A found : Helm!Delivered(r, found) = Delivered(r, found)
  BY DEF Helm!Delivered, Helm!Start, Delivered, Start
<1>29. \A repos : Helm!HoldsOrNot(r, repos) <=> HoldsOrNot(r, repos)
  BY DEF Helm!HoldsOrNot, Helm!Trying, Helm!Kind, Helm!From, Helm!Proxies, Helm!Members, Helm!Holding, Helm!Listed,
         Helm!Entry, Helm!Delivered, Helm!Start, Helm!NotHere, Helm!Quiet, Helm!state, HoldsOrNot, Trying, Kind, From,
         Proxies, Members, Holding, Listed, Entry, Delivered, Start, NotHere, Quiet, state
<1>30. \A missed : Helm!CacheLookup(r, missed) <=> CacheLookup(r, missed)
  BY DEF Helm!CacheLookup, Helm!Trying, Helm!Kind, Helm!From, Helm!Proxies, Helm!Members, Helm!Holding, Helm!Listed,
         Helm!Entry, Helm!Delivered, Helm!Start, Helm!Quiet, Helm!state, CacheLookup, Trying, Kind, From, Proxies,
         Members, Holding, Listed, Entry, Delivered, Start, Quiet, state
<1>31. \A claimed : Helm!TryClaim(r, claimed) <=> TryClaim(r, claimed)
  BY DEF Helm!TryClaim, Helm!At, Helm!Claim, Helm!Goto, Helm!Quiet, Helm!state, TryClaim, At, Claim, Goto, Quiet,
         state
<1>32. Helm!AskUpstream(r) <=> AskUpstream(r)
  BY DEF Helm!AskUpstream, Helm!At, Helm!Quiet, Helm!Woken, Helm!Claim, Helm!NotHere, Helm!From, Helm!Proxies,
         Helm!Members, Helm!Start, Helm!Unclaimed, Helm!Fault, AskUpstream, At, Quiet, Woken, Claim, NotHere, From,
         Proxies, Members, Start, Unclaimed, Fault
<1>33. Helm!StoreFetched(r) <=> StoreFetched(r)
  BY DEF Helm!StoreFetched, Helm!At, Helm!PutRec, Helm!Woken, Helm!Claim, Helm!Delivered, Helm!Start, Helm!Unclaimed,
         Helm!Quiet, StoreFetched, At, PutRec, Woken, Claim, Delivered, Start, Unclaimed, Quiet
<1> QED BY <1>1, <1>2, <1>3, <1>4, <1>5, <1>6, <1>7, <1>8, <1>9, <1>10, <1>11, <1>12, <1>13, <1>14, <1>15, <1>16, <1>17, <1>18, <1>19, <1>20, <1>21, <1>22, <1>23, <1>24, <1>25, <1>26, <1>27, <1>28, <1>29, <1>30, <1>31, <1>32, <1>33

LEMMA NpmWords ==
    ASSUME NEW r
    PROVE  /\ Npm!Proxies = Proxies
           /\ Npm!Kind(r) = Kind(r)
           /\ \A pc : Npm!At(r, pc) <=> At(r, pc)
           /\ \A pc : Npm!Goto(r, pc) <=> Goto(r, pc)
           /\ \A what : Npm!Reply(r, what) <=> Reply(r, what)
           /\ \A kind, repos : Npm!Asks(r, kind, repos) <=> Asks(r, kind, repos)
           /\ Npm!Quiet <=> Quiet
           /\ \A kind : Npm!Fault(kind) <=> Fault(kind)
           /\ \A p, v : Npm!Entry(p, v) = Entry(p, v)
           /\ \A repo, p, v : Npm!PutRec(repo, p, v) <=> PutRec(repo, p, v)
           /\ \A target : Npm!upload_preamble(r, target) <=> upload_preamble(r, target)
           /\ \A from, then : Npm!Propagate(r, from, then) <=> Propagate(r, from, then)
           /\ Npm!Addressed(r) = Addressed(r)
           /\ \A spot, dir : Npm!Served(spot, dir) = Served(spot, dir)
           /\ \A spot, dir, list, key : Npm!PutIndex(spot, dir, list, key) <=> PutIndex(spot, dir, list, key)
           /\ \A q : Npm!Merging(q) <=> Merging(q)
           /\ Npm!Member(r) = Member(r)
           /\ Npm!MoreMembers(r) <=> MoreMembers(r)
           /\ \A merged, list : Npm!FirstWins(merged, list) = FirstWins(merged, list)
           /\ \A repos : Npm!HoldsOrNot(r, repos) <=> HoldsOrNot(r, repos)
           /\ \A missed : Npm!CacheLookup(r, missed) <=> CacheLookup(r, missed)
           /\ Npm!AskUpstream(r) <=> AskUpstream(r)
<1>1. Npm!Proxies = Proxies
  BY DEF Npm!Proxies, Proxies
<1>2. Npm!Kind(r) = Kind(r)
  BY DEF Npm!Kind, Kind
<1>3. \A pc : Npm!At(r, pc) <=> At(r, pc)
  BY DEF Npm!At, At
<1>4. \A pc : Npm!Goto(r, pc) <=> Goto(r, pc)
  BY DEF Npm!Goto, Goto
<1>5. \A what : Npm!Reply(r, what) <=> Reply(r, what)
  BY DEF Npm!Reply, Npm!Start, Reply, Start
<1>6. \A kind, repos : Npm!Asks(r, kind, repos) <=> Asks(r, kind, repos)
  BY DEF Npm!Asks, Npm!At, Npm!Kind, Asks, At, Kind
<1>7. Npm!Quiet <=> Quiet
  BY DEF Npm!Quiet, Quiet
<1>8. \A kind : Npm!Fault(kind) <=> Fault(kind)
  BY DEF Npm!Fault, Fault
<1>9. \A p, v : Npm!Entry(p, v) = Entry(p, v)
  BY DEF Npm!Entry, Entry
<1>10. \A repo, p, v : Npm!PutRec(repo, p, v) <=> PutRec(repo, p, v)
  BY DEF Npm!PutRec, PutRec
<1>11. \A target : Npm!upload_preamble(r, target) <=> upload_preamble(r, target)
  BY DEF Npm!upload_preamble, Npm!Asks, Npm!At, Npm!Kind, Npm!Repos, Npm!resolve_format_write_target, Npm!Proxies,
         Npm!Members, upload_preamble, Asks, At, Kind, Repos, resolve_format_write_target, Proxies, Members
<1>12. \A from, then : Npm!Propagate(r, from, then) <=> Propagate(r, from, then)
  BY DEF Npm!Propagate, Npm!Ancestors, Npm!Parents, Npm!Proxies, Npm!Members, Propagate, Ancestors, Parents, Proxies,
         Members
<1>13. Npm!Addressed(r) = Addressed(r)
  BY DEF Npm!Addressed, Npm!Source, Npm!Kind, Npm!Proxies, Addressed, Source, Kind, Proxies
<1>14. \A spot, dir : Npm!Served(spot, dir) = Served(spot, dir)
  BY DEF Npm!Served, Npm!CommitPoint, Served, CommitPoint
<1>15. \A spot, dir, list, key : Npm!PutIndex(spot, dir, list, key) <=> PutIndex(spot, dir, list, key)
  BY DEF Npm!PutIndex, Npm!CommitPoint, PutIndex, CommitPoint
<1>16. \A q : Npm!Merging(q) <=> Merging(q)
  BY DEF Npm!Merging, Npm!Kind, Npm!Rebuilding, Merging, Kind, Rebuilding
<1>17. Npm!Member(r) = Member(r)
  BY DEF Npm!Member, Npm!Members, Member, Members
<1>18. Npm!MoreMembers(r) <=> MoreMembers(r)
  BY DEF Npm!MoreMembers, Npm!Members, MoreMembers, Members
<1>19. \A merged, list : Npm!FirstWins(merged, list) = FirstWins(merged, list)
  BY DEF Npm!FirstWins, FirstWins
<1>20. \A repos : Npm!HoldsOrNot(r, repos) <=> HoldsOrNot(r, repos)
  BY DEF Npm!HoldsOrNot, Npm!Trying, Npm!Kind, Npm!From, Npm!Proxies, Npm!Members, Npm!Holding, Npm!Listed, Npm!Entry,
         Npm!Delivered, Npm!Start, Npm!NotHere, Npm!Quiet, Npm!state, HoldsOrNot, Trying, Kind, From, Proxies,
         Members, Holding, Listed, Entry, Delivered, Start, NotHere, Quiet, state
<1>21. \A missed : Npm!CacheLookup(r, missed) <=> CacheLookup(r, missed)
  BY DEF Npm!CacheLookup, Npm!Trying, Npm!Kind, Npm!From, Npm!Proxies, Npm!Members, Npm!Holding, Npm!Listed,
         Npm!Entry, Npm!Delivered, Npm!Start, Npm!Quiet, Npm!state, CacheLookup, Trying, Kind, From, Proxies, Members,
         Holding, Listed, Entry, Delivered, Start, Quiet, state
<1>22. Npm!AskUpstream(r) <=> AskUpstream(r)
  BY DEF Npm!AskUpstream, Npm!At, Npm!Quiet, Npm!Woken, Npm!Claim, Npm!NotHere, Npm!From, Npm!Proxies, Npm!Members,
         Npm!Start, Npm!Unclaimed, Npm!Fault, AskUpstream, At, Quiet, Woken, Claim, NotHere, From, Proxies, Members,
         Start, Unclaimed, Fault
<1> QED BY <1>1, <1>2, <1>3, <1>4, <1>5, <1>6, <1>7, <1>8, <1>9, <1>10, <1>11, <1>12, <1>13, <1>14, <1>15, <1>16, <1>17, <1>18, <1>19, <1>20, <1>21, <1>22

LEMMA PypiWords ==
    ASSUME NEW r
    PROVE  /\ Pypi!Proxies = Proxies
           /\ Pypi!Kind(r) = Kind(r)
           /\ \A pc : Pypi!At(r, pc) <=> At(r, pc)
           /\ \A pc : Pypi!Goto(r, pc) <=> Goto(r, pc)
           /\ \A what : Pypi!Reply(r, what) <=> Reply(r, what)
           /\ \A kind, repos : Pypi!Asks(r, kind, repos) <=> Asks(r, kind, repos)
           /\ Pypi!Quiet <=> Quiet
           /\ \A kind : Pypi!Fault(kind) <=> Fault(kind)
           /\ \A after : Pypi!Woken(r, after) = Woken(r, after)
           /\ Pypi!Unclaimed(r) = Unclaimed(r)
           /\ \A repo : Pypi!Listed(repo) = Listed(repo)
           /\ Pypi!Source(r) = Source(r)
           /\ Pypi!CommitRecord(r) <=> CommitRecord(r)
           /\ \A from, then : Pypi!SetFlag(r, from, then) <=> SetFlag(r, from, then)
           /\ \A spot, dir : Pypi!Served(spot, dir) = Served(spot, dir)
           /\ \A spot, dir, list, key : Pypi!PutIndex(spot, dir, list, key) <=> PutIndex(spot, dir, list, key)
           /\ Pypi!ProxyClear(r) <=> ProxyClear(r)
           /\ Pypi!Member(r) = Member(r)
           /\ Pypi!MoreMembers(r) <=> MoreMembers(r)
           /\ \A merged, list : Pypi!FirstWins(merged, list) = FirstWins(merged, list)
           /\ \A repo, p : Pypi!Holding(repo, p) = Holding(repo, p)
           /\ Pypi!NotHere(r) = NotHere(r)
           /\ \A found : Pypi!Delivered(r, found) = Delivered(r, found)
           /\ \A repos : Pypi!HoldsOrNot(r, repos) <=> HoldsOrNot(r, repos)
           /\ \A missed : Pypi!CacheLookup(r, missed) <=> CacheLookup(r, missed)
           /\ \A claimed : Pypi!TryClaim(r, claimed) <=> TryClaim(r, claimed)
           /\ Pypi!AskUpstream(r) <=> AskUpstream(r)
           /\ Pypi!StoreFetched(r) <=> StoreFetched(r)
<1>1. Pypi!Proxies = Proxies
  BY DEF Pypi!Proxies, Proxies
<1>2. Pypi!Kind(r) = Kind(r)
  BY DEF Pypi!Kind, Kind
<1>3. \A pc : Pypi!At(r, pc) <=> At(r, pc)
  BY DEF Pypi!At, At
<1>4. \A pc : Pypi!Goto(r, pc) <=> Goto(r, pc)
  BY DEF Pypi!Goto, Goto
<1>5. \A what : Pypi!Reply(r, what) <=> Reply(r, what)
  BY DEF Pypi!Reply, Pypi!Start, Reply, Start
<1>6. \A kind, repos : Pypi!Asks(r, kind, repos) <=> Asks(r, kind, repos)
  BY DEF Pypi!Asks, Pypi!At, Pypi!Kind, Asks, At, Kind
<1>7. Pypi!Quiet <=> Quiet
  BY DEF Pypi!Quiet, Quiet
<1>8. \A kind : Pypi!Fault(kind) <=> Fault(kind)
  BY DEF Pypi!Fault, Fault
<1>9. \A after : Pypi!Woken(r, after) = Woken(r, after)
  BY DEF Pypi!Woken, Pypi!Claim, Pypi!At, Woken, Claim, At
<1>10. Pypi!Unclaimed(r) = Unclaimed(r)
  BY DEF Pypi!Unclaimed, Pypi!Claim, Unclaimed, Claim
<1>11. \A repo : Pypi!Listed(repo) = Listed(repo)
  BY DEF Pypi!Listed, Pypi!Entry, Listed, Entry
<1>12. Pypi!Source(r) = Source(r)
  BY DEF Pypi!Source, Pypi!Kind, Source, Kind
<1>13. Pypi!CommitRecord(r) <=> CommitRecord(r)
  BY DEF Pypi!CommitRecord, Pypi!upload_preamble, Pypi!Asks, Pypi!At, Pypi!Kind, Pypi!Repos,
         Pypi!resolve_format_write_target, Pypi!Proxies, Pypi!Members, Pypi!PutRec, Pypi!Quiet, CommitRecord,
         upload_preamble, Asks, At, Kind, Repos, resolve_format_write_target, Proxies, Members, PutRec, Quiet
<1>14. \A from, then : Pypi!SetFlag(r, from, then) <=> SetFlag(r, from, then)
  BY DEF Pypi!SetFlag, Pypi!At, Pypi!Propagate, Pypi!Ancestors, Pypi!Parents, Pypi!Proxies, Pypi!Members,
         Pypi!Addressed, Pypi!Source, Pypi!Kind, SetFlag, At, Propagate, Ancestors, Parents, Proxies, Members,
         Addressed, Source, Kind
<1>15. \A spot, dir : Pypi!Served(spot, dir) = Served(spot, dir)
  BY DEF Pypi!Served, Pypi!CommitPoint, Served, CommitPoint
<1>16. \A spot, dir, list, key : Pypi!PutIndex(spot, dir, list, key) <=> PutIndex(spot, dir, list, key)
  BY DEF Pypi!PutIndex, Pypi!CommitPoint, PutIndex, CommitPoint
<1>17. Pypi!ProxyClear(r) <=> ProxyClear(r)
  BY DEF Pypi!ProxyClear, Pypi!At, Pypi!Goto, Pypi!Merging, Pypi!Kind, Pypi!Rebuilding, ProxyClear, At, Goto, Merging,
         Kind, Rebuilding
<1>18. Pypi!Member(r) = Member(r)
  BY DEF Pypi!Member, Pypi!Members, Member, Members
<1>19. Pypi!MoreMembers(r) <=> MoreMembers(r)
  BY DEF Pypi!MoreMembers, Pypi!Members, MoreMembers, Members
<1>20. \A merged, list : Pypi!FirstWins(merged, list) = FirstWins(merged, list)
  BY DEF Pypi!FirstWins, FirstWins
<1>21. \A repo, p : Pypi!Holding(repo, p) = Holding(repo, p)
  BY DEF Pypi!Holding, Pypi!Listed, Pypi!Entry, Holding, Listed, Entry
<1>22. Pypi!NotHere(r) = NotHere(r)
  BY DEF Pypi!NotHere, Pypi!From, Pypi!Proxies, Pypi!Members, Pypi!Start, NotHere, From, Proxies, Members, Start
<1>23. \A found : Pypi!Delivered(r, found) = Delivered(r, found)
  BY DEF Pypi!Delivered, Pypi!Start, Delivered, Start
<1>24. \A repos : Pypi!HoldsOrNot(r, repos) <=> HoldsOrNot(r, repos)
  BY DEF Pypi!HoldsOrNot, Pypi!Trying, Pypi!Kind, Pypi!From, Pypi!Proxies, Pypi!Members, Pypi!Holding, Pypi!Listed,
         Pypi!Entry, Pypi!Delivered, Pypi!Start, Pypi!NotHere, Pypi!Quiet, Pypi!state, HoldsOrNot, Trying, Kind, From,
         Proxies, Members, Holding, Listed, Entry, Delivered, Start, NotHere, Quiet, state
<1>25. \A missed : Pypi!CacheLookup(r, missed) <=> CacheLookup(r, missed)
  BY DEF Pypi!CacheLookup, Pypi!Trying, Pypi!Kind, Pypi!From, Pypi!Proxies, Pypi!Members, Pypi!Holding, Pypi!Listed,
         Pypi!Entry, Pypi!Delivered, Pypi!Start, Pypi!Quiet, Pypi!state, CacheLookup, Trying, Kind, From, Proxies,
         Members, Holding, Listed, Entry, Delivered, Start, Quiet, state
<1>26. \A claimed : Pypi!TryClaim(r, claimed) <=> TryClaim(r, claimed)
  BY DEF Pypi!TryClaim, Pypi!At, Pypi!Claim, Pypi!Goto, Pypi!Quiet, Pypi!state, TryClaim, At, Claim, Goto, Quiet,
         state
<1>27. Pypi!AskUpstream(r) <=> AskUpstream(r)
  BY DEF Pypi!AskUpstream, Pypi!At, Pypi!Quiet, Pypi!Woken, Pypi!Claim, Pypi!NotHere, Pypi!From, Pypi!Proxies,
         Pypi!Members, Pypi!Start, Pypi!Unclaimed, Pypi!Fault, AskUpstream, At, Quiet, Woken, Claim, NotHere, From,
         Proxies, Members, Start, Unclaimed, Fault
<1>28. Pypi!StoreFetched(r) <=> StoreFetched(r)
  BY DEF Pypi!StoreFetched, Pypi!At, Pypi!PutRec, Pypi!Woken, Pypi!Claim, Pypi!Delivered, Pypi!Start, Pypi!Unclaimed,
         Pypi!Quiet, StoreFetched, At, PutRec, Woken, Claim, Delivered, Start, Unclaimed, Quiet
<1> QED BY <1>1, <1>2, <1>3, <1>4, <1>5, <1>6, <1>7, <1>8, <1>9, <1>10, <1>11, <1>12, <1>13, <1>14, <1>15, <1>16, <1>17, <1>18, <1>19, <1>20, <1>21, <1>22, <1>23, <1>24, <1>25, <1>26, <1>27, <1>28

LEMMA CargoWords ==
    ASSUME NEW r
    PROVE  /\ Cargo!Proxies = Proxies
           /\ Cargo!Kind(r) = Kind(r)
           /\ \A pc : Cargo!At(r, pc) <=> At(r, pc)
           /\ \A pc : Cargo!Goto(r, pc) <=> Goto(r, pc)
           /\ \A what : Cargo!Reply(r, what) <=> Reply(r, what)
           /\ \A kind, repos : Cargo!Asks(r, kind, repos) <=> Asks(r, kind, repos)
           /\ Cargo!Quiet <=> Quiet
           /\ \A repo : Cargo!Listed(repo) = Listed(repo)
           /\ \A repo, p, v : Cargo!PutRec(repo, p, v) <=> PutRec(repo, p, v)
           /\ \A target : Cargo!upload_preamble(r, target) <=> upload_preamble(r, target)
           /\ Cargo!Member(r) = Member(r)
           /\ Cargo!NextMember(r) <=> NextMember(r)
           /\ Cargo!MoreMembers(r) <=> MoreMembers(r)
           /\ \A repo, p : Cargo!Holding(repo, p) = Holding(repo, p)
           /\ \A repos : Cargo!HoldsOrNot(r, repos) <=> HoldsOrNot(r, repos)
<1>1. Cargo!Proxies = Proxies
  BY DEF Cargo!Proxies, Proxies
<1>2. Cargo!Kind(r) = Kind(r)
  BY DEF Cargo!Kind, Kind
<1>3. \A pc : Cargo!At(r, pc) <=> At(r, pc)
  BY DEF Cargo!At, At
<1>4. \A pc : Cargo!Goto(r, pc) <=> Goto(r, pc)
  BY DEF Cargo!Goto, Goto
<1>5. \A what : Cargo!Reply(r, what) <=> Reply(r, what)
  BY DEF Cargo!Reply, Cargo!Start, Reply, Start
<1>6. \A kind, repos : Cargo!Asks(r, kind, repos) <=> Asks(r, kind, repos)
  BY DEF Cargo!Asks, Cargo!At, Cargo!Kind, Asks, At, Kind
<1>7. Cargo!Quiet <=> Quiet
  BY DEF Cargo!Quiet, Quiet
<1>8. \A repo : Cargo!Listed(repo) = Listed(repo)
  BY DEF Cargo!Listed, Cargo!Entry, Listed, Entry
<1>9. \A repo, p, v : Cargo!PutRec(repo, p, v) <=> PutRec(repo, p, v)
  BY DEF Cargo!PutRec, PutRec
<1>10. \A target : Cargo!upload_preamble(r, target) <=> upload_preamble(r, target)
  BY DEF Cargo!upload_preamble, Cargo!Asks, Cargo!At, Cargo!Kind, Cargo!Repos, Cargo!resolve_format_write_target,
         Cargo!Proxies, Cargo!Members, upload_preamble, Asks, At, Kind, Repos, resolve_format_write_target, Proxies,
         Members
<1>11. Cargo!Member(r) = Member(r)
  BY DEF Cargo!Member, Cargo!Members, Member, Members
<1>12. Cargo!NextMember(r) <=> NextMember(r)
  BY DEF Cargo!NextMember, NextMember
<1>13. Cargo!MoreMembers(r) <=> MoreMembers(r)
  BY DEF Cargo!MoreMembers, Cargo!Members, MoreMembers, Members
<1>14. \A repo, p : Cargo!Holding(repo, p) = Holding(repo, p)
  BY DEF Cargo!Holding, Cargo!Listed, Cargo!Entry, Holding, Listed, Entry
<1>15. \A repos : Cargo!HoldsOrNot(r, repos) <=> HoldsOrNot(r, repos)
  BY DEF Cargo!HoldsOrNot, Cargo!Trying, Cargo!Kind, Cargo!From, Cargo!Proxies, Cargo!Members, Cargo!Holding,
         Cargo!Listed, Cargo!Entry, Cargo!Delivered, Cargo!Start, Cargo!NotHere, Cargo!Quiet, Cargo!state, HoldsOrNot,
         Trying, Kind, From, Proxies, Members, Holding, Listed, Entry, Delivered, Start, NotHere, Quiet, state
<1> QED BY <1>1, <1>2, <1>3, <1>4, <1>5, <1>6, <1>7, <1>8, <1>9, <1>10, <1>11, <1>12, <1>13, <1>14, <1>15

LEMMA GolangWords ==
    ASSUME NEW r
    PROVE  /\ Golang!Kind(r) = Kind(r)
           /\ \A pc : Golang!At(r, pc) <=> At(r, pc)
           /\ \A pc : Golang!Goto(r, pc) <=> Goto(r, pc)
           /\ \A what : Golang!Reply(r, what) <=> Reply(r, what)
           /\ \A kind, repos : Golang!Asks(r, kind, repos) <=> Asks(r, kind, repos)
           /\ Golang!Quiet <=> Quiet
           /\ \A kind : Golang!Fault(kind) <=> Fault(kind)
           /\ \A p, v : Golang!Entry(p, v) = Entry(p, v)
           /\ \A repo, p, v : Golang!PutRec(repo, p, v) <=> PutRec(repo, p, v)
           /\ \A target : Golang!upload_preamble(r, target) <=> upload_preamble(r, target)
           /\ \A repos : Golang!Trying(r, repos) <=> Trying(r, repos)
           /\ Golang!NotHere(r) = NotHere(r)
           /\ \A repos : Golang!HoldsOrNot(r, repos) <=> HoldsOrNot(r, repos)
           /\ \A missed : Golang!CacheLookup(r, missed) <=> CacheLookup(r, missed)
           /\ Golang!AskUpstream(r) <=> AskUpstream(r)
           /\ Golang!StoreFetched(r) <=> StoreFetched(r)
<1>1. Golang!Kind(r) = Kind(r)
  BY DEF Golang!Kind, Kind
<1>2. \A pc : Golang!At(r, pc) <=> At(r, pc)
  BY DEF Golang!At, At
<1>3. \A pc : Golang!Goto(r, pc) <=> Goto(r, pc)
  BY DEF Golang!Goto, Goto
<1>4. \A what : Golang!Reply(r, what) <=> Reply(r, what)
  BY DEF Golang!Reply, Golang!Start, Reply, Start
<1>5. \A kind, repos : Golang!Asks(r, kind, repos) <=> Asks(r, kind, repos)
  BY DEF Golang!Asks, Golang!At, Golang!Kind, Asks, At, Kind
<1>6. Golang!Quiet <=> Quiet
  BY DEF Golang!Quiet, Quiet
<1>7. \A kind : Golang!Fault(kind) <=> Fault(kind)
  BY DEF Golang!Fault, Fault
<1>8. \A p, v : Golang!Entry(p, v) = Entry(p, v)
  BY DEF Golang!Entry, Entry
<1>9. \A repo, p, v : Golang!PutRec(repo, p, v) <=> PutRec(repo, p, v)
  BY DEF Golang!PutRec, PutRec
<1>10. \A target : Golang!upload_preamble(r, target) <=> upload_preamble(r, target)
  BY DEF Golang!upload_preamble, Golang!Asks, Golang!At, Golang!Kind, Golang!Repos,
         Golang!resolve_format_write_target, Golang!Proxies, Golang!Members, upload_preamble, Asks, At, Kind, Repos,
         resolve_format_write_target, Proxies, Members
<1>11. \A repos : Golang!Trying(r, repos) <=> Trying(r, repos)
  BY DEF Golang!Trying, Golang!Kind, Golang!From, Golang!Proxies, Golang!Members, Trying, Kind, From, Proxies, Members
<1>12. Golang!NotHere(r) = NotHere(r)
  BY DEF Golang!NotHere, Golang!From, Golang!Proxies, Golang!Members, Golang!Start, NotHere, From, Proxies, Members,
         Start
<1>13. \A repos : Golang!HoldsOrNot(r, repos) <=> HoldsOrNot(r, repos)
  BY DEF Golang!HoldsOrNot, Golang!Trying, Golang!Kind, Golang!From, Golang!Proxies, Golang!Members, Golang!Holding,
         Golang!Listed, Golang!Entry, Golang!Delivered, Golang!Start, Golang!NotHere, Golang!Quiet, Golang!state,
         HoldsOrNot, Trying, Kind, From, Proxies, Members, Holding, Listed, Entry, Delivered, Start, NotHere, Quiet,
         state
<1>14. \A missed : Golang!CacheLookup(r, missed) <=> CacheLookup(r, missed)
  BY DEF Golang!CacheLookup, Golang!Trying, Golang!Kind, Golang!From, Golang!Proxies, Golang!Members, Golang!Holding,
         Golang!Listed, Golang!Entry, Golang!Delivered, Golang!Start, Golang!Quiet, Golang!state, CacheLookup, Trying,
         Kind, From, Proxies, Members, Holding, Listed, Entry, Delivered, Start, Quiet, state
<1>15. Golang!AskUpstream(r) <=> AskUpstream(r)
  BY DEF Golang!AskUpstream, Golang!At, Golang!Quiet, Golang!Woken, Golang!Claim, Golang!NotHere, Golang!From,
         Golang!Proxies, Golang!Members, Golang!Start, Golang!Unclaimed, Golang!Fault, AskUpstream, At, Quiet, Woken,
         Claim, NotHere, From, Proxies, Members, Start, Unclaimed, Fault
<1>16. Golang!StoreFetched(r) <=> StoreFetched(r)
  BY DEF Golang!StoreFetched, Golang!At, Golang!PutRec, Golang!Woken, Golang!Claim, Golang!Delivered, Golang!Start,
         Golang!Unclaimed, Golang!Quiet, StoreFetched, At, PutRec, Woken, Claim, Delivered, Start, Unclaimed, Quiet
<1> QED BY <1>1, <1>2, <1>3, <1>4, <1>5, <1>6, <1>7, <1>8, <1>9, <1>10, <1>11, <1>12, <1>13, <1>14, <1>15, <1>16

LEMMA AsideNext ==
    ASSUME NEW r, NEW y, reqs'[r] = y, format' = format,
           y.pc \in Aside, y.cur \in Spots, y.proxy \in Spots, y.at \in Nat \ {0}, y.dir \in Places, y.key \in Tokens,
           y.merged \subseteq Entries, y.list \subseteq Entries, format \in {"helm", "npm"} => Single(y.merged)
    PROVE  Own(r, reqs[r])' /\ ~Leads(y)
<1>1. Fits(r, reqs[r])'
  BY DEF Fits, Aside
<1>2. Apart(reqs[r])'
  BY DEF Apart, Aside
<1>3. Stored(reqs[r])' /\ Parted(r, reqs[r])' /\ Claimed(r, reqs[r])' /\ ~Leads(y)
  BY DEF Stored, Parted, Claimed, Leads, Aside
<1> QED BY <1>1, <1>2, <1>3 DEF Own

LEMMA GotoGrown ==
    ASSUME Safe, NEW r \in DOMAIN reqs, NEW pc \in Aside, reqs[r].pc \notin {"version", "tags", "refreshed", "keep"},
           Goto(r, pc), Grown
    PROVE  Safe'
<1> PICK W : reqs \in [DOMAIN reqs -> Request(W)]
  BY DEF Safe, Shaped
<1> PICK y : y = [reqs[r] EXCEPT !.pc = pc]
  OBVIOUS
<1>1. Turned(r, y) /\ IsRequest(y)
  BY ShapePc DEF Goto, Turned
<1>2. /\ y.pc = pc /\ y.dir = reqs[r].dir /\ y.cur = reqs[r].cur /\ y.list = reqs[r].list /\ y.proxy = reqs[r].proxy
      /\ y.at = reqs[r].at /\ y.key = reqs[r].key /\ y.merged = reqs[r].merged
  BY DEF Request
<1>3. /\ y.pc \in Aside /\ y.cur \in Spots /\ y.proxy \in Spots /\ y.at \in Nat \ {0} /\ y.dir \in Places /\ y.key \in Tokens
      /\ y.merged \subseteq Entries /\ y.list \subseteq Entries /\ (format \in {"helm", "npm"} => Single(y.merged))
  BY <1>2, OwnFits
<1>4. Own(r, reqs[r])'
  BY <1>1, <1>3, AsideNext DEF Turned, Grown
<1> QED BY <1>1, <1>2, <1>4, GrownSafe DEF Leads, Aside

\* A request is answered with what it stores.
LEMMA ReplyGrown ==
    ASSUME Safe, NEW r \in DOMAIN reqs, NEW what, Reply(r, what), Grown
    PROVE  Safe'
<1> PICK y : Over(r, y) /\ Turned(r, y)
  BY ReplyOver
<1>1. Own(r, reqs[r])' /\ ~Leads(y) /\ IsRequest(y)
  BY InReqs, OverOwn DEF Turned
<1> QED BY <1>1, GrownSafe

-----------------------------------------------------------------------------
(* apt.                                                                    *)

LEMMA AptUploadSafe ==
    ASSUME Safe, NEW r \in DOMAIN reqs, format = "apt", Apt!handle_upload(r) \/ Apt!upload_component_apt(r)
    PROVE  Safe'
<1>1. \/ CommitRecord(r) \/ FlagAlone(r)
      \/ \E then \in {"done", "timestamp"} : SetFlag(r, Ask[r].repo, then)
  BY AptWords DEF Apt!handle_upload, Apt!upload_component_apt, Apt!commit_package, Apt!set_stale_flag_inner
<1> QED BY <1>1, CommitRecordSafe, FlagAloneSafe, SetFlagSafe

LEMMA KeySafe ==
    ASSUME Safe, NEW r \in DOMAIN reqs, reqs' = [reqs EXCEPT ![r].pc = "clear", ![r].key = keys.priv], At(r, "start"), Silent
    PROVE  Safe'
<1> PICK W : reqs \in [DOMAIN reqs -> Request(W)]
  BY DEF Safe, Shaped
<1> PICK y : y = [reqs[r] EXCEPT !.pc = "clear", !.key = keys.priv]
  OBVIOUS
<1>1. Turned(r, y) /\ IsRequest(y)
  BY ShapePcKey DEF Turned
<1>2. /\ y.pc = "clear" /\ y.dir = reqs[r].dir /\ y.cur = reqs[r].cur /\ y.list = reqs[r].list /\ y.proxy = reqs[r].proxy
      /\ y.at = reqs[r].at /\ y.key = keys.priv /\ y.merged = reqs[r].merged
  BY DEF Request
<1>3. keys.priv \in Tokens /\ reqs[r].pc = "start"
  BY DEF Safe, StateSafe, StateTyped, At
<1>4. /\ y.pc \in Aside /\ y.cur \in Spots /\ y.proxy \in Spots /\ y.at \in Nat \ {0} /\ y.dir \in Places /\ y.key \in Tokens
      /\ y.merged \subseteq Entries /\ y.list \subseteq Entries /\ (format \in {"helm", "npm"} => Single(y.merged))
  BY <1>2, <1>3, OwnFits DEF Aside
<1>5. Own(r, y) /\ ~Leads(y)
  BY <1>4, AsideOwn
<1> QED BY <1>1, <1>5, SilentSafe

LEMMA AptServeSafe ==
    ASSUME Safe, NEW r \in DOMAIN reqs, format = "apt",
           Apt!serve_metadata(r) \/ Apt!get_metadata(r) \/ Apt!proxy_serve_metadata(r)
    PROVE  Safe'
<1>1. CASE Apt!serve_metadata(r)
  <2>1. /\ Quiet /\ UNCHANGED state /\ At(r, "start")
        /\ reqs' = [reqs EXCEPT ![r].pc = "clear", ![r].key = keys.priv] \/ Goto(r, "serve")
    BY <1>1, AptWords DEF Apt!serve_metadata, Apt!state, state, Asks
  <2> QED BY <2>1, QuietSilent, KeySafe, GotoSafe DEF Aside, At
<1>2. CASE Apt!get_metadata(r)
  <2>1. Quiet /\ UNCHANGED state /\ \E what : Reply(r, what)
    BY <1>2, AptWords DEF Apt!get_metadata, Apt!state, state
  <2> QED BY <2>1, QuietSilent, ReplySafe
<1>3. CASE Apt!proxy_serve_metadata(r)
  BY <1>3, AptWords, ProxyCheckSafe DEF Apt!proxy_serve_metadata
<1> QED BY <1>1, <1>2, <1>3

LEMMA AptRebuildSafe ==
    ASSUME Safe, NEW r \in DOMAIN reqs, format = "apt", Apt!rebuild_metadata(r)
    PROVE  Safe'
<1>1. CASE Apt!ScanShard(r, Apt!AllInOne)
  <2> PICK p \in reqs[r].todo : reqs' = [reqs EXCEPT
           ![r].list = reqs[r].list \cup {e \in Listed(reqs[r].cur) : e.pkg = p},
           ![r].pc = IF reqs[r].todo = {p} THEN "write" ELSE "scan",
           ![r].todo = IF reqs[r].todo = {p} THEN {Root} ELSE @ \ {p}]
    BY <1>1 DEF Apt!ScanShard, Apt!AllInOne, Apt!Listed, Apt!Entry, Listed, Entry
  <2>1. Quiet /\ UNCHANGED state /\ At(r, "scan") /\ {Root} \in SUBSET Places
    BY <1>1 DEF Apt!ScanShard, Apt!At, At, Apt!Quiet, Quiet, Apt!state, state, Places
  <2> QED BY <2>1, ScanShardSafe
<1>2. CASE ClearFlag(r) \/ WriteFiles(r) \/ CommitIndex(r, "serve")
  BY <1>2, ClearFlagSafe, WriteFilesSafe, CommitIndexSafe DEF Aside
<1> QED BY <1>1, <1>2, AptWords DEF Apt!rebuild_metadata, Apt!clear_stale_flag, Apt!store_metadata_file, Apt!store_inrelease

LEMMA AptCacheSafe ==
    ASSUME Safe, NEW r \in DOMAIN reqs, format = "apt", Apt!cache_serve_metadata(r)
    PROVE  Safe'
<1>0. \A kind : Fault(kind) => risk \subseteq risk' /\ faults' \in 0 .. MaxFaults
  BY PackageAssumption DEF Fault, Safe, StateSafe, StateTyped
<1>a. format \notin {"helm", "npm"} /\ offer \subseteq Entries
  BY DEF Safe, StateSafe, StateTyped
<1>b. Quiet => format' = format /\ risk \subseteq risk' /\ faults' \in 0 .. MaxFaults
  BY DEF Quiet, Safe, StateSafe, StateTyped
<1>1. CASE /\ Asks(r, "get", {Cache}) /\ Goto(r, "lazy") /\ (Quiet \/ (\E kind : Fault(kind) /\ UNCHANGED format))
           /\ UNCHANGED state
  BY <1>1, QuietSilent, FaultSilent, GotoSafe DEF Aside, Asks, At
<1>2. CASE /\ Asks(r, "get", {Cache}) /\ PutIndex(Cache, Root, offer, None) /\ Goto(r, "flag") /\ Quiet
           /\ UNCHANGED <<recs, flags, files, offer, fresh, keys, depth, extra>>
  <2>1. Grown
    BY <1>2, <1>a, <1>b, PutIndexTyped, ExtraStays DEF Safe, StateSafe, StateTyped, Spots, Repos, Places, Tokens
  <2> QED BY <1>2, <2>1, GotoGrown DEF Aside, Asks, At
<1>3. CASE At(r, "timestamp") /\ Goto(r, "lazy") /\ Quiet /\ fresh' = TRUE /\ UNCHANGED <<recs, flags, index, files, offer, keys, depth, extra>>
  <2>1. Silent
    BY <1>3, <1>b DEF Silent, Safe, StateSafe, StateTyped
  <2> QED BY <1>3, <2>1, GotoSafe DEF Aside, At
<1>4. CASE (\E what : Reply(r, what)) /\ (Quiet \/ (\E kind : Fault(kind) /\ UNCHANGED format)) /\ UNCHANGED state
  BY <1>4, QuietSilent, FaultSilent, ReplySafe
<1>5. CASE (\E what : Reply(r, what)) /\ Quiet /\ files' = files \cup {[spot |-> Cache, dir |-> Root, list |-> offer]}
           /\ UNCHANGED <<recs, flags, index, offer, fresh, keys, depth, extra>>
  <2>1. Grown
    BY <1>5, <1>a, <1>b, ExtraStays DEF Grown, File, Safe, StateSafe, StateTyped, Spots, Repos, Places
  <2> QED BY <1>5, <2>1, ReplyGrown
<1> QED BY <1>1, <1>2, <1>3, <1>4, <1>5, AptWords DEF Apt!cache_serve_metadata, state

LEMMA AptProxySafe ==
    ASSUME Safe, NEW r \in DOMAIN reqs, format = "apt", Apt!rebuild_proxy_apt_metadata(r)
    PROVE  Safe'
<1>1. CASE ProxyClear(r) \/ MemberFails(r)
  BY <1>1, ProxyClearSafe, MemberFailsSafe
<1>2. CASE At(r, "members") /\ Quiet /\ UNCHANGED state /\ reqs' = [reqs EXCEPT ![r].pc = "merge", ![r].at = 1]
  <2> PICK W : reqs \in [DOMAIN reqs -> Request(W)]
    BY DEF Safe, Shaped
  <2> PICK y : y = [reqs[r] EXCEPT !.pc = "merge", !.at = 1]
    OBVIOUS
  <2>1. Turned(r, y) /\ IsRequest(y)
    BY <1>2, ShapePcAt DEF Turned
  <2>2. /\ y.pc = "merge" /\ y.dir = reqs[r].dir /\ y.cur = reqs[r].cur /\ y.list = reqs[r].list /\ y.proxy = reqs[r].proxy
        /\ y.at = 1 /\ y.key = reqs[r].key /\ y.merged = reqs[r].merged
    BY DEF Request
  <2>3. /\ y.pc \in Aside /\ y.cur \in Spots /\ y.proxy \in Spots /\ y.at \in Nat \ {0} /\ y.dir \in Places /\ y.key \in Tokens
        /\ y.merged \subseteq Entries /\ y.list \subseteq Entries /\ (format \in {"helm", "npm"} => Single(y.merged))
    BY <1>2, <2>2, OwnFits DEF Aside, At
  <2> QED BY <1>2, <2>1, <2>3, AsideOwn, QuietSilent, SilentSafe
<1>3. CASE At(r, "members") /\ Quiet /\ UNCHANGED state /\ Rebuild(r, Hosted)
  BY <1>3, QuietSilent, RebuildSafe DEF Repos, At
<1>4. CASE reqs[r].pc \in {"members", "taken"} /\ Quiet /\ UNCHANGED state /\ NextMember(r)
  BY <1>4, QuietSilent, NextMemberSafe
<1>5. CASE At(r, "merge") /\ Merge(r)
  BY <1>5, MergeSafe DEF At
<1>6. CASE ProxyWrite(r) /\ Quiet /\ UNCHANGED state
  BY <1>6, QuietSilent, ProxyWriteSafe
<1> QED BY <1>1, <1>2, <1>3, <1>4, <1>5, <1>6, AptWords DEF Apt!rebuild_proxy_apt_metadata, Apt!state, state, At

LEMMA FileCopied ==
    ASSUME NEW g \in File
    PROVE  [g EXCEPT !.spot = Snap] = [spot |-> Snap, dir |-> g.dir, list |-> g.list]
BY DEF File

LEMMA AptSnapshotSafe ==
    ASSUME Safe, NEW r \in DOMAIN reqs, format = "apt", Apt!create_snapshot(r)
    PROVE  Safe'
<1> PICK W : reqs \in [DOMAIN reqs -> Request(W)]
  BY DEF Safe, Shaped
<1>0. Own(r, reqs[r]) /\ format \notin {"helm", "npm"} /\ (Quiet => format' = format /\ risk' = risk /\ faults' \in 0 .. MaxFaults)
  BY DEF Safe, Quiet, StateSafe, StateTyped
<1>1. CASE (\E what : Reply(r, what)) /\ Quiet /\ UNCHANGED state
  BY <1>1, QuietSilent, ReplySafe
<1>2. CASE /\ At(r, "start") /\ Quiet /\ UNCHANGED state
           /\ \E i \in CommitPoint(Hosted, Root) :
                reqs' = [reqs EXCEPT ![r].pc = "snap files", ![r].list = i.list, ![r].key = keys.priv]
  <2> PICK i \in CommitPoint(Hosted, Root) :
             reqs' = [reqs EXCEPT ![r].pc = "snap files", ![r].list = i.list, ![r].key = keys.priv]
    BY <1>2
  <2> PICK y : y = [reqs[r] EXCEPT !.pc = "snap files", !.list = i.list, !.key = keys.priv]
    OBVIOUS
  <2>1. Turned(r, y) /\ IsRequest(y)
    BY ShapePcListKey DEF Turned
  <2>2. /\ y.pc = "snap files" /\ y.dir = reqs[r].dir /\ y.cur = reqs[r].cur /\ y.list = i.list /\ y.proxy = reqs[r].proxy
        /\ y.at = reqs[r].at /\ y.key = keys.priv /\ y.merged = reqs[r].merged /\ y.todo = reqs[r].todo
    BY DEF Request
  <2>3. i \in index /\ i.spot = Hosted /\ i.dir = Root /\ i.list \subseteq Entries /\ keys.priv \in Tokens
    BY DEF CommitPoint, Safe, StateSafe, StateTyped
  <2>4. "divided" \notin risk => [spot |-> Hosted, dir |-> Root, list |-> i.list] \in files
    BY <2>3, PackageAssumption DEF Safe, StateSafe, IndexServable
  <2>5. reqs[r].todo = {}
    BY <1>0, <1>2 DEF Own, Fits, Blank, At
  <2>6. Fits(r, y)
    BY <2>2, <2>3, <2>5, OwnFits DEF Fits
  <2>7. Stored(y)
    BY <2>2, <2>4 DEF Stored
  <2>8. Own(r, y) /\ ~Leads(y)
    BY <1>0, <2>2, <2>6, <2>7 DEF Own, Apart, Parted, Claimed, Leads
  <2> QED BY <1>2, <2>1, <2>8, QuietSilent, SilentSafe
<1>3. CASE /\ At(r, "snap files")
           /\ files' = files \cup {[f EXCEPT !.spot = Snap] : f \in {g \in files : g.spot = Hosted /\ g.list = reqs[r].list}}
           /\ Goto(r, "snap commit") /\ Quiet /\ UNCHANGED <<recs, flags, index, offer, fresh, keys, depth, extra>>
  <2> PICK y : y = [reqs[r] EXCEPT !.pc = "snap commit"]
    OBVIOUS
  <2>1. Turned(r, y) /\ IsRequest(y)
    BY <1>3, ShapePc DEF Turned, Goto
  <2>2. /\ y.pc = "snap commit" /\ y.dir = reqs[r].dir /\ y.cur = reqs[r].cur /\ y.list = reqs[r].list /\ y.proxy = reqs[r].proxy
        /\ y.at = reqs[r].at /\ y.key = reqs[r].key /\ y.merged = reqs[r].merged /\ y.todo = reqs[r].todo
    BY DEF Request
  <2>3. \A g \in files : [g EXCEPT !.spot = Snap] = [spot |-> Snap, dir |-> g.dir, list |-> g.list] /\ g \in File
    BY FileCopied DEF Safe, StateSafe, StateTyped
  <2>4. files' \ files \subseteq File
    <3> SUFFICES ASSUME NEW f \in files' \ files PROVE f \in File
      OBVIOUS
    <3> PICK g \in files : f = [g EXCEPT !.spot = Snap]
      BY <1>3
    <3> QED BY <2>3 DEF File, Spots
  <2>5. Grown
    BY <1>3, <1>0, <2>4, ExtraStays DEF Grown, Safe, StateSafe, StateTyped
  <2>6. "divided" \notin risk => [spot |-> Snap, dir |-> Root, list |-> reqs[r].list] \in files'
    <3> SUFFICES ASSUME "divided" \notin risk PROVE [spot |-> Snap, dir |-> Root, list |-> reqs[r].list] \in files'
      OBVIOUS
    <3> PICK g : g = [spot |-> Hosted, dir |-> Root, list |-> reqs[r].list]
      OBVIOUS
    <3>1. g \in files /\ g.spot = Hosted /\ g.list = reqs[r].list /\ g.dir = Root
      BY <1>0, <1>3 DEF Own, Stored, At
    <3> QED BY <1>3, <2>3, <3>1
  <2>7. reqs'[r] = y
    BY <2>1 DEF Turned
  <2>8. Fits(r, reqs[r])'
    BY <1>0, <1>3, <2>2, <2>7 DEF Own, Fits, At
  <2>9. Stored(reqs[r])'
    BY <1>0, <1>3, <2>2, <2>6, <2>7 DEF Stored
  <2>10. Own(r, reqs[r])' /\ ~Leads(y)
    BY <1>0, <1>3, <2>2, <2>7, <2>8, <2>9 DEF Own, Apart, Parted, Claimed, Leads
  <2> QED BY <2>1, <2>5, <2>10, GrownSafe
<1>4. CASE /\ At(r, "snap commit") /\ PutIndex(Snap, Root, reqs[r].list, reqs[r].key) /\ Reply(r, "created")
           /\ Quiet /\ UNCHANGED <<recs, flags, files, offer, fresh, keys, depth, extra>>
  <2>1. reqs[r].list \subseteq Entries /\ reqs[r].key \in Tokens
    BY <1>4, OwnFits DEF At
  <2>2. "divided" \notin risk => [spot |-> Snap, dir |-> Root, list |-> reqs[r].list] \in files'
    BY <1>0, <1>4 DEF Own, Stored, At
  <2>3. Grown
    BY <1>0, <1>4, <2>1, <2>2, PutIndexTyped, ExtraStays DEF Safe, StateSafe, StateTyped, Spots, Places
  <2>4. \E what : Reply(r, what)
    BY <1>4
  <2> QED BY <2>3, <2>4, ReplyGrown
<1>5. Apt!CommitPoint(Hosted, Root) = CommitPoint(Hosted, Root)
  BY AptWords
<1>6. \A pc, what : (Apt!At(r, pc) <=> At(r, pc)) /\ (Apt!Reply(r, what) <=> Reply(r, what)) /\ (Apt!Goto(r, pc) <=> Goto(r, pc))
  BY AptWords
<1>7. Apt!PutIndex(Snap, Root, reqs[r].list, reqs[r].key) <=> PutIndex(Snap, Root, reqs[r].list, reqs[r].key)
  BY AptWords
<1>8. (Apt!Quiet <=> Quiet) /\ (Apt!Asks(r, "snapshot", {Hosted}) => At(r, "start"))
  BY AptWords DEF Asks
<1> QED BY <1>1, <1>2, <1>3, <1>4, <1>5, <1>6, <1>7, <1>8 DEF Apt!create_snapshot, Apt!state, state

LEMMA AptKeysSafe ==
    ASSUME Safe, NEW r \in DOMAIN reqs, format = "apt", Apt!store_signing_key(r) \/ Apt!resign_all_distributions(r)
    PROVE  Safe'
<1> PICK W : reqs \in [DOMAIN reqs -> Request(W)]
  BY DEF Safe, Shaped
<1>0. Own(r, reqs[r]) /\ r \in Reqs /\ keys \in [priv : Tokens, pub : Tokens]
  BY InReqs DEF Safe, StateSafe, StateTyped
<1>1. CASE /\ keys' = [keys EXCEPT !.priv = r] \/ keys' = [keys EXCEPT !.pub = r]
           /\ (At(r, "start") /\ Goto(r, "public")) \/ (At(r, "public") /\ Goto(r, "resign"))
           /\ risk \subseteq risk' /\ UNCHANGED <<format, faults, recs, flags, index, files, offer, fresh, depth, extra>>
  <2>1. Silent
    BY <1>0, <1>1 DEF Silent, Safe, StateSafe, StateTyped, Tokens
  <2> QED BY <1>1, <2>1, GotoSafe DEF Aside, At
<1>2. CASE At(r, "resign") /\ Quiet /\ UNCHANGED state
           /\ \E spots \in SUBSET Spots : reqs' = [reqs EXCEPT ![r].pc = "resigning", ![r].todo = spots]
  <2> PICK spots \in SUBSET Spots : reqs' = [reqs EXCEPT ![r].pc = "resigning", ![r].todo = spots]
    BY <1>2
  <2> PICK y : y = [reqs[r] EXCEPT !.pc = "resigning", !.todo = spots]
    OBVIOUS
  <2>1. Turned(r, y) /\ IsRequest(y)
    BY ShapePcTodo DEF Turned
  <2>2. /\ y.pc = "resigning" /\ y.dir = reqs[r].dir /\ y.cur = reqs[r].cur /\ y.list = reqs[r].list /\ y.proxy = reqs[r].proxy
        /\ y.at = reqs[r].at /\ y.key = reqs[r].key /\ y.merged = reqs[r].merged /\ y.todo = spots
    BY DEF Request
  <2>3. Own(r, y) /\ ~Leads(y)
    BY <1>0, <1>2, <2>2 DEF Own, Fits, Apart, Stored, Parted, Claimed, Leads, At
  <2> QED BY <1>2, <2>1, <2>3, QuietSilent, SilentSafe
<1>3. CASE /\ At(r, "resigning") /\ Quiet /\ UNCHANGED <<recs, index, files, offer, fresh, keys, depth, extra>>
           /\ \E s \in reqs[r].todo : flags' = flags \cup {s} /\ reqs' = [reqs EXCEPT ![r].todo = @ \ {s}]
  <2> PICK s \in reqs[r].todo : flags' = flags \cup {s} /\ reqs' = [reqs EXCEPT ![r].todo = @ \ {s}]
    BY <1>3
  <2> PICK y : y = [reqs[r] EXCEPT !.todo = @ \ {s}]
    OBVIOUS
  <2>1. Turned(r, y) /\ IsRequest(y)
    BY ShapeTodo DEF Turned
  <2>2. /\ y.pc = reqs[r].pc /\ y.dir = reqs[r].dir /\ y.cur = reqs[r].cur /\ y.list = reqs[r].list /\ y.proxy = reqs[r].proxy
        /\ y.at = reqs[r].at /\ y.key = reqs[r].key /\ y.merged = reqs[r].merged /\ y.todo = reqs[r].todo \ {s}
    BY DEF Request
  <2>3. Own(r, y) /\ ~Leads(y)
    BY <1>0, <1>3, <2>2 DEF Own, Fits, Apart, Stored, Parted, Claimed, Leads, At
  <2>4. Silent
    BY <1>0, <1>3 DEF Silent, Quiet, Safe, StateSafe, StateTyped, Own, Fits, At
  <2> QED BY <2>1, <2>3, <2>4, SilentSafe
<1>4. CASE Reply(r, "rotated") /\ Quiet /\ UNCHANGED state
  BY <1>4, QuietSilent, ReplySafe
<1>5. CASE Apt!store_signing_key(r)
  BY <1>1, <1>5, AptWords DEF Apt!store_signing_key, Asks, Quiet
<1>6. CASE Apt!resign_all_distributions(r)
  <2>1. Apt!list_distributions \in SUBSET Spots
    BY DEF Apt!list_distributions, Spots, Repos
  <2> QED BY <1>2, <1>3, <1>4, <1>6, <2>1, AptWords DEF Apt!resign_all_distributions, Apt!state, state
<1> QED BY <1>5, <1>6

LEMMA AptSafe ==
    ASSUME Safe, NEW r \in DOMAIN reqs, format = "apt", Apt!AptStep(r)
    PROVE  Safe'
BY AptUploadSafe, AptServeSafe, AptRebuildSafe, AptCacheSafe, AptProxySafe, AptSnapshotSafe, AptKeysSafe DEF Apt!AptStep

-----------------------------------------------------------------------------
(* yum.                                                                    *)

LEMMA YumUploadSafe ==
    ASSUME Safe, NEW r \in DOMAIN reqs, format = "yum", Yum!handle_upload(r) \/ Yum!upload_component_yum(r)
    PROVE  Safe'
<1>1. CASE CommitRecord(r) \/ FlagAlone(r) \/ \E then \in {"done", "lazy"} : SetFlag(r, Ask[r].repo, then)
  BY <1>1, CommitRecordSafe, FlagAloneSafe, SetFlagSafe
<1>2. CASE At(r, "flag") /\ flags' = flags \cup {Hosted} /\ Goto(r, "clear") /\ Quiet
           /\ UNCHANGED <<recs, index, files, offer, fresh, keys, depth, extra>>
  <2>1. Silent
    BY <1>2 DEF Silent, Quiet, Safe, StateSafe, StateTyped, Spots, Repos
  <2> QED BY <1>2, <2>1, GotoSafe DEF Aside, At
<1> QED BY <1>1, <1>2, YumWords DEF Yum!handle_upload, Yum!upload_component_yum, Yum!commit_package, Yum!set_stale_flag_inner

\* A request goes on to such a step, with the depth of the configuration it loads.
LEMMA AsideSafe ==
    ASSUME Safe, NEW r \in DOMAIN reqs, NEW y, IsRequest(y), reqs' = [reqs EXCEPT ![r] = y], Silent,
           y.pc \in Aside, y.cur \in Spots, y.proxy \in Spots, y.at \in Nat \ {0}, y.dir \in Places, y.key \in Tokens,
           y.merged \subseteq Entries, y.list \subseteq Entries, format \in {"helm", "npm"} => Single(y.merged)
    PROVE  Safe'
<1> PICK W : reqs \in [DOMAIN reqs -> Request(W)]
  BY DEF Safe, Shaped
<1>1. Turned(r, y)
  BY DEF Turned
<1> QED BY <1>1, AsideOwn, SilentSafe

LEMMA LoadSafe ==
    ASSUME Safe, NEW r \in DOMAIN reqs, NEW pc \in Aside, NEW n, reqs[r].pc \notin {"version", "tags", "refreshed", "keep"},
           reqs' = [reqs EXCEPT ![r].pc = pc, ![r].depth = n], Silent
    PROVE  Safe'
<1> PICK W : reqs \in [DOMAIN reqs -> Request(W)]
  BY DEF Safe, Shaped
<1> PICK y : y = [reqs[r] EXCEPT !.pc = pc, !.depth = n]
  OBVIOUS
<1>1. IsRequest(y) /\ reqs' = [reqs EXCEPT ![r] = y]
  BY ShapePcDepth
<1>2. /\ y.pc = pc /\ y.dir = reqs[r].dir /\ y.cur = reqs[r].cur /\ y.list = reqs[r].list /\ y.proxy = reqs[r].proxy
      /\ y.at = reqs[r].at /\ y.key = reqs[r].key /\ y.merged = reqs[r].merged
  BY DEF Request
<1>3. /\ y.pc \in Aside /\ y.cur \in Spots /\ y.proxy \in Spots /\ y.at \in Nat \ {0} /\ y.dir \in Places /\ y.key \in Tokens
      /\ y.merged \subseteq Entries /\ y.list \subseteq Entries /\ (format \in {"helm", "npm"} => Single(y.merged))
  BY <1>2, OwnFits
<1> QED BY <1>1, <1>3, AsideSafe

LEMMA YumServeSafe ==
    ASSUME Safe, NEW r \in DOMAIN reqs, format = "yum",
           \/ Yum!yum_store_from_config(r) \/ Yum!serve_metadata(r) \/ Yum!get_metadata(r) \/ Yum!proxy_serve_metadata(r)
           \/ Yum!handle_create_snapshot(r) \/ Yum!rebuild_repodata_for_depth_change(r)
    PROVE  Safe'
<1> PICK W : reqs \in [DOMAIN reqs -> Request(W)]
  BY DEF Safe, Shaped
<1>1. CASE /\ Quiet /\ UNCHANGED state /\ reqs[r].pc \in {"loaded", "delete"}
           /\ \E pc \in {"clear", "serve", "snapshot", "flag"} : Goto(r, pc)
  BY <1>1, QuietSilent, GotoSafe DEF Aside
<1>2. CASE (\E what : Reply(r, what)) /\ Quiet /\ UNCHANGED state
  BY <1>2, QuietSilent, ReplySafe
<1>3. CASE ProxyCheck(r)
  BY <1>3, ProxyCheckSafe
<1>4. CASE Yum!handle_create_snapshot(r)
  BY <1>1, <1>4, YumWords DEF Yum!handle_create_snapshot, Yum!state, state, At
<1>6. CASE Yum!serve_metadata(r)
  <2>1. Quiet /\ UNCHANGED state /\ At(r, "loaded")
    BY <1>6, YumWords DEF Yum!serve_metadata, Yum!state, state
  <2>2. PICK pc \in {"clear", "serve"}, cur \in {Hosted, reqs[r].cur} : reqs' = [reqs EXCEPT ![r].pc = pc, ![r].cur = cur]
    BY <1>6 DEF Yum!serve_metadata
  <2> PICK y : y = [reqs[r] EXCEPT !.pc = pc, !.cur = cur]
    OBVIOUS
  <2>3. IsRequest(y) /\ reqs' = [reqs EXCEPT ![r] = y]
    BY <2>2, ShapePcCur
  <2>4. /\ y.pc = pc /\ y.dir = reqs[r].dir /\ y.cur = cur /\ y.list = reqs[r].list /\ y.proxy = reqs[r].proxy
        /\ y.at = reqs[r].at /\ y.key = reqs[r].key /\ y.merged = reqs[r].merged
    BY DEF Request
  <2>5. /\ y.pc \in Aside /\ y.cur \in Spots /\ y.proxy \in Spots /\ y.at \in Nat \ {0} /\ y.dir \in Places /\ y.key \in Tokens
        /\ y.merged \subseteq Entries /\ y.list \subseteq Entries
    BY <2>1, <2>4, OwnFits DEF Aside, At, Spots, Repos
  <2> QED BY <2>1, <2>3, <2>5, QuietSilent, AsideSafe
<1>7. CASE Yum!yum_store_from_config(r)
  <2>1. Quiet /\ UNCHANGED state /\ At(r, "start")
    BY <1>7, YumWords DEF Yum!yum_store_from_config, Yum!state, state, Asks
  <2>2. reqs' = [reqs EXCEPT ![r].pc = "loaded", ![r].depth = depth]
    BY <1>7 DEF Yum!yum_store_from_config
  <2> QED BY <2>1, <2>2, QuietSilent, LoadSafe DEF Aside, At
<1>8. CASE Yum!get_metadata(r)
  <2>1. \E what : Yum!Reply(r, what)
    BY <1>8 DEF Yum!get_metadata
  <2>2. Quiet /\ UNCHANGED state
    BY <1>8, YumWords DEF Yum!get_metadata, Yum!state, state
  <2> QED BY <1>2, <2>1, <2>2, YumWords
<1>5. CASE Yum!rebuild_repodata_for_depth_change(r)
  BY <1>1, <1>2, <1>5, YumWords DEF Yum!rebuild_repodata_for_depth_change, Yum!state, state, At
<1> QED BY <1>3, <1>4, <1>5, <1>6, <1>7, <1>8, YumWords DEF Yum!proxy_serve_metadata

LEMMA YumRebuildSafe ==
    ASSUME Safe, NEW r \in DOMAIN reqs, format = "yum", Yum!rebuild_metadata(r)
    PROVE  Safe'
<1>0. Yum!AfterRebuild(r) \in Aside
  BY DEF Yum!AfterRebuild, Aside
<1>1. CASE Yum!ScanShard(r, Yum!ByDirectory)
  <2>p. PICK p \in reqs[r].todo : reqs' = [reqs EXCEPT
           ![r].list = reqs[r].list \cup {e \in Listed(reqs[r].cur) : e.pkg = p},
           ![r].pc = IF reqs[r].todo = {p} THEN "write" ELSE "scan",
           ![r].todo = IF reqs[r].todo = {p}
                       THEN Yum!ByDirectory(reqs[r].depth, reqs[r].list \cup {e \in Listed(reqs[r].cur) : e.pkg = p})
                       ELSE @ \ {p}]
    BY <1>1 DEF Yum!ScanShard, Yum!Listed, Yum!Entry, Listed, Entry
  <2>1. Quiet /\ UNCHANGED state /\ At(r, "scan")
    BY <1>1 DEF Yum!ScanShard, Yum!At, At, Yum!Quiet, Quiet, Yum!state, state
  <2>2. reqs[r].list \cup {e \in Listed(reqs[r].cur) : e.pkg = p} \subseteq Entries
    BY <2>1, OwnFits, ListedFits DEF At
  <2>3. \A n : \A list \in SUBSET Entries : Yum!ByDirectory(n, list) \in SUBSET Places
    <3>1. \A n : \A p1 \in Pkgs : Yum!DirFor(Hosted, p1, n) \in Places
      BY PackageAssumption DEF Yum!DirFor, Places
    <3>2. \A e \in Entries : e.pkg \in Pkgs
      BY DEF Entries
    <3> SUFFICES ASSUME NEW n, NEW list \in SUBSET Entries, NEW d \in Yum!ByDirectory(n, list)
                 PROVE  d \in Places
      OBVIOUS
    <3>3. CASE d = Root
      BY <3>3 DEF Places
    <3>4. CASE \E e \in list : d = Yum!DirFor(Hosted, e.pkg, n)
      BY <3>1, <3>2, <3>4
    <3> QED BY <3>3, <3>4, Zenon DEF Yum!ByDirectory
  <2> PICK list : list = reqs[r].list \cup {e \in Listed(reqs[r].cur) : e.pkg = p}
    OBVIOUS
  <2> PICK dirs : dirs = Yum!ByDirectory(reqs[r].depth, list)
    OBVIOUS
  <2>4. dirs \in SUBSET Places
    BY <2>2, <2>3
  <2>5. reqs' = [reqs EXCEPT ![r].list = list, ![r].pc = IF reqs[r].todo = {p} THEN "write" ELSE "scan",
                             ![r].todo = IF reqs[r].todo = {p} THEN dirs ELSE @ \ {p}]
    BY <2>p
  <2> QED BY <2>1, <2>4, <2>5, ScanShardSafe
<1>2. CASE ClearFlag(r) \/ WriteFiles(r) \/ (\E then \in Aside : CommitIndex(r, then) \/ NoIndex(r, then))
  BY <1>2, ClearFlagSafe, WriteFilesSafe, CommitIndexSafe, NoIndexSafe
<1> QED BY <1>0, <1>1, <1>2, YumWords DEF Yum!rebuild_metadata, Yum!clear_stale_flag, Yum!store_metadata_file, Yum!store_repomd_at

LEMMA YumCacheSafe ==
    ASSUME Safe, NEW r \in DOMAIN reqs, format = "yum", Yum!cache_serve_metadata(r)
    PROVE  Safe'
<1>a. format \notin {"helm", "npm"} /\ offer \subseteq Entries
  BY DEF Safe, StateSafe, StateTyped
<1>b. Quiet => format' = format /\ risk \subseteq risk' /\ faults' \in 0 .. MaxFaults
  BY DEF Quiet, Safe, StateSafe, StateTyped
<1>1. CASE /\ Asks(r, "get", {Cache}) /\ Goto(r, "lazy") /\ (Quiet \/ (\E kind : Fault(kind) /\ UNCHANGED format))
           /\ UNCHANGED state
  BY <1>1, QuietSilent, FaultSilent, GotoSafe DEF Aside, Asks, At
<1>2. CASE /\ Asks(r, "get", {Cache}) /\ PutIndex(Cache, Root, offer, None) /\ fresh' = TRUE /\ Goto(r, "flag") /\ Quiet
           /\ UNCHANGED <<recs, flags, files, offer, keys, depth, extra>>
  <2>1. Grown
    BY <1>2, <1>a, <1>b, PutIndexTyped, ExtraStays DEF Safe, StateSafe, StateTyped, Spots, Repos, Places, Tokens
  <2> QED BY <1>2, <2>1, GotoGrown DEF Aside, Asks, At
<1>4. CASE (\E what : Reply(r, what)) /\ (Quiet \/ (\E kind : Fault(kind) /\ UNCHANGED format)) /\ UNCHANGED state
  BY <1>4, QuietSilent, FaultSilent, ReplySafe
<1>5. CASE (\E what : Reply(r, what)) /\ Quiet /\ files' = files \cup {[spot |-> Cache, dir |-> Root, list |-> offer]}
           /\ UNCHANGED <<recs, flags, index, offer, fresh, keys, depth, extra>>
  <2>1. Grown
    BY <1>5, <1>a, <1>b, ExtraStays DEF Grown, File, Safe, StateSafe, StateTyped, Spots, Repos, Places
  <2> QED BY <1>5, <2>1, ReplyGrown
<1> QED BY <1>1, <1>2, <1>4, <1>5, YumWords DEF Yum!cache_serve_metadata, state

LEMMA YumProxySafe ==
    ASSUME Safe, NEW r \in DOMAIN reqs, format = "yum", Yum!rebuild_proxy_yum_metadata(r)
    PROVE  Safe'
<1>1. CASE ProxyClear(r) \/ MemberFails(r)
  BY <1>1, ProxyClearSafe, MemberFailsSafe
<1>2. CASE reqs[r].pc \in {"members", "member"} /\ Quiet /\ UNCHANGED state /\ Goto(r, "taken")
  BY <1>2, QuietSilent, GotoSafe DEF Aside
<1>3. CASE reqs[r].pc \in {"members", "member"} /\ Quiet /\ UNCHANGED state /\ Rebuild(r, Hosted)
  BY <1>3, QuietSilent, RebuildSafe DEF Repos
<1>4. CASE /\ At(r, "members") /\ Quiet /\ UNCHANGED state
           /\ reqs' = [reqs EXCEPT ![r].pc = "member", ![r].depth = depth]
  BY <1>4, QuietSilent, LoadSafe DEF Aside, At
<1>5. CASE At(r, "taken") /\ Merge(r)
  BY <1>5, MergeSafe DEF At
<1>6. CASE ProxyWrite(r) /\ Quiet /\ UNCHANGED state
  BY <1>6, QuietSilent, ProxyWriteSafe
<1> QED BY <1>1, <1>2, <1>3, <1>4, <1>5, <1>6, YumWords DEF Yum!rebuild_proxy_yum_metadata, Yum!state, state, At

LEMMA YumSnapshotSafe ==
    ASSUME Safe, NEW r \in DOMAIN reqs, format = "yum", Yum!create_snapshot(r)
    PROVE  Safe'
<1> PICK W : reqs \in [DOMAIN reqs -> Request(W)]
  BY DEF Safe, Shaped
<1>0. Own(r, reqs[r]) /\ format \notin {"helm", "npm"} /\ (Quiet => format' = format /\ risk' = risk /\ faults' \in 0 .. MaxFaults)
  BY DEF Safe, Quiet, StateSafe, StateTyped
<1>1. CASE (\E what : Reply(r, what)) /\ Quiet /\ UNCHANGED state
  BY <1>1, QuietSilent, ReplySafe
<1>2. CASE /\ At(r, "snapshot") /\ Quiet /\ UNCHANGED state
           /\ \E dirs \in SUBSET Places : reqs' = [reqs EXCEPT ![r].pc = "snap files", ![r].todo = dirs]
  <2> PICK dirs \in SUBSET Places : reqs' = [reqs EXCEPT ![r].pc = "snap files", ![r].todo = dirs]
    BY <1>2
  <2> PICK y : y = [reqs[r] EXCEPT !.pc = "snap files", !.todo = dirs]
    OBVIOUS
  <2>1. Turned(r, y) /\ IsRequest(y)
    BY ShapePcTodo DEF Turned
  <2>2. /\ y.pc = "snap files" /\ y.dir = reqs[r].dir /\ y.cur = reqs[r].cur /\ y.list = reqs[r].list /\ y.proxy = reqs[r].proxy
        /\ y.at = reqs[r].at /\ y.key = reqs[r].key /\ y.merged = reqs[r].merged /\ y.todo = dirs
    BY DEF Request
  <2>3. Own(r, y) /\ ~Leads(y)
    BY <1>0, <1>2, <2>2 DEF Own, Fits, Apart, Stored, Parted, Claimed, Leads, At
  <2> QED BY <1>2, <2>1, <2>3, QuietSilent, SilentSafe
<1>3. CASE /\ At(r, "snap files") /\ Quiet /\ UNCHANGED <<recs, flags, index, offer, fresh, keys, depth, extra>> /\ UNCHANGED files
           /\ \E d \in reqs[r].todo : reqs' = [reqs EXCEPT ![r].todo = @ \ {d}]
  <2> PICK d \in reqs[r].todo : reqs' = [reqs EXCEPT ![r].todo = @ \ {d}]
    BY <1>3
  <2> PICK y : y = [reqs[r] EXCEPT !.todo = @ \ {d}]
    OBVIOUS
  <2>1. Turned(r, y) /\ IsRequest(y)
    BY ShapeTodo DEF Turned
  <2>2. /\ y.pc = reqs[r].pc /\ y.dir = reqs[r].dir /\ y.cur = reqs[r].cur /\ y.list = reqs[r].list /\ y.proxy = reqs[r].proxy
        /\ y.at = reqs[r].at /\ y.key = reqs[r].key /\ y.merged = reqs[r].merged /\ y.todo = reqs[r].todo \ {d}
    BY DEF Request
  <2>3. Own(r, y) /\ ~Leads(y)
    BY <1>0, <1>3, <2>2 DEF Own, Fits, Apart, Stored, Parted, Claimed, Leads, At
  <2> QED BY <1>3, <2>1, <2>3, QuietSilent, SilentSafe DEF state
<1>4. CASE /\ At(r, "snap files")
           /\ \E d \in reqs[r].todo : \E i \in CommitPoint(Hosted, d) :
                /\ files' = files \cup {[f EXCEPT !.spot = Snap] :
                                          f \in {g \in files : g.spot = Hosted /\ g.dir = d /\ g.list = i.list}}
                /\ reqs' = [reqs EXCEPT ![r].pc = "snap commit", ![r].dir = d, ![r].list = i.list]
           /\ Quiet /\ UNCHANGED <<recs, flags, index, offer, fresh, keys, depth, extra>>
  <2>b. PICK d \in reqs[r].todo : \E i \in CommitPoint(Hosted, d) :
             /\ files' = files \cup {[f EXCEPT !.spot = Snap] :
                                       f \in {g \in files : g.spot = Hosted /\ g.dir = d /\ g.list = i.list}}
             /\ reqs' = [reqs EXCEPT ![r].pc = "snap commit", ![r].dir = d, ![r].list = i.list]
    BY <1>4
  <2>c. PICK i \in CommitPoint(Hosted, d) :
             /\ files' = files \cup {[f EXCEPT !.spot = Snap] :
                                       f \in {g \in files : g.spot = Hosted /\ g.dir = d /\ g.list = i.list}}
             /\ reqs' = [reqs EXCEPT ![r].pc = "snap commit", ![r].dir = d, ![r].list = i.list]
    BY <2>b
  <2> PICK y : y = [reqs[r] EXCEPT !.pc = "snap commit", !.dir = d, !.list = i.list]
    OBVIOUS
  <2>1. Turned(r, y) /\ IsRequest(y)
    BY <2>c, ShapePcDirList DEF Turned
  <2>2. /\ y.pc = "snap commit" /\ y.dir = d /\ y.cur = reqs[r].cur /\ y.list = i.list /\ y.proxy = reqs[r].proxy
        /\ y.at = reqs[r].at /\ y.key = reqs[r].key /\ y.merged = reqs[r].merged /\ y.todo = reqs[r].todo
    BY DEF Request
  <2>3. \A g \in files : [g EXCEPT !.spot = Snap] = [spot |-> Snap, dir |-> g.dir, list |-> g.list] /\ g \in File
    BY FileCopied DEF Safe, StateSafe, StateTyped
  <2>4. files' \ files \subseteq File
    <3> SUFFICES ASSUME NEW f \in files' \ files PROVE f \in File
      OBVIOUS
    <3> PICK g \in files : f = [g EXCEPT !.spot = Snap]
      BY <2>c
    <3> QED BY <2>3 DEF File, Spots
  <2>5. Grown
    BY <1>4, <1>0, <2>4, <2>c, ExtraStays DEF Grown, Safe, StateSafe, StateTyped
  <2>a. i \in index /\ i.spot = Hosted /\ i.dir = d /\ i.list \subseteq Entries
    BY DEF CommitPoint, Safe, StateSafe, StateTyped
  <2>6. "divided" \notin risk => [spot |-> Snap, dir |-> d, list |-> i.list] \in files'
    <3> SUFFICES ASSUME "divided" \notin risk PROVE [spot |-> Snap, dir |-> d, list |-> i.list] \in files'
      OBVIOUS
    <3> PICK g : g = [spot |-> Hosted, dir |-> d, list |-> i.list]
      OBVIOUS
    <3>1. g \in files /\ g.spot = Hosted /\ g.list = i.list /\ g.dir = d
      BY <2>a, PackageAssumption DEF Safe, StateSafe, IndexServable
    <3> QED BY <2>3, <2>c, <3>1
  <2>7. reqs'[r] = y /\ d \in Places
    BY <1>0, <1>4, <2>1 DEF Turned, Own, Fits, At
  <2>8. Fits(r, reqs[r])'
    BY <1>0, <1>4, <2>2, <2>7, <2>a DEF Own, Fits, At
  <2>9. Stored(reqs[r])'
    BY <1>0, <1>4, <2>2, <2>6, <2>7 DEF Stored, Quiet
  <2>10. Own(r, reqs[r])' /\ ~Leads(y)
    BY <1>0, <1>4, <2>2, <2>7, <2>8, <2>9 DEF Own, Apart, Parted, Claimed, Leads
  <2> QED BY <2>1, <2>5, <2>10, GrownSafe
<1>5. CASE /\ At(r, "snap commit") /\ PutIndex(Snap, reqs[r].dir, reqs[r].list, None)
           /\ reqs' = [reqs EXCEPT ![r].pc = "snap files", ![r].todo = @ \ {reqs[r].dir}]
           /\ Quiet /\ UNCHANGED <<recs, flags, files, offer, fresh, keys, depth, extra>>
  <2> PICK y : y = [reqs[r] EXCEPT !.pc = "snap files", !.todo = @ \ {reqs[r].dir}]
    OBVIOUS
  <2>1. Turned(r, y) /\ IsRequest(y)
    BY <1>5, ShapePcTodo DEF Turned
  <2>2. /\ y.pc = "snap files" /\ y.dir = reqs[r].dir /\ y.cur = reqs[r].cur /\ y.list = reqs[r].list /\ y.proxy = reqs[r].proxy
        /\ y.at = reqs[r].at /\ y.key = reqs[r].key /\ y.merged = reqs[r].merged /\ y.todo = reqs[r].todo \ {reqs[r].dir}
    BY DEF Request
  <2>3. reqs[r].list \subseteq Entries /\ reqs[r].dir \in Places
    BY <1>5, OwnFits DEF At
  <2>4. "divided" \notin risk => [spot |-> Snap, dir |-> reqs[r].dir, list |-> reqs[r].list] \in files'
    BY <1>0, <1>5 DEF Own, Stored, At
  <2>5. Grown
    BY <1>0, <1>5, <2>3, <2>4, PutIndexTyped, ExtraStays DEF Safe, StateSafe, StateTyped, Spots, Tokens
  <2>6. reqs'[r] = y
    BY <2>1 DEF Turned
  <2>7. Fits(r, reqs[r])'
    BY <1>0, <1>5, <2>2, <2>6 DEF Own, Fits, At
  <2>8. Own(r, reqs[r])' /\ ~Leads(y)
    BY <1>0, <1>5, <2>2, <2>6, <2>7 DEF Own, Apart, Stored, Parted, Claimed, Leads
  <2> QED BY <2>1, <2>5, <2>8, GrownSafe
<1>6. CASE /\ At(r, "snapshot") /\ Quiet /\ UNCHANGED state
           /\ reqs' = [reqs EXCEPT ![r].pc = "snap files", ![r].todo = {i.dir : i \in {j \in index : j.spot = Hosted}}]
  <2>1. {i.dir : i \in {j \in index : j.spot = Hosted}} \in SUBSET Places
    BY DEF Safe, StateSafe, StateTyped
  <2> QED BY <1>2, <1>6, <2>1
<1>7. Yum!create_snapshot(r) =>
         \/ /\ At(r, "snapshot") /\ Quiet /\ UNCHANGED state
            /\ \/ Reply(r, "not found")
               \/ reqs' = [reqs EXCEPT ![r].pc = "snap files", ![r].todo = {i.dir : i \in {j \in index : j.spot = Hosted}}]
         \/ /\ At(r, "snap files") /\ Quiet /\ UNCHANGED <<recs, flags, index, offer, fresh, keys, depth, extra>>
            /\ \E d \in reqs[r].todo :
                 \/ reqs' = [reqs EXCEPT ![r].todo = @ \ {d}] /\ UNCHANGED files
                 \/ \E i \in CommitPoint(Hosted, d) :
                      /\ files' = files \cup {[f EXCEPT !.spot = Snap] :
                                f \in {g \in files : g.spot = Hosted /\ g.dir = d /\ g.list = i.list}}
                      /\ reqs' = [reqs EXCEPT ![r].pc = "snap commit", ![r].dir = d, ![r].list = i.list]
         \/ /\ At(r, "snap commit") /\ PutIndex(Snap, reqs[r].dir, reqs[r].list, None)
            /\ reqs' = [reqs EXCEPT ![r].pc = "snap files", ![r].todo = @ \ {reqs[r].dir}]
            /\ Quiet /\ UNCHANGED <<recs, flags, files, offer, fresh, keys, depth, extra>>
         \/ Reply(r, "created") /\ Quiet /\ UNCHANGED state
  BY DEF Yum!create_snapshot, Yum!state, state, Yum!At, At, Yum!Reply, Reply, Yum!Start, Start, Yum!CommitPoint, CommitPoint,
         Yum!PutIndex, PutIndex, Yum!Quiet, Quiet
<1> QED BY <1>1, <1>3, <1>4, <1>5, <1>6, <1>7

LEMMA YumDepthSafe ==
    ASSUME Safe, NEW r \in DOMAIN reqs, format = "yum", Yum!update_repo(r) \/ Yum!delete_all_repodata(r)
    PROVE  Safe'
<1> PICK W : reqs \in [DOMAIN reqs -> Request(W)]
  BY DEF Safe, Shaped
<1> PICK gone, n :
      \/ reqs' = [reqs EXCEPT ![r].pc = "changed", ![r].depth = n] /\ reqs[r].pc = "start"
      \/ reqs' = [reqs EXCEPT ![r].pc = "delete", ![r].todo = gone] /\ reqs[r].pc = "changed"
      \/ reqs' = [reqs EXCEPT ![r].pc = "delete", ![r].todo = @ \ {gone}] /\ reqs[r].pc = "delete"
  <2>1. At(r, "delete") => \A t : [reqs EXCEPT ![r].todo = t] = [reqs EXCEPT ![r].pc = "delete", ![r].todo = t]
    BY DEF At, Request
  <2>2. CASE Yum!update_repo(r)
    BY <2>2, YumWords DEF Yum!update_repo, At, Asks
  <2>3. CASE Yum!delete_all_repodata(r)
    BY <2>1, <2>3, YumWords DEF Yum!delete_all_repodata, At
  <2> QED BY <2>2, <2>3
<1>1. /\ index' \subseteq index /\ files' \subseteq files /\ depth' \in {0, 1} /\ "divided" \in risk'
      /\ risk \subseteq risk' /\ UNCHANGED <<format, faults, recs, flags, offer, fresh, keys, extra>>
  <2>1. reqs[r].pc \in {"changed", "delete"} => "divided" \in risk
    BY DEF Safe, Own, Stored
  <2>2. depth \in {0, 1}
    BY DEF Safe, StateSafe, StateTyped
  <2>3. CASE Yum!update_repo(r)
    BY <2>2, <2>3 DEF Yum!update_repo
  <2>4. CASE Yum!delete_all_repodata(r)
    BY <2>1, <2>2, <2>4 DEF Yum!delete_all_repodata, Yum!At, Yum!Quiet, Yum!state
  <2> QED BY <2>3, <2>4
<1> PICK y : \/ reqs[r].pc = "start" /\ y = [reqs[r] EXCEPT !.pc = "changed", !.depth = n]
             \/ reqs[r].pc = "changed" /\ y = [reqs[r] EXCEPT !.pc = "delete", !.todo = gone]
             \/ reqs[r].pc = "delete" /\ y = [reqs[r] EXCEPT !.pc = "delete", !.todo = @ \ {gone}]
  OBVIOUS
<1>2. Turned(r, y) /\ IsRequest(y)
  <2>1. Turned(r, y)
    BY DEF Turned
  <2>2. reqs[r] \in Request(W)
    OBVIOUS
  <2>3. IsRequest([reqs[r] EXCEPT !.pc = "changed", !.depth = n])
    BY <2>2, ShapePcDepth
  <2>4. \A t : IsRequest([reqs[r] EXCEPT !.pc = "delete", !.todo = t])
    BY <2>2, ShapePcTodo
  <2> QED BY <2>1, <2>3, <2>4
<1>3. /\ y.pc \in {"changed", "delete"} /\ y.dir = reqs[r].dir /\ y.cur = reqs[r].cur /\ y.list = reqs[r].list /\ y.proxy = reqs[r].proxy
      /\ y.at = reqs[r].at /\ y.key = reqs[r].key /\ y.merged = reqs[r].merged
  BY DEF Request
<1>4. StateSafe'
  <2>1. DOMAIN reqs' = DOMAIN reqs
    BY <1>2 DEF Turned
  <2>2. StateTyped'
    BY <1>1, <2>1 DEF Safe, StateSafe, StateTyped
  <2>3. StateApart' /\ IndexServable' /\ PartsInOrder'
    BY <1>1 DEF Safe, StateSafe, StateApart, IndexServable, PartsInOrder
  <2> QED BY <2>2, <2>3 DEF StateSafe
<1>5. Mono(r) /\ Kept'
  BY <1>1, SameKept DEF Mono
<1>6. reqs'[r] = y
  BY <1>2 DEF Turned
<1>7. Own(r, reqs[r])' /\ ~Leads(y)
  BY <1>1, <1>3, <1>6, OwnFits DEF Own, Fits, Apart, Stored, Parted, Claimed, Leads
<1> QED BY <1>2, <1>4, <1>5, <1>7, StepSafe

LEMMA YumSafe ==
    ASSUME Safe, NEW r \in DOMAIN reqs, format = "yum", Yum!YumStep(r)
    PROVE  Safe'
BY YumUploadSafe, YumServeSafe, YumRebuildSafe, YumCacheSafe, YumProxySafe, YumSnapshotSafe, YumDepthSafe DEF Yum!YumStep

-----------------------------------------------------------------------------
(* helm.                                                                   *)

\* The first entry of a package stays, so that each has one.
LEMMA FirstWinsFits ==
    ASSUME NEW merged, NEW list, merged \subseteq Entries, list \subseteq Entries
    PROVE  FirstWins(merged, list) \subseteq Entries /\ (Single(merged) /\ Single(list) => Single(FirstWins(merged, list)))
BY DEF FirstWins, Single

\* The members of a proxy are repositories.
LEMMA MemberSpot ==
    ASSUME Safe, NEW r \in DOMAIN reqs, MoreMembers(r)
    PROVE  Member(r) \in Repos
<1>1. reqs[r].at \in Nat \ {0}
  BY OwnFits
<1>2. CASE reqs[r].proxy = Proxy
  <2>1. Members(reqs[r].proxy) = <<Hosted, Cache>>
    BY <1>2 DEF Members
  <2>2. reqs[r].at = 1 \/ reqs[r].at = 2
    BY <1>1, <2>1 DEF MoreMembers
  <2> QED BY <2>1, <2>2 DEF Member, Repos
<1>3. CASE reqs[r].proxy # Proxy
  <2>1. Members(reqs[r].proxy) = <<Proxy>>
    BY <1>3 DEF Members
  <2>2. reqs[r].at = 1
    BY <1>1, <2>1 DEF MoreMembers
  <2> QED BY <2>1, <2>2 DEF Member, Repos
<1> QED BY <1>2, <1>3

\* The file is stored before the commit point that names it.
LEMMA StoredGrown ==
    ASSUME Safe, NEW spot \in Spots, NEW list, list \subseteq Entries, format \in {"helm", "npm"} => Single(list),
           PutIndex(spot, Root, list, None), files' = files \cup {[spot |-> spot, dir |-> Root, list |-> list]},
           format' = format, risk \subseteq risk', faults' \in 0 .. MaxFaults, flags' \subseteq Spots, fresh' \in BOOLEAN,
           extra' \in [claims : {extra.claims}, docs : {extra.docs}, tags : {extra.tags}, old : SUBSET Spots],
           UNCHANGED <<recs, offer, keys, depth>>
    PROVE  Grown
<1>1. files' \ files \subseteq File /\ files \subseteq files' /\ [spot |-> spot, dir |-> Root, list |-> list] \in files'
  BY DEF File, Places
<1>2. Root \in Places /\ None \in Tokens
  BY DEF Places, Tokens
<1> QED BY <1>1, <1>2, PutIndexTyped

LEMMA HelmUploadSafe ==
    ASSUME Safe, NEW r \in DOMAIN reqs, format = "helm", Helm!handle_upload(r) \/ Helm!upload_component_helm(r)
    PROVE  Safe'
<1>1. CommitRecord(r) \/ SetFlag(r, Source(r), "done")
  BY HelmWords DEF Helm!handle_upload, Helm!upload_component_helm, Helm!commit_chart, Helm!set_stale_flag
<1> QED BY <1>1, CommitRecordSafe, SetFlagSafe

LEMMA HelmRebuildSafe ==
    ASSUME Safe, NEW r \in DOMAIN reqs, format = "helm", Helm!rebuild_index(r)
    PROVE  Safe'
<1>1. CASE Helm!ScanShard(r, Helm!All)
  <2> PICK p \in reqs[r].todo : reqs' = [reqs EXCEPT
           ![r].list = reqs[r].list \cup {e \in Listed(reqs[r].cur) : e.pkg = p},
           ![r].pc = IF reqs[r].todo = {p} THEN "write" ELSE "scan",
           ![r].todo = IF reqs[r].todo = {p} THEN {Root} ELSE @ \ {p}]
    BY <1>1 DEF Helm!ScanShard, Helm!All, Helm!Listed, Helm!Entry, Listed, Entry
  <2>1. Quiet /\ UNCHANGED state /\ At(r, "scan") /\ {Root} \in SUBSET Places
    BY <1>1 DEF Helm!ScanShard, Helm!At, At, Helm!Quiet, Quiet, Helm!state, state, Places
  <2> QED BY <2>1, ScanShardSafe
<1>2. CASE At(r, "write") /\ Helm!store_index(reqs[r].cur, reqs[r].list) /\ Rebuilt(r, "serve") /\ Quiet
           /\ UNCHANGED <<recs, flags, offer, fresh, keys, depth, extra>>
  <2>1. reqs[r].cur \in Spots /\ reqs[r].list \subseteq Entries /\ Single(reqs[r].list)
    BY <1>2, OwnFits DEF Safe, Own, Apart, At
  <2>2. Grown
    BY <1>2, <2>1, StoredGrown, ExtraStays, HelmWords DEF Helm!store_index, Quiet, Safe, StateSafe, StateTyped
  <2> PICK y : IsRequest(y) /\ Turned(r, y) /\ Own(r, y)' /\ ~Leads(y)
    BY <1>2, RebuiltOwn DEF Quiet, At, Aside
  <2>3. Own(r, reqs[r])'
    BY DEF Turned
  <2> QED BY <2>2, <2>3, GrownSafe
<1> QED BY <1>1, <1>2, ClearFlagSafe, HelmWords DEF Helm!rebuild_index

LEMMA HelmServeSafe ==
    ASSUME Safe, NEW r \in DOMAIN reqs, format = "helm",
           Helm!hosted_get_index(r) \/ Helm!cache_get_index(r) \/ Helm!proxy_get_index(r)
    PROVE  Safe'
<1>1. CASE /\ Quiet /\ UNCHANGED state /\ reqs[r].pc \in {"start", "serve"}
           /\ \E pc \in {"clear", "serve", "refresh", "proxy clear"} : Goto(r, pc)
  BY <1>1, QuietSilent, GotoSafe DEF Aside
<1>2. CASE (\E what : Reply(r, what)) /\ (Quiet \/ (\E kind : Fault(kind) /\ UNCHANGED format)) /\ UNCHANGED state
  BY <1>2, QuietSilent, FaultSilent, ReplySafe
<1>3. CASE Helm!hosted_get_index(r)
  BY <1>1, <1>2, <1>3, HelmWords DEF Helm!hosted_get_index, Helm!state, state, Asks, At
<1>4. CASE Helm!cache_get_index(r)
  BY <1>1, <1>2, <1>4, HelmWords DEF Helm!cache_get_index, Helm!state, state, Asks, At
<1>5. CASE Helm!proxy_get_index(r)
  BY <1>1, <1>2, <1>5, HelmWords DEF Helm!proxy_get_index, Helm!state, state, Asks, At
<1> QED BY <1>3, <1>4, <1>5

LEMMA HelmRefreshSafe ==
    ASSUME Safe, NEW r \in DOMAIN reqs, format = "helm", Helm!refresh_cache_index(r)
    PROVE  Safe'
<1> PICK W : reqs \in [DOMAIN reqs -> Request(W)]
  BY DEF Safe, Shaped
<1>0. Own(r, reqs[r])
  BY DEF Safe
<1>1. CASE /\ At(r, "refresh") /\ reqs' = [reqs EXCEPT ![r].pc = "refreshed", ![r].list = Served(Cache, Root)]
           /\ (Quiet \/ (\E kind : Fault(kind) /\ UNCHANGED format)) /\ UNCHANGED state
  <2> PICK list : list = Served(Cache, Root)
    OBVIOUS
  <2> PICK y : y = [reqs[r] EXCEPT !.pc = "refreshed", !.list = list]
    OBVIOUS
  <2>1. Turned(r, y) /\ IsRequest(y)
    BY <1>1, ShapePcList DEF Turned
  <2>2. /\ y.pc = "refreshed" /\ y.dir = reqs[r].dir /\ y.cur = reqs[r].cur /\ y.list = list /\ y.proxy = reqs[r].proxy
        /\ y.at = reqs[r].at /\ y.key = reqs[r].key /\ y.merged = reqs[r].merged
    BY DEF Request
  <2>3. list = None \/ (list \subseteq Entries /\ Single(list))
    BY ServedFits
  <2>4. Own(r, y) /\ ~Leads(y)
    BY <1>0, <1>1, <2>2, <2>3 DEF Own, Fits, Apart, Stored, Parted, Claimed, Leads, At
  <2> QED BY <1>1, <2>1, <2>4, QuietSilent, FaultSilent, SilentSafe
<1>2. CASE /\ At(r, "refresh") /\ Helm!store_index(Cache, offer) /\ fresh' = TRUE /\ Quiet
           /\ UNCHANGED <<recs, flags, offer, keys, depth, extra>>
           /\ \E pc \in {"refreshed", "propagating"} :
                reqs' = [reqs EXCEPT ![r].list = offer, ![r].next = "refreshed", ![r].pc = pc, ![r].todo = Ancestors(Cache)]
  <2>p. PICK pc \in {"refreshed", "propagating"} :
             reqs' = [reqs EXCEPT ![r].list = offer, ![r].next = "refreshed", ![r].pc = pc, ![r].todo = Ancestors(Cache)]
    BY <1>2
  <2> PICK y : y = [reqs[r] EXCEPT !.pc = pc, !.todo = Ancestors(Cache), !.list = offer, !.next = "refreshed"]
    OBVIOUS
  <2>1. Turned(r, y) /\ IsRequest(y)
    BY <2>p, ShapePcTodoListNext DEF Turned
  <2>2. /\ y.pc = pc /\ y.dir = reqs[r].dir /\ y.cur = reqs[r].cur /\ y.list = offer /\ y.proxy = reqs[r].proxy
        /\ y.at = reqs[r].at /\ y.key = reqs[r].key /\ y.merged = reqs[r].merged /\ y.todo \subseteq Spots /\ y.next = "refreshed"
    BY AncestorSpots DEF Request
  <2>3. offer \subseteq Entries /\ Single(offer)
    BY DEF Safe, StateSafe, StateTyped, StateApart
  <2>4. Grown
    BY <1>2, <2>3, StoredGrown, ExtraStays, HelmWords DEF Helm!store_index, Quiet, Safe, StateSafe, StateTyped, Spots, Repos
  <2>5. reqs'[r] = y /\ format' = "helm"
    BY <1>2, <2>1 DEF Turned, Quiet
  <2>6. Fits(r, reqs[r])'
    BY <1>0, <1>2, <2>2, <2>3, <2>5 DEF Own, Fits, At
  <2>7. Apart(reqs[r])'
    BY <1>0, <1>2, <2>2, <2>3, <2>5 DEF Own, Apart, At
  <2>8. Own(r, reqs[r])' /\ ~Leads(y)
    BY <1>0, <2>2, <2>5, <2>6, <2>7 DEF Own, Stored, Parted, Claimed, Leads
  <2> QED BY <2>1, <2>4, <2>8, GrownSafe
<1>3. CASE /\ At(r, "refreshed") /\ Quiet /\ UNCHANGED state
           /\ \E more : more = (IF reqs[r].list = None THEN {} ELSE reqs[r].list) /\
                reqs' = [reqs EXCEPT ![r].pc = "members", ![r].at = @ + 1, ![r].todo = {}, ![r].list = {}, ![r].next = None,
                                     ![r].merged = FirstWins(@, more)]
  <2>p. PICK more : more = (IF reqs[r].list = None THEN {} ELSE reqs[r].list) /\
                reqs' = [reqs EXCEPT ![r].pc = "members", ![r].at = @ + 1, ![r].todo = {}, ![r].list = {}, ![r].next = None,
                                     ![r].merged = FirstWins(@, more)]
    BY <1>3
  <2> PICK y : y = [reqs[r] EXCEPT !.pc = "members", !.at = @ + 1, !.todo = {}, !.list = {}, !.next = None,
                                   !.merged = FirstWins(@, more)]
    OBVIOUS
  <2>1. Turned(r, y) /\ IsRequest(y)
    BY <2>p, ShapePcAtTodoListNextMerged DEF Turned
  <2>2. /\ y.pc = "members" /\ y.dir = reqs[r].dir /\ y.cur = reqs[r].cur /\ y.list = {} /\ y.proxy = reqs[r].proxy
        /\ y.at = reqs[r].at + 1 /\ y.key = reqs[r].key /\ y.merged = FirstWins(reqs[r].merged, more)
    BY DEF Request
  <2>3. more \subseteq Entries /\ Single(more) /\ reqs[r].at + 1 \in Nat \ {0}
    BY <1>0, <1>3, <2>p, OwnFits DEF Own, Fits, Apart, At, Single
  <2>4. y.merged \subseteq Entries /\ Single(y.merged)
    BY <1>3, <2>2, <2>3, OwnFits, FirstWinsFits DEF At
  <2>5. /\ y.pc \in Aside /\ y.cur \in Spots /\ y.proxy \in Spots /\ y.at \in Nat \ {0} /\ y.dir \in Places /\ y.key \in Tokens
        /\ y.merged \subseteq Entries /\ y.list \subseteq Entries /\ (format \in {"helm", "npm"} => Single(y.merged))
    BY <2>2, <2>3, <2>4, OwnFits DEF Aside
  <2> QED BY <1>3, <2>1, <2>5, AsideOwn, QuietSilent, SilentSafe
<1>4. Helm!get_index(Cache) = Served(Cache, Root) /\ Helm!Ancestors(Cache) = Ancestors(Cache)
  BY HelmWords DEF Helm!get_index
<1>5. CASE At(r, "refresh")
  <2>1. ~At(r, "refreshed")
    BY <1>5 DEF At
  <2> QED BY <1>1, <1>2, <1>4, <1>5, <2>1, HelmWords DEF Helm!refresh_cache_index, state
<1>6. CASE ~At(r, "refresh")
  <2>1. /\ At(r, "refreshed") /\ Quiet /\ UNCHANGED state
        /\ reqs' = [reqs EXCEPT ![r].pc = "members", ![r].at = @ + 1, ![r].todo = {}, ![r].list = {},
                     ![r].next = None,
                     ![r].merged = FirstWins(@, IF reqs[r].list = None THEN {} ELSE reqs[r].list)]
    BY <1>6 DEF Helm!refresh_cache_index, state, Helm!state, Helm!At, At, Helm!Quiet, Quiet, Helm!FirstWins, FirstWins
  <2> QED BY <1>3, <2>1
<1> QED BY <1>5, <1>6

LEMMA HelmMergeSafe ==
    ASSUME Safe, NEW r \in DOMAIN reqs, format = "helm", Helm!merge_index_entries(r)
    PROVE  Safe'
<1> PICK W : reqs \in [DOMAIN reqs -> Request(W)]
  BY DEF Safe, Shaped
<1> PICK more : more = IF Served(Member(r), Root) = None THEN {} ELSE Served(Member(r), Root)
  OBVIOUS
<1>0. /\ At(r, "taken") /\ risk' = Overlap(r, Member(r)) /\ UNCHANGED <<format, faults, state>>
      /\ reqs' = [reqs EXCEPT ![r].pc = "members", ![r].at = @ + 1, ![r].cur = reqs[r].proxy, ![r].merged = FirstWins(@, more)]
  <2>1. more = IF Helm!get_index(Helm!Member(r)) = None THEN {} ELSE Helm!get_index(Helm!Member(r))
    BY HelmWords DEF Helm!get_index
  <2>2. Helm!Overlap(r, Helm!Member(r)) = Overlap(r, Member(r)) /\ (Helm!At(r, "taken") <=> At(r, "taken"))
    BY HelmWords
  <2> QED BY <2>1, <2>2 DEF Helm!merge_index_entries, Helm!state, state, Helm!FirstWins, FirstWins
<1> PICK y : y = [reqs[r] EXCEPT !.pc = "members", !.at = @ + 1, !.cur = reqs[r].proxy, !.merged = FirstWins(@, more)]
  OBVIOUS
<1>1. Turned(r, y) /\ IsRequest(y)
  BY <1>0, ShapePcAtCurMerged DEF Turned
<1>2. /\ y.pc = "members" /\ y.dir = reqs[r].dir /\ y.cur = reqs[r].proxy /\ y.list = reqs[r].list /\ y.proxy = reqs[r].proxy
      /\ y.at = reqs[r].at + 1 /\ y.key = reqs[r].key /\ y.merged = FirstWins(reqs[r].merged, more)
  BY DEF Request
<1>3. more \subseteq Entries /\ Single(more) /\ reqs[r].at + 1 \in Nat \ {0}
  BY ServedFits, OwnFits DEF Single
<1>4. y.merged \subseteq Entries /\ Single(y.merged)
  BY <1>0, <1>2, <1>3, OwnFits, FirstWinsFits DEF At
<1>5. /\ y.pc \in Aside /\ y.cur \in Spots /\ y.proxy \in Spots /\ y.at \in Nat \ {0} /\ y.dir \in Places /\ y.key \in Tokens
      /\ y.merged \subseteq Entries /\ y.list \subseteq Entries /\ (format \in {"helm", "npm"} => Single(y.merged))
  BY <1>0, <1>2, <1>3, <1>4, OwnFits DEF Aside, At
<1>6. Silent
  BY <1>0 DEF state, Silent, Overlap, Safe, StateSafe, StateTyped
<1> QED BY <1>1, <1>5, <1>6, AsideOwn, SilentSafe

LEMMA HelmProxySafe ==
    ASSUME Safe, NEW r \in DOMAIN reqs, format = "helm", Helm!rebuild_proxy_index(r)
    PROVE  Safe'
<1> PICK W : reqs \in [DOMAIN reqs -> Request(W)]
  BY DEF Safe, Shaped
<1>0. Own(r, reqs[r])
  BY DEF Safe
<1>1. CASE ProxyClear(r) \/ MemberFails(r) \/ Helm!merge_index_entries(r)
  BY <1>1, ProxyClearSafe, MemberFailsSafe, HelmMergeSafe
<1>2. CASE /\ At(r, "members") /\ MoreMembers(r) /\ Quiet /\ UNCHANGED state
           /\ \/ Rebuild(r, Hosted) \/ Goto(r, "taken") \/ Goto(r, "refresh")
              \/ reqs' = [reqs EXCEPT ![r].pc = "proxy clear", ![r].proxy = Member(r), ![r].cur = Member(r), ![r].at = 1]
  <2>1. CASE Rebuild(r, Hosted)
    BY <1>2, <2>1, QuietSilent, RebuildSafe DEF Repos, At
  <2>2. CASE Goto(r, "taken") \/ Goto(r, "refresh")
    BY <1>2, <2>2, QuietSilent, GotoSafe DEF Aside, At
  <2>3. CASE reqs' = [reqs EXCEPT ![r].pc = "proxy clear", ![r].proxy = Member(r), ![r].cur = Member(r), ![r].at = 1]
    <3> PICK spot : spot = Member(r)
      OBVIOUS
    <3> PICK y : y = [reqs[r] EXCEPT !.pc = "proxy clear", !.proxy = spot, !.cur = spot, !.at = 1]
      OBVIOUS
    <3>1. Turned(r, y) /\ IsRequest(y)
      BY <2>3, ShapePcProxyCurAt DEF Turned
    <3>2. /\ y.pc = "proxy clear" /\ y.dir = reqs[r].dir /\ y.cur = spot /\ y.list = reqs[r].list /\ y.proxy = spot
          /\ y.at = 1 /\ y.key = reqs[r].key /\ y.merged = reqs[r].merged
      BY DEF Request
    <3>3. spot \in Spots
      BY <1>2, MemberSpot DEF Spots
    <3>4. /\ y.pc \in Aside /\ y.cur \in Spots /\ y.proxy \in Spots /\ y.at \in Nat \ {0} /\ y.dir \in Places /\ y.key \in Tokens
          /\ y.merged \subseteq Entries /\ y.list \subseteq Entries /\ (format \in {"helm", "npm"} => Single(y.merged))
      <4>1. reqs[r].pc = "members"
        BY <1>2 DEF At
      <4> QED BY <3>2, <3>3, <4>1, OwnFits DEF Aside
    <3> QED BY <1>2, <3>1, <3>4, AsideOwn, QuietSilent, SilentSafe
  <2> QED BY <1>2, <2>1, <2>2, <2>3
<1>3. CASE /\ At(r, "members") /\ Helm!store_index(reqs[r].proxy, reqs[r].merged) /\ Quiet
           /\ reqs' = [reqs EXCEPT ![r].pc = "propagating", ![r].next = "merged", ![r].todo = Ancestors(reqs[r].proxy)]
           /\ UNCHANGED <<recs, flags, offer, fresh, keys, depth, extra>>
  <2>1. reqs[r].proxy \in Spots /\ reqs[r].merged \subseteq Entries /\ Single(reqs[r].merged)
    BY <1>3, OwnFits DEF At
  <2>2. Grown
    BY <1>3, <2>1, StoredGrown, ExtraStays, HelmWords DEF Helm!store_index, Quiet, Safe, StateSafe, StateTyped
  <2> PICK y : y = [reqs[r] EXCEPT !.pc = "propagating", !.todo = Ancestors(reqs[r].proxy), !.next = "merged"]
    OBVIOUS
  <2>3. Turned(r, y) /\ IsRequest(y)
    BY <1>3, ShapePcTodoNext DEF Turned
  <2>4. /\ y.pc = "propagating" /\ y.dir = reqs[r].dir /\ y.cur = reqs[r].cur /\ y.list = reqs[r].list /\ y.proxy = reqs[r].proxy
        /\ y.at = reqs[r].at /\ y.key = reqs[r].key /\ y.merged = reqs[r].merged /\ y.todo \subseteq Spots /\ y.next = "merged"
    BY AncestorSpots DEF Request
  <2>5. reqs'[r] = y /\ format' = "helm"
    BY <1>3, <2>3 DEF Turned, Quiet
  <2>6. Own(r, reqs[r])' /\ ~Leads(y)
    <3>1. Fits(r, reqs[r])'
      BY <1>0, <1>3, <2>4, <2>5 DEF Own, Fits, At
    <3>2. Apart(reqs[r])'
      BY <1>0, <1>3, <2>4, <2>5 DEF Own, Apart, At
    <3> QED BY <2>4, <2>5, <3>1, <3>2 DEF Own, Stored, Parted, Claimed, Leads
  <2> QED BY <2>2, <2>3, <2>6, GrownSafe
<1>4. CASE At(r, "members") /\ Fault("stopped") /\ Goto(r, "merged") /\ UNCHANGED <<format, state>>
  BY <1>4, FaultSilent, GotoSafe DEF Aside, At, state
<1>5. CASE Reply(r, reqs[r].merged) /\ Quiet /\ UNCHANGED state
  BY <1>5, QuietSilent, ReplySafe
<1>6. CASE reqs' = [reqs EXCEPT ![r] = [Start(r) EXCEPT !.pc = "taken"]] /\ Quiet /\ UNCHANGED state
  <2> PICK y : y = [Start(r) EXCEPT !.pc = "taken"]
    OBVIOUS
  <2>1. Turned(r, y) /\ IsRequest(y)
    BY <1>6, StartRequest, ShapePc DEF Turned
  <2>2. /\ y.pc = "taken" /\ y.dir = Root /\ y.cur = Ask[r].repo /\ y.list = {} /\ y.proxy = Ask[r].repo
        /\ y.at = 1 /\ y.key = None /\ y.merged = {}
    BY DEF Start
  <2>3. Own(r, y) /\ ~Leads(y)
    <3>1. /\ y.pc \in Aside /\ y.cur \in Spots /\ y.proxy \in Spots /\ y.at \in Nat \ {0} /\ y.dir \in Places /\ y.key \in Tokens
          /\ y.merged \subseteq Entries /\ y.list \subseteq Entries /\ (format \in {"helm", "npm"} => Single(y.merged))
      BY <2>2, InReqs DEF Aside, Places, Tokens, Single
    <3> QED BY <3>1, AsideOwn
  <2> QED BY <1>6, <2>1, <2>3, QuietSilent, SilentSafe
<1>a. \A p : (Helm!Ancestors(p) = Ancestors(p)) /\ (Helm!Rebuild(r, p) <=> Rebuild(r, p))
  BY HelmWords
<1>b. (Helm!ProxyClear(r) <=> ProxyClear(r)) /\ (Helm!MemberFails(r) <=> MemberFails(r)) /\ Helm!Member(r) = Member(r)
      /\ (Helm!MoreMembers(r) <=> MoreMembers(r))
  BY HelmWords
<1> QED
  BY <1>1, <1>2, <1>3, <1>4, <1>5, <1>6, <1>a, <1>b DEF Helm!rebuild_proxy_index, Helm!state, state, Helm!At, At, Helm!Quiet, Quiet,
     Helm!Goto, Goto, Helm!Reply, Reply, Helm!Start, Start, Helm!Fault, Fault

LEMMA HelmDownloadSafe ==
    ASSUME Safe, NEW r \in DOMAIN reqs, format = "helm",
           Helm!hosted_download_chart(r) \/ Helm!cache_download_chart(r) \/ Helm!proxy_download_chart(r)
    PROVE  Safe'
<1>1. CASE Helm!hosted_download_chart(r) \/ Helm!cache_download_chart(r)
  <2>1. \/ HoldsOrNot(r, {Hosted}) \/ CacheLookup(r, "claim") \/ TryClaim(r, "fetch") \/ AskUpstream(r) \/ StoreFetched(r)
    BY <1>1, HelmWords DEF Helm!hosted_download_chart, Helm!cache_download_chart
  <2> QED BY <2>1, HoldsOrNotSafe, CacheLookupSafe, TryClaimSafe, AskUpstreamSafe, StoreFetchedSafe
<1>2. CASE Helm!proxy_download_chart(r)
  <2>1. /\ Quiet /\ UNCHANGED state /\ reqs[r].pc \in {"start", "try"}
        /\ \/ \E found : reqs' = [reqs EXCEPT ![r] = Delivered(r, found)]
           \/ reqs' = [reqs EXCEPT ![r] = [reqs[r] EXCEPT !.pc = "claim"]]
    BY <1>2, HelmWords DEF Helm!proxy_download_chart, Helm!state, state, Trying, At
  <2> QED BY <2>1, QuietSilent, PassSafe, MissedSafe
<1> QED BY <1>1, <1>2

LEMMA HelmSafe ==
    ASSUME Safe, NEW r \in DOMAIN reqs, format = "helm", Helm!HelmStep(r)
    PROVE  Safe'
BY HelmUploadSafe, HelmRebuildSafe, HelmServeSafe, HelmRefreshSafe, HelmProxySafe, HelmDownloadSafe DEF Helm!HelmStep

-----------------------------------------------------------------------------
(* cargo and golang.                                                       *)

\* A crate is published, or its record put back with its yanked flag.
LEMMA CratePutSafe ==
    ASSUME Safe, NEW r \in DOMAIN reqs, format = "cargo", NEW p \in Pkgs, NEW v \in Tokens, PutRec(Hosted, p, v),
           NEW docs, extra' = [extra EXCEPT !.docs = docs], \A d \in docs : d.repo \in Repos /\ d.pkg \in Pkgs /\ d.val \in Tokens,
           \E what : Reply(r, what), risk \subseteq risk', UNCHANGED <<format, faults, flags, index, files, offer, fresh, keys, depth>>
    PROVE  Safe'
<1> PICK y : Over(r, y) /\ Turned(r, y)
  BY ReplyOver
<1> PICK V : extra \in [claims : V, docs : V, tags : V, old : V]
  BY DEF Safe, Shaped
<1>1. Own(r, reqs[r])' /\ ~Leads(y) /\ IsRequest(y)
  BY InReqs, OverOwn DEF Turned
<1>2. Mono(r) /\ Kept'
  BY ExtraKept DEF Mono
<1>3. /\ recs' \subseteq [repo : Repos, pkg : Pkgs, val : Tokens]
      /\ \A a, b \in recs' : (a.repo = b.repo /\ a.pkg = b.pkg) => a = b
  BY PutRecTyped DEF Repos
<1>4. StateSafe'
  <2>1. DOMAIN reqs' = DOMAIN reqs /\ extra'.docs = docs /\ extra'.old = extra.old
    BY DEF Turned
  <2>2. StateTyped'
    BY <1>3, <2>1 DEF Safe, StateSafe, StateTyped
  <2>3. StateApart' /\ IndexServable' /\ PartsInOrder'
    BY <1>3 DEF Safe, StateSafe, StateApart, IndexServable, PartsInOrder
  <2> QED BY <2>2, <2>3 DEF StateSafe
<1> QED BY <1>1, <1>2, <1>4, StepSafe

LEMMA CargoSafe ==
    ASSUME Safe, NEW r \in DOMAIN reqs, format = "cargo", Cargo!CargoStep(r)
    PROVE  Safe'
<1> PICK W : reqs \in [DOMAIN reqs -> Request(W)]
  BY DEF Safe, Shaped
<1>0. Own(r, reqs[r]) /\ \A d \in extra.docs : d.repo \in Repos /\ d.pkg \in Pkgs /\ d.val \in Tokens
  BY DEF Safe, StateSafe, StateTyped
<1>1. CASE Cargo!commit_crate(r)
  <2>1. /\ PutRec(Hosted, Ask[r].pkg, r) /\ extra' = [extra EXCEPT !.docs = {d \in extra.docs : d.pkg # Ask[r].pkg}]
        /\ (\E what : Reply(r, what)) /\ risk \subseteq risk'
        /\ UNCHANGED <<format, faults, flags, index, files, offer, fresh, keys, depth>>
    BY <1>1, CargoWords DEF Cargo!commit_crate
  <2>2. Ask[r].pkg \in Pkgs /\ r \in Tokens
    BY InReqs DEF Tokens
  <2> QED BY <1>0, <2>1, <2>2, CratePutSafe
<1>2. CASE Cargo!set_yanked(r)
  <2>1. CASE Reply(r, "not found") /\ Quiet /\ UNCHANGED state
    BY <2>1, QuietSilent, ReplySafe
  <2>2. CASE /\ At(r, "start") /\ reqs' = [reqs EXCEPT ![r].pc = "yank", ![r].list = Holding(Hosted, Ask[r].pkg)]
             /\ Quiet /\ UNCHANGED state
    <3> PICK list : list = Holding(Hosted, Ask[r].pkg)
      OBVIOUS
    <3> PICK y : y = [reqs[r] EXCEPT !.pc = "yank", !.list = list]
      OBVIOUS
    <3>1. Turned(r, y) /\ IsRequest(y)
      BY <2>2, ShapePcList DEF Turned
    <3>2. /\ y.pc = "yank" /\ y.dir = reqs[r].dir /\ y.cur = reqs[r].cur /\ y.list = list /\ y.proxy = reqs[r].proxy
          /\ y.at = reqs[r].at /\ y.key = reqs[r].key /\ y.merged = reqs[r].merged
      BY DEF Request
    <3>3. list \subseteq Entries
      BY ListedFits
    <3>4. Own(r, y) /\ ~Leads(y)
      BY <1>0, <2>2, <3>2, <3>3 DEF Own, Fits, Apart, Stored, Parted, Claimed, Leads, At
    <3> QED BY <2>2, <3>1, <3>4, QuietSilent, SilentSafe
  <2>3. CASE /\ At(r, "yank") /\ (\E what : Reply(r, what)) /\ Quiet /\ UNCHANGED <<flags, index, files, offer, fresh, keys, depth>>
             /\ \E e \in reqs[r].list :
                  /\ PutRec(Hosted, e.pkg, e.val)
                  /\ extra' = [extra EXCEPT !.docs = {d \in extra.docs : d.pkg # e.pkg} \cup {Cargo!Yanked(e.pkg, e.val)}]
    <3>1. PICK e \in reqs[r].list :
                  /\ PutRec(Hosted, e.pkg, e.val)
                  /\ extra' = [extra EXCEPT !.docs = {d \in extra.docs : d.pkg # e.pkg} \cup {Cargo!Yanked(e.pkg, e.val)}]
      BY <2>3
    <3>2. e.pkg \in Pkgs /\ e.val \in Tokens
      BY <2>3, OwnFits DEF At, Entries, Tokens
    <3> PICK docs : docs = {d \in extra.docs : d.pkg # e.pkg} \cup {Cargo!Yanked(e.pkg, e.val)}
      OBVIOUS
    <3>3. \A d \in docs : d.repo \in Repos /\ d.pkg \in Pkgs /\ d.val \in Tokens
      BY <1>0, <3>2 DEF Cargo!Yanked, Repos
    <3>4. extra' = [extra EXCEPT !.docs = docs] /\ risk \subseteq risk' /\ UNCHANGED <<format, faults>>
      BY <2>3, <3>1 DEF Quiet
    <3> QED BY <2>3, <3>1, <3>2, <3>3, <3>4, CratePutSafe
  <2> QED
    BY <1>2, <2>1, <2>2, <2>3 DEF Cargo!set_yanked, Cargo!Asks, Cargo!At, At, Cargo!Reply, Reply, Cargo!Start, Start, Cargo!Quiet, Quiet,
       Cargo!state, state, Cargo!PutRec, PutRec, Cargo!Holding, Holding, Cargo!Listed, Listed, Cargo!Entry, Entry
<1>3. CASE /\ Quiet /\ UNCHANGED state
           /\ \/ \E what : Reply(r, what)
              \/ At(r, "start") /\ Goto(r, "members")
              \/ At(r, "members") /\ NextMember(r)
  BY <1>3, QuietSilent, ReplySafe, GotoSafe, NextMemberSafe DEF At, Aside
<1>4. CASE Cargo!hosted_index_entry(r) \/ Cargo!proxy_index_entry(r)
  BY <1>3, <1>4, CargoWords DEF Cargo!hosted_index_entry, Cargo!proxy_index_entry, Cargo!state, state, Asks
<1>5. CASE Cargo!hosted_download(r) \/ Cargo!proxy_download(r)
  BY <1>5, HoldsOrNotSafe, CargoWords DEF Cargo!hosted_download, Cargo!proxy_download
<1> QED BY <1>1, <1>2, <1>4, <1>5 DEF Cargo!CargoStep

\* The .info of a module is put before its zip.
LEMMA ModulePutSafe ==
    ASSUME Safe, NEW r \in DOMAIN reqs, format = "golang", At(r, "start"), Goto(r, "zip"), Quiet,
           extra' = [extra EXCEPT !.docs = @ \cup {[repo |-> Hosted, pkg |-> Ask[r].pkg, val |-> r]}],
           UNCHANGED <<recs, flags, index, files, offer, fresh, keys, depth>>
    PROVE  Safe'
<1> PICK W : reqs \in [DOMAIN reqs -> Request(W)]
  BY DEF Safe, Shaped
<1> PICK V : extra \in [claims : V, docs : V, tags : V, old : V]
  BY DEF Safe, Shaped
<1> PICK new : new = [repo |-> Hosted, pkg |-> Ask[r].pkg, val |-> r]
  OBVIOUS
<1> PICK y : y = [reqs[r] EXCEPT !.pc = "zip"]
  OBVIOUS
<1>0. Own(r, reqs[r]) /\ reqs[r].pc = "start"
  BY DEF Safe, At
<1>1. Turned(r, y) /\ IsRequest(y)
  BY ShapePc DEF Turned, Goto
<1>2. /\ y.pc = "zip" /\ y.dir = reqs[r].dir /\ y.cur = reqs[r].cur /\ y.list = reqs[r].list /\ y.proxy = reqs[r].proxy
      /\ y.at = reqs[r].at /\ y.key = reqs[r].key /\ y.merged = reqs[r].merged
  BY DEF Request
<1>3. /\ extra'.docs = extra.docs \cup {new} /\ extra'.old = extra.old /\ extra'.tags = extra.tags
      /\ new.repo = Hosted /\ new.pkg = Ask[r].pkg /\ new.val = r
  OBVIOUS
<1>4. \A repo, p : Described(repo, p) => Described(repo, p)'
  BY <1>3 DEF Described
<1>5. Mono(r)
  BY <1>4 DEF Mono, Quiet
<1>6. StateSafe'
  <2>1. DOMAIN reqs' = DOMAIN reqs
    BY <1>1 DEF Turned
  <2>2. StateTyped'
    BY <1>3, <2>1, InReqs DEF Safe, StateSafe, StateTyped, Quiet, Repos, Tokens
  <2>3. StateApart' /\ IndexServable'
    BY DEF Safe, StateSafe, StateApart, IndexServable, Quiet
  <2>4. PartsInOrder'
    <3>1. format' = format /\ recs' = recs
      BY DEF Quiet
    <3>2. \A a \in recs' : a.repo = Hosted => Described(Hosted, a.pkg)'
      BY <1>4, <3>1 DEF Safe, StateSafe, PartsInOrder
    <3> QED BY <3>1, <3>2 DEF PartsInOrder
  <2> QED BY <2>2, <2>3, <2>4 DEF StateSafe
<1>7. Kept'
  BY ExtraKept
<1>8. reqs'[r] = y
  BY <1>1 DEF Turned
<1>9. Described(Hosted, Ask[r].pkg)'
  BY <1>3 DEF Described
<1>10. Fits(r, reqs[r])'
  BY <1>0, <1>2, <1>8 DEF Own, Fits
<1>11. Own(r, reqs[r])' /\ ~Leads(y)
  BY <1>2, <1>8, <1>9, <1>10 DEF Own, Apart, Stored, Parted, Claimed, Leads, Quiet
<1> QED BY <1>1, <1>5, <1>6, <1>7, <1>11, StepSafe

LEMMA ModuleCommitSafe ==
    ASSUME Safe, NEW r \in DOMAIN reqs, format = "golang", At(r, "zip"), PutRec(Hosted, Ask[r].pkg, r), Reply(r, "ok"), Quiet,
           UNCHANGED <<flags, index, files, offer, fresh, keys, depth, extra>>
    PROVE  Safe'
<1> PICK y : Over(r, y) /\ Turned(r, y)
  BY ReplyOver
<1>1. Own(r, reqs[r])' /\ ~Leads(y) /\ IsRequest(y)
  BY InReqs, OverOwn DEF Turned
<1>2. Mono(r) /\ Kept'
  BY SameKept DEF Mono, Described, Quiet
<1>3. r \in Tokens /\ Ask[r].pkg \in Pkgs /\ Hosted \in Repos
  BY InReqs DEF Tokens, Repos
<1>4. /\ recs' \subseteq [repo : Repos, pkg : Pkgs, val : Tokens]
      /\ \A a, b \in recs' : (a.repo = b.repo /\ a.pkg = b.pkg) => a = b
  BY <1>3, PutRecTyped
<1>5. StateSafe'
  <2>1. DOMAIN reqs' = DOMAIN reqs
    BY DEF Turned
  <2>2. StateTyped'
    BY <1>4, <2>1 DEF Safe, StateSafe, StateTyped, Quiet
  <2>3. StateApart' /\ IndexServable'
    BY <1>4 DEF Safe, StateSafe, StateApart, IndexServable, Quiet
  <2>4. Described(Hosted, Ask[r].pkg)
    BY DEF Safe, Own, Parted, At
  <2>5. \A a \in recs' : a \in recs \/ (a.repo = Hosted /\ a.pkg = Ask[r].pkg)
    BY DEF PutRec
  <2>6. PartsInOrder'
    BY <2>4, <2>5 DEF Safe, StateSafe, PartsInOrder, Quiet, Described
  <2> QED BY <2>2, <2>3, <2>6 DEF StateSafe
<1> QED BY <1>1, <1>2, <1>5, StepSafe

LEMMA GolangSafe ==
    ASSUME Safe, NEW r \in DOMAIN reqs, format = "golang", Golang!GolangStep(r)
    PROVE  Safe'
<1>1. CASE Golang!handle_upload(r)
  <2>1. CASE Golang!put_module_file(r)
    BY <2>1, GolangWords, ModulePutSafe DEF Golang!put_module_file, upload_preamble, Asks
  <2>2. CASE Golang!commit_module_file(r)
    BY <2>2, GolangWords, ModuleCommitSafe DEF Golang!commit_module_file
  <2> QED BY <1>1, <2>1, <2>2 DEF Golang!handle_upload
<1>2. CASE (\E what : Reply(r, what)) /\ (Quiet \/ (\E kind : Fault(kind) /\ UNCHANGED format)) /\ UNCHANGED state
  BY <1>2, QuietSilent, FaultSilent, ReplySafe
<1>3. CASE Golang!handle_hosted(r)
  BY <1>2, <1>3, GolangWords, HoldsOrNotSafe DEF Golang!handle_hosted, Golang!state, state
<1>4. CASE Golang!handle_cache(r)
  BY <1>2, <1>4, GolangWords DEF Golang!handle_cache, Golang!state, state
<1>5. CASE Golang!cache_fetch_and_store(r)
  BY <1>5, GolangWords, CacheLookupSafe, AskUpstreamSafe, StoreFetchedSafe DEF Golang!cache_fetch_and_store
<1>6. CASE Golang!handle_proxy(r)
  <2>1. CASE /\ reqs[r].pc \in {"start", "try"} /\ reqs' = [reqs EXCEPT ![r] = NotHere(r)] /\ Quiet /\ UNCHANGED state
    BY <2>1, QuietSilent, PassSafe
  <2> QED BY <1>2, <1>6, <2>1, GolangWords DEF Golang!handle_proxy, Golang!state, state, Trying
<1> QED BY <1>1, <1>3, <1>4, <1>5, <1>6 DEF Golang!GolangStep

-----------------------------------------------------------------------------
(* npm.                                                                    *)

\* A version document whose tarball is stored is put (put_package).
LEMMA DocPut ==
    ASSUME Safe, NEW r \in DOMAIN reqs, format = "npm", NEW repo \in Repos, NEW p \in Pkgs, NEW v \in Tokens,
           Npm!PutDoc(Npm!Doc(repo, p, v)), ("deleted" \notin risk /\ repo = Hosted) => Holding(Hosted, p) # {},
           Quiet, UNCHANGED <<recs, flags, index, files, offer, fresh, keys, depth>>, NEW y, IsRequest(y), Turned(r, y)
    PROVE  /\ Described(repo, p)' /\ \A s, n : Described(s, n) => Described(s, n)'
           /\ Own(r, reqs[r])' => Safe'
<1> PICK V : extra \in [claims : V, docs : V, tags : V, old : V]
  BY DEF Safe, Shaped
<1> PICK new : new = [repo |-> repo, pkg |-> p, val |-> v]
  OBVIOUS
<1> PICK docs : docs = {x \in extra.docs : x.repo # repo \/ x.pkg # p} \cup {new}
  OBVIOUS
<1>1. new.repo = repo /\ new.pkg = p /\ new.val = v
  OBVIOUS
<1>2. extra' = [extra EXCEPT !.docs = docs]
  BY <1>1 DEF Npm!PutDoc, Npm!Doc
<1>3. extra'.docs = docs /\ extra'.old = extra.old /\ extra'.tags = extra.tags
  BY <1>2
<1>4. /\ \A d \in docs : d.repo \in Repos /\ d.pkg \in Pkgs /\ d.val \in Tokens
      /\ \A a, b \in docs : (a.repo = b.repo /\ a.pkg = b.pkg) => a = b
  BY <1>1 DEF Safe, StateSafe, StateTyped, StateApart
<1>5. Described(repo, p)' /\ \A s, n : Described(s, n) => Described(s, n)'
  BY <1>1, <1>3 DEF Described
<1>6. \A s, n : Holding(s, n)' = Holding(s, n)
  BY DEF Holding, Listed
<1>7. Mono(r)
  BY <1>5, <1>6 DEF Mono, Quiet
<1>8. StateSafe'
  <2>1. DOMAIN reqs' = DOMAIN reqs
    BY DEF Turned
  <2>2. StateTyped'
    BY <1>3, <1>4, <2>1 DEF Safe, StateSafe, StateTyped, Quiet
  <2>3. StateApart'
    BY <1>3, <1>4 DEF Safe, StateSafe, StateApart, Quiet
  <2>4. IndexServable'
    BY DEF Safe, StateSafe, IndexServable, Quiet
  <2>5. PartsInOrder'
    <3>1. \A d \in docs : d \in extra.docs \/ d = new
      OBVIOUS
    <3>2. ("deleted" \notin risk) => \A d \in docs : d.repo = Hosted => Holding(Hosted, d.pkg) # {}
      BY <1>1, <3>1 DEF Safe, StateSafe, PartsInOrder
    <3> QED BY <1>3, <1>6, <3>2 DEF PartsInOrder, Quiet
  <2> QED BY <2>2, <2>3, <2>4, <2>5 DEF StateSafe
<1>9. Kept'
  BY <1>2, ExtraKept
<1>10. Own(r, reqs[r])' => Safe'
  BY <1>7, <1>8, <1>9, StepSafe
<1> QED BY <1>5, <1>10

\* A tarball is put: no version document loses its own.
LEMMA TarballPut ==
    ASSUME Safe, NEW r \in DOMAIN reqs, format = "npm", NEW repo \in Repos, NEW p \in Pkgs, NEW v \in Tokens,
           PutRec(repo, p, v), Quiet, UNCHANGED <<flags, index, files, offer, fresh, keys, depth, extra>>,
           NEW y, IsRequest(y), Turned(r, y)
    PROVE  /\ Holding(repo, p)' # {}
           /\ Own(r, reqs[r])' => Safe'
           /\ \A s, n : Described(s, n) => Described(s, n)'
<1>1. /\ recs' \subseteq [repo : Repos, pkg : Pkgs, val : Tokens]
      /\ \A a, b \in recs' : (a.repo = b.repo /\ a.pkg = b.pkg) => a = b
      /\ \A s, n : s # repo \/ n # p => Holding(s, n)' = Holding(s, n)
      /\ Holding(repo, p)' = {Entry(p, v)}
  BY PutRecTyped
<1>2. \A s, n : Holding(s, n) # {} => Holding(s, n)' # {}
  BY <1>1
<1>3. \A s, n : Described(s, n) => Described(s, n)'
  BY DEF Described
<1>4. Mono(r)
  BY <1>2, <1>3 DEF Mono, Quiet
<1>5. StateSafe'
  <2>1. DOMAIN reqs' = DOMAIN reqs
    BY DEF Turned
  <2>2. StateTyped'
    BY <1>1, <2>1 DEF Safe, StateSafe, StateTyped, Quiet
  <2>3. StateApart'
    BY <1>1 DEF Safe, StateSafe, StateApart, Quiet
  <2>4. IndexServable'
    BY DEF Safe, StateSafe, IndexServable, Quiet
  <2>5. PartsInOrder'
    BY <1>2 DEF Safe, StateSafe, PartsInOrder, Quiet
  <2> QED BY <2>2, <2>3, <2>4, <2>5 DEF StateSafe
<1>6. Kept'
  BY SameKept
<1>7. Own(r, reqs[r])' => Safe'
  BY <1>4, <1>5, <1>6, StepSafe
<1> QED BY <1>1, <1>3, <1>7

\* The dist-tags change: nothing that Safe says is about them.
LEMMA TagsPut ==
    ASSUME Safe, NEW r \in DOMAIN reqs, format = "npm", NEW tags, extra' = [extra EXCEPT !.tags = tags],
           Quiet, UNCHANGED <<recs, flags, index, files, offer, fresh, keys, depth>>, NEW y, IsRequest(y), Turned(r, y),
           Own(r, reqs[r])'
    PROVE  Safe'
<1> PICK V : extra \in [claims : V, docs : V, tags : V, old : V]
  BY DEF Safe, Shaped
<1>1. extra'.docs = extra.docs /\ extra'.old = extra.old
  OBVIOUS
<1>2. \A s, n : Described(s, n) <=> Described(s, n)'
  BY <1>1 DEF Described
<1>3. \A s, n : Holding(s, n)' = Holding(s, n)
  BY DEF Holding, Listed
<1>4. Mono(r)
  BY <1>2, <1>3 DEF Mono, Quiet
<1>5. StateSafe'
  <2>1. DOMAIN reqs' = DOMAIN reqs
    BY DEF Turned
  <2>2. StateTyped'
    BY <1>1, <2>1 DEF Safe, StateSafe, StateTyped, Quiet
  <2>3. StateApart' /\ IndexServable'
    BY <1>1 DEF Safe, StateSafe, StateApart, IndexServable, Quiet
  <2>4. PartsInOrder'
    BY <1>1, <1>3 DEF Safe, StateSafe, PartsInOrder, Quiet
  <2> QED BY <2>2, <2>3, <2>4 DEF StateSafe
<1>6. Kept'
  BY ExtraKept
<1> QED BY <1>4, <1>5, <1>6, StepSafe

LEMMA NpmPackageSafe ==
    ASSUME Safe, NEW r \in DOMAIN reqs, format = "npm", Npm!put_package(r)
    PROVE  Safe'
<1> PICK W : reqs \in [DOMAIN reqs -> Request(W)]
  BY DEF Safe, Shaped
<1>0. Own(r, reqs[r]) /\ r \in Tokens /\ Hosted \in Repos
  BY InReqs DEF Safe, Tokens, Repos
<1>1. ASSUME reqs[r].pc \in {"start", "publish"}, NEW p \in Pkgs, NEW left, PutRec(Hosted, p, r), Npm!NextVersion(r, p, left),
             Quiet, UNCHANGED <<flags, index, files, offer, fresh, keys, depth, extra>>
      PROVE  Safe'
  <2> PICK list : list = Npm!Tags(Hosted)
    OBVIOUS
  <2> PICK rest : rest = left \ {p}
    OBVIOUS
  <2> PICK y : y = [reqs[r] EXCEPT !.pc = "version", !.pkg = p, !.todo = rest, !.list = list]
    OBVIOUS
  <2>1. Turned(r, y) /\ IsRequest(y)
    BY <1>1, ShapePcPkgTodoList DEF Turned, Npm!NextVersion
  <2>2. /\ y.pc = "version" /\ y.dir = reqs[r].dir /\ y.cur = reqs[r].cur /\ y.pkg = p /\ y.proxy = reqs[r].proxy
        /\ y.at = reqs[r].at /\ y.key = reqs[r].key /\ y.merged = reqs[r].merged
    BY DEF Request
  <2>3. /\ Holding(Hosted, p)' # {}
        /\ Own(r, reqs[r])' => Safe'
    BY <1>0, <1>1, <2>1, TarballPut
  <2>5. reqs'[r] = y /\ format' = "npm"
    BY <1>1, <2>1 DEF Turned, Quiet
  <2>6. Fits(r, reqs[r])'
    BY <1>0, <1>1, <2>2, <2>5 DEF Own, Fits
  <2>7. Apart(reqs[r])'
    BY <1>0, <1>1, <2>2, <2>5 DEF Own, Apart
  <2>8. Parted(r, reqs[r])'
    BY <2>2, <2>3, <2>5 DEF Parted
  <2> QED BY <2>2, <2>3, <2>5, <2>6, <2>7, <2>8 DEF Own, Stored, Claimed, Leads
<1>2. CASE /\ At(r, "version") /\ Npm!PutDoc(Npm!Doc(Hosted, reqs[r].pkg, r)) /\ Goto(r, "tags")
           /\ Quiet /\ UNCHANGED <<recs, flags, index, files, offer, fresh, keys, depth>>
  <2> PICK y : y = [reqs[r] EXCEPT !.pc = "tags"]
    OBVIOUS
  <2>1. Turned(r, y) /\ IsRequest(y)
    BY <1>2, ShapePc DEF Turned, Goto
  <2>2. /\ y.pc = "tags" /\ y.dir = reqs[r].dir /\ y.cur = reqs[r].cur /\ y.list = reqs[r].list /\ y.proxy = reqs[r].proxy
        /\ y.at = reqs[r].at /\ y.key = reqs[r].key /\ y.merged = reqs[r].merged
    BY DEF Request
  <2>3. ("deleted" \notin risk => Holding(Hosted, reqs[r].pkg) # {}) /\ reqs[r].pkg \in Pkgs
    BY <1>0, <1>2 DEF Own, Parted, Fits, At
  <2>4. Own(r, reqs[r])' => Safe'
    BY <1>0, <1>2, <2>1, <2>3, DocPut
  <2>5. reqs'[r] = y /\ format' = "npm"
    BY <1>2, <2>1 DEF Turned, Quiet
  <2>6. Fits(r, reqs[r])'
    BY <1>0, <1>2, <2>2, <2>5 DEF Own, Fits, At
  <2>7. Apart(reqs[r])'
    BY <1>0, <1>2, <2>2, <2>5 DEF Own, Apart, At
  <2> QED BY <2>2, <2>4, <2>5, <2>6, <2>7 DEF Own, Stored, Parted, Claimed, Leads
<1>3. CASE At(r, "version")
  <2>1. ~At(r, "start") /\ ~At(r, "publish")
    BY <1>3 DEF At
  <2> QED BY <1>2, <1>3, <2>1, NpmWords DEF Npm!put_package, Npm!Publishes, upload_preamble, Asks
<1>4. CASE ~At(r, "version")
  <2>1. \E left \in SUBSET Pkgs, p \in Pkgs :
          /\ Npm!Publishes(r, left) /\ Npm!PutRec(Hosted, p, r) /\ Npm!NextVersion(r, p, left)
          /\ Npm!Quiet /\ UNCHANGED <<flags, index, files, offer, fresh, keys, depth, extra>>
    BY <1>4, NpmWords DEF Npm!put_package
  <2> PICK left \in SUBSET Pkgs, p \in Pkgs :
        /\ Npm!Publishes(r, left) /\ Npm!PutRec(Hosted, p, r) /\ Npm!NextVersion(r, p, left)
        /\ Npm!Quiet /\ UNCHANGED <<flags, index, files, offer, fresh, keys, depth, extra>>
    BY <2>1
  <2>2. reqs[r].pc \in {"start", "publish"}
    BY NpmWords DEF Npm!Publishes, upload_preamble, Asks, At
  <2>3. Quiet /\ PutRec(Hosted, p, r)
    BY NpmWords
  <2> QED BY <1>1, <2>2, <2>3
<1> QED BY <1>3, <1>4

LEMMA NpmTagsSafe ==
    ASSUME Safe, NEW r \in DOMAIN reqs, format = "npm", Npm!put_dist_tags(r)
    PROVE  Safe'
<1> PICK W : reqs \in [DOMAIN reqs -> Request(W)]
  BY DEF Safe, Shaped
<1> PICK then : then = IF reqs[r].todo = {} THEN "flag" ELSE "publish"
  OBVIOUS
<1>1. /\ At(r, "tags") /\ reqs' = [reqs EXCEPT ![r].pc = then, ![r].cur = Hosted, ![r].list = {}]
      /\ Quiet /\ UNCHANGED <<recs, flags, index, files, offer, fresh, keys, depth>>
  BY NpmWords DEF Npm!put_dist_tags, Npm!PutTags
<1>2. PICK tags : extra' = [extra EXCEPT !.tags = tags]
  BY DEF Npm!put_dist_tags, Npm!PutTags
<1> PICK y : y = [reqs[r] EXCEPT !.pc = then, !.cur = Hosted, !.list = {}]
  OBVIOUS
<1>4. Turned(r, y) /\ IsRequest(y)
  BY <1>1, ShapePcCurList DEF Turned
<1>5. /\ y.pc = then /\ y.dir = reqs[r].dir /\ y.cur = Hosted /\ y.list = {} /\ y.proxy = reqs[r].proxy
      /\ y.at = reqs[r].at /\ y.key = reqs[r].key /\ y.merged = reqs[r].merged
  BY DEF Request
<1>6. reqs[r].pc = "tags" /\ then \in Aside
  BY <1>1 DEF At, Aside
<1>7. reqs'[r] = y /\ format' = format
  BY <1>1, <1>4 DEF Turned, Quiet
<1>8. /\ y.pc \in Aside /\ y.cur \in Spots /\ y.proxy \in Spots /\ y.at \in Nat \ {0} /\ y.dir \in Places /\ y.key \in Tokens
      /\ y.merged \subseteq Entries /\ y.list \subseteq Entries /\ (format \in {"helm", "npm"} => Single(y.merged))
  BY <1>5, <1>6, OwnFits DEF Spots, Repos
<1>9. Own(r, reqs[r])'
  BY <1>7, <1>8, AsideNext
<1> QED BY <1>1, <1>2, <1>4, <1>9, TagsPut

\* A proxy is flagged unless it is, and its index is older then.
LEMMA WatermarkSafe ==
    ASSUME Safe, NEW r \in DOMAIN reqs, format = "npm", At(r, "propagating"), risk \subseteq risk',
           UNCHANGED <<format, faults, recs, index, files, offer, fresh, keys, depth>>,
           NEW p \in reqs[r].todo, flags' = flags \cup {p}, reqs' = [reqs EXCEPT ![r].todo = @ \ {p}],
           extra' = extra \/ extra' = [extra EXCEPT !.old = @ \cup {p}]
    PROVE  Safe'
<1> PICK W : reqs \in [DOMAIN reqs -> Request(W)]
  BY DEF Safe, Shaped
<1> PICK V : extra \in [claims : V, docs : V, tags : V, old : V]
  BY DEF Safe, Shaped
<1>0. Own(r, reqs[r])
  BY DEF Safe
<1> PICK y : y = [reqs[r] EXCEPT !.todo = @ \ {p}]
  OBVIOUS
<1>1. Turned(r, y) /\ IsRequest(y)
  <2>1. reqs[r] \in Request(W)
    OBVIOUS
  <2>2. IsRequest([reqs[r] EXCEPT !.todo = reqs[r].todo \ {p}])
    BY <2>1, ShapeTodo
  <2>3. Turned(r, y)
    BY DEF Turned
  <2> QED BY <2>2, <2>3
<1>2. /\ y.pc = reqs[r].pc /\ y.dir = reqs[r].dir /\ y.cur = reqs[r].cur /\ y.list = reqs[r].list /\ y.proxy = reqs[r].proxy
      /\ y.at = reqs[r].at /\ y.key = reqs[r].key /\ y.merged = reqs[r].merged /\ y.todo = reqs[r].todo \ {p} /\ y.next = reqs[r].next
  BY DEF Request
<1>3. p \in Spots /\ extra.old \subseteq Spots /\ flags \subseteq Spots
  BY <1>0 DEF Own, Fits, At, Safe, StateSafe, StateTyped
<1>4. extra' \in [claims : {extra.claims}, docs : {extra.docs}, tags : {extra.tags}, old : SUBSET Spots]
  BY <1>3
<1>5. Grown
  <2>1. flags' \subseteq Spots /\ fresh' \in BOOLEAN /\ faults' \in 0 .. MaxFaults
    BY <1>3 DEF Safe, StateSafe, StateTyped
  <2> QED BY <2>1, <1>4 DEF Grown
<1>6. reqs'[r] = y /\ format' = "npm"
  BY <1>1 DEF Turned
<1>7. Fits(r, reqs[r])'
  BY <1>0, <1>2, <1>6 DEF Own, Fits, At
<1>8. Apart(reqs[r])'
  BY <1>0, <1>2, <1>6 DEF Own, Apart, At
<1>9. Own(r, reqs[r])' /\ ~Leads(y)
  BY <1>2, <1>6, <1>7, <1>8 DEF Own, Stored, Parted, Claimed, Leads, At
<1> QED BY <1>1, <1>5, <1>9, GrownSafe

LEMMA NpmFlagSafe ==
    ASSUME Safe, NEW r \in DOMAIN reqs, format = "npm", Npm!set_stale_flag(r) \/ Npm!propagate_watermark(r)
    PROVE  Safe'
<1> PICK W : reqs \in [DOMAIN reqs -> Request(W)]
  BY DEF Safe, Shaped
<1>0. Own(r, reqs[r])
  BY DEF Safe
<1>1. CASE Npm!set_stale_flag(r)
  <2>1. /\ At(r, "flag") /\ flags' = flags \cup {Hosted} /\ Propagate(r, Ask[r].repo, "done") /\ risk \subseteq risk'
        /\ UNCHANGED <<format, faults, recs, index, files, offer, fresh, keys, depth, extra>>
    BY <1>1, NpmWords DEF Npm!set_stale_flag, Addressed
  <2> DEFINE y == [reqs[r] EXCEPT !.pc = "propagating", !.todo = Ancestors(Ask[r].repo), !.next = "done"]
  <2>2. Turned(r, y)
    BY <2>1 DEF Propagate, Turned
  <2>3. Own(r, y) /\ IsRequest(y) /\ ~Leads(y)
    BY <2>1, PropagateOwn DEF At
  <2>4. Silent
    BY <2>1 DEF Silent, Safe, StateSafe, StateTyped, Spots, Repos
  <2> QED BY <2>2, <2>3, <2>4, SilentSafe
<1>2. CASE Reply(r, "ok") /\ UNCHANGED <<format, faults, risk>> /\ UNCHANGED state
  BY <1>2, ReplySafe, QuietSilent DEF Quiet
<1>3. ASSUME At(r, "propagating"), risk \subseteq risk', UNCHANGED <<format, faults, recs, index, files, offer, fresh, keys, depth>>,
             NEW p \in reqs[r].todo, flags' = flags \cup {p}, reqs' = [reqs EXCEPT ![r].todo = @ \ {p}],
             extra' = extra \/ extra' = [extra EXCEPT !.old = @ \cup {p}]
      PROVE  Safe'
  BY <1>3, WatermarkSafe
<1>4. CASE Npm!propagate_watermark(r)
  <2>1. \A what : Npm!Reply(r, what) <=> Reply(r, what)
    BY NpmWords
  <2>2. /\ At(r, "propagating") /\ UNCHANGED <<format, faults, recs, index, files, offer, fresh, keys, depth>>
        /\ \/ Reply(r, "ok") /\ UNCHANGED <<flags, extra, risk>>
           \/ \E p \in reqs[r].todo : /\ flags' = flags \cup {p} /\ reqs' = [reqs EXCEPT ![r].todo = @ \ {p}] /\ risk \subseteq risk'
                                      /\ (extra' = extra \/ extra' = [extra EXCEPT !.old = @ \cup {p}])
    BY <1>4, <2>1 DEF Npm!propagate_watermark, Npm!At, At
  <2> QED BY <1>2, <1>3, <2>2 DEF state
<1> QED BY <1>1, <1>4

\* A packument has each version once.
LEMMA DocsFit ==
    ASSUME Safe, format = "npm", NEW repo
    PROVE  Npm!get_packument(repo) \subseteq Entries /\ Single(Npm!get_packument(repo))
BY DEF Npm!get_packument, Npm!Entry, Entries, Single, Safe, StateSafe, StateTyped, StateApart, Tokens

LEMMA NpmCacheSafe ==
    ASSUME Safe, NEW r \in DOMAIN reqs, format = "npm", Npm!cache_packument(r) \/ Npm!cache_upstream_packument(r)
    PROVE  Safe'
<1> PICK W : reqs \in [DOMAIN reqs -> Request(W)]
  BY DEF Safe, Shaped
<1>0. Own(r, reqs[r]) /\ Single(offer) /\ offer \subseteq Entries
  BY DEF Safe, StateSafe, StateTyped, StateApart
<1>1. CASE At(r, "start") /\ reqs' = [reqs EXCEPT ![r].pc = "keep tags", ![r].list = offer] /\ Quiet /\ UNCHANGED state
  <2> PICK y : y = [reqs[r] EXCEPT !.pc = "keep tags", !.list = offer]
    OBVIOUS
  <2>1. IsRequest(y) /\ reqs' = [reqs EXCEPT ![r] = y]
    BY <1>1, ShapePcList
  <2>2. /\ y.pc = "keep tags" /\ y.dir = reqs[r].dir /\ y.cur = reqs[r].cur /\ y.list = offer /\ y.proxy = reqs[r].proxy
        /\ y.at = reqs[r].at /\ y.key = reqs[r].key /\ y.merged = reqs[r].merged
    BY DEF Request
  <2>3. /\ y.pc \in Aside /\ y.cur \in Spots /\ y.proxy \in Spots /\ y.at \in Nat \ {0} /\ y.dir \in Places /\ y.key \in Tokens
        /\ y.merged \subseteq Entries /\ y.list \subseteq Entries /\ (format \in {"helm", "npm"} => Single(y.merged))
    BY <1>0, <1>1, <2>2, OwnFits DEF Aside, At
  <2> QED BY <1>1, <2>1, <2>3, QuietSilent, AsideSafe
<1>2. CASE (\E what : Reply(r, what)) /\ (Quiet \/ (\E kind : Fault(kind) /\ UNCHANGED format)) /\ UNCHANGED state
  BY <1>2, QuietSilent, FaultSilent, ReplySafe
<1>3. CASE /\ At(r, "keep") /\ Quiet /\ UNCHANGED <<recs, flags, index, files, offer, fresh, keys, depth>>
           /\ \E e \in reqs[r].list :
                /\ Npm!PutDoc(Npm!Doc(Cache, e.pkg, e.val))
                /\ reqs' = [reqs EXCEPT ![r].list = @ \ {e}, ![r].merged = @ \cup {e}]
  <2>p. PICK e \in reqs[r].list : /\ Npm!PutDoc(Npm!Doc(Cache, e.pkg, e.val))
                                 /\ reqs' = [reqs EXCEPT ![r].list = @ \ {e}, ![r].merged = @ \cup {e}]
    BY <1>3
  <2> PICK y : y = [reqs[r] EXCEPT !.list = @ \ {e}, !.merged = @ \cup {e}]
    OBVIOUS
  <2>1. Turned(r, y) /\ IsRequest(y)
    BY <2>p, ShapeListMerged DEF Turned
  <2>2. /\ y.pc = reqs[r].pc /\ y.dir = reqs[r].dir /\ y.cur = reqs[r].cur /\ y.list = reqs[r].list \ {e} /\ y.proxy = reqs[r].proxy
        /\ y.at = reqs[r].at /\ y.key = reqs[r].key /\ y.merged = reqs[r].merged \cup {e}
    BY DEF Request
  <2>3. e \in Entries /\ e.pkg \in Pkgs /\ e.val \in Tokens /\ Cache \in Repos /\ Cache # Hosted
    BY <1>3, OwnFits, PackageAssumption DEF At, Entries, Tokens, Repos
  <2>4. Own(r, reqs[r])' => Safe'
    BY <1>3, <2>p, <2>1, <2>3, DocPut
  <2>5. reqs'[r] = y /\ format' = "npm"
    BY <1>3, <2>1 DEF Turned, Quiet
  <2>6. Own(r, reqs[r])'
    <3>1. Fits(r, reqs[r])'
      BY <1>0, <1>3, <2>2, <2>3, <2>5 DEF Own, Fits, At
    <3> QED BY <1>3, <2>2, <2>5, <3>1 DEF Own, Apart, Stored, Parted, Claimed, Leads, At
  <2> QED BY <2>4, <2>6
<1>6. CASE /\ At(r, "keep") /\ UNCHANGED format /\ (\E kind : Fault(kind)) /\ UNCHANGED state
           /\ \E e \in reqs[r].list : reqs' = [reqs EXCEPT ![r].list = @ \ {e}, ![r].merged = @ \cup {e}]
  <2>p. PICK e \in reqs[r].list : reqs' = [reqs EXCEPT ![r].list = @ \ {e}, ![r].merged = @ \cup {e}]
    BY <1>6
  <2> PICK y : y = [reqs[r] EXCEPT !.list = @ \ {e}, !.merged = @ \cup {e}]
    OBVIOUS
  <2>1. Turned(r, y) /\ IsRequest(y)
    BY <2>p, ShapeListMerged DEF Turned
  <2>2. /\ y.pc = reqs[r].pc /\ y.dir = reqs[r].dir /\ y.cur = reqs[r].cur /\ y.list = reqs[r].list \ {e} /\ y.proxy = reqs[r].proxy
        /\ y.at = reqs[r].at /\ y.key = reqs[r].key /\ y.merged = reqs[r].merged \cup {e}
    BY DEF Request
  <2>3. e \in Entries
    BY <1>6, OwnFits DEF At
  <2>4. Own(r, y) /\ ~Leads(y)
    <3>1. Fits(r, y)
      BY <1>0, <1>6, <2>2, <2>3 DEF Own, Fits, At
    <3> QED BY <1>6, <2>2, <3>1 DEF Own, Apart, Stored, Parted, Claimed, Leads, At
  <2> QED BY <1>6, <2>1, <2>4, FaultSilent, SilentSafe
<1>7. ASSUME At(r, "keep tags"), Goto(r, "keep"),
             UNCHANGED <<recs, flags, index, files, offer, fresh, keys, depth>>,
             \/ (\E tags : extra' = [extra EXCEPT !.tags = tags]) /\ Quiet
             \/ (\E kind : Fault(kind)) /\ UNCHANGED <<format, extra>>
      PROVE  Safe'
  <2> PICK y : y = [reqs[r] EXCEPT !.pc = "keep"]
    OBVIOUS
  <2>1. Turned(r, y) /\ IsRequest(y)
    BY <1>7, ShapePc DEF Turned, Goto
  <2>2. /\ y.pc = "keep" /\ y.dir = reqs[r].dir /\ y.cur = reqs[r].cur /\ y.list = reqs[r].list /\ y.proxy = reqs[r].proxy
        /\ y.at = reqs[r].at /\ y.key = reqs[r].key /\ y.merged = reqs[r].merged
    BY DEF Request
  <2>3. Fits(r, y)
    BY <1>0, <1>7, <2>2 DEF Own, Fits, At
  <2>4. Own(r, y) /\ ~Leads(y)
    BY <2>2, <2>3 DEF Own, Apart, Stored, Parted, Claimed, Leads
  <2>5. CASE (\E kind : Fault(kind)) /\ UNCHANGED <<format, extra>>
    <3>1. UNCHANGED state
      BY <1>7, <2>5 DEF state
    <3> QED BY <2>1, <2>4, <2>5, <3>1, FaultSilent, SilentSafe
  <2>6. CASE (\E tags : extra' = [extra EXCEPT !.tags = tags]) /\ Quiet
    <3>1. reqs'[r] = y /\ format' = "npm"
      BY <2>1, <2>6 DEF Turned, Quiet
    <3>2. Fits(r, reqs[r])'
      BY <2>2, <2>3, <3>1 DEF Fits
    <3>3. Own(r, reqs[r])'
      BY <2>2, <3>1, <3>2 DEF Own, Apart, Stored, Parted, Claimed, Leads
    <3> QED BY <1>7, <2>1, <2>6, <3>3, TagsPut
  <2> QED BY <1>7, <2>5, <2>6
<1>4. CASE Npm!cache_packument(r)
  BY <1>1, <1>2, <1>4, NpmWords DEF Npm!cache_packument, Npm!state, state, Asks
<1>5. CASE Npm!cache_upstream_packument(r)
  <2>1. \A what : Npm!Reply(r, what) <=> Reply(r, what)
    BY NpmWords
  <2>2. Npm!Fault("skipped") => Fault("skipped")
    BY NpmWords
  <2>3. CASE At(r, "keep tags")
    <3>1. /\ Npm!Goto(r, "keep") /\ UNCHANGED <<recs, flags, index, files, offer, fresh, keys, depth>>
          /\ \/ (\E tags : extra' = [extra EXCEPT !.tags = tags]) /\ Npm!Quiet
             \/ Npm!Fault("skipped") /\ UNCHANGED <<format, extra>>
      BY <1>5, <2>3 DEF Npm!cache_upstream_packument, Npm!At, At
    <3>2. Goto(r, "keep") /\ (Npm!Quiet => Quiet)
      BY <3>1, NpmWords
    <3> QED BY <1>7, <2>2, <2>3, <3>1, <3>2
  <2>4. CASE ~At(r, "keep tags")
    BY <1>2, <1>3, <1>5, <1>6, <2>1, <2>2, <2>4 DEF Npm!cache_upstream_packument, Npm!At, At, Npm!Quiet, Quiet, state
  <2> QED BY <2>3, <2>4
<1> QED BY <1>4, <1>5

\* The entries of the next member are added to what was merged before.
LEMMA MoreSafe ==
    ASSUME Safe, NEW r \in DOMAIN reqs, reqs[r].pc \in {"members", "pages", "page"}, NEW pc \in {"members", "pages"},
           NEW list, list \subseteq Entries, format = "npm" => Single(list), format # "helm",
           reqs' = [reqs EXCEPT ![r].pc = pc, ![r].at = @ + 1, ![r].merged = list], Quiet, UNCHANGED state
    PROVE  Safe'
<1> PICK W : reqs \in [DOMAIN reqs -> Request(W)]
  BY DEF Safe, Shaped
<1> PICK y : y = [reqs[r] EXCEPT !.pc = pc, !.at = @ + 1, !.merged = list]
  OBVIOUS
<1>1. Turned(r, y) /\ IsRequest(y)
  BY ShapePcAtMerged DEF Turned
<1>2. /\ y.pc = pc /\ y.dir = reqs[r].dir /\ y.cur = reqs[r].cur /\ y.list = reqs[r].list /\ y.proxy = reqs[r].proxy
      /\ y.at = reqs[r].at + 1 /\ y.key = reqs[r].key /\ y.merged = list
  BY DEF Request
<1>3. reqs[r].at + 1 \in Nat \ {0}
  BY OwnFits
<1>4. /\ y.pc \in Aside /\ y.cur \in Spots /\ y.proxy \in Spots /\ y.at \in Nat \ {0} /\ y.dir \in Places /\ y.key \in Tokens
      /\ y.merged \subseteq Entries /\ y.list \subseteq Entries /\ (format \in {"helm", "npm"} => Single(y.merged))
  BY <1>2, <1>3, OwnFits DEF Aside
<1> QED BY <1>1, <1>4, AsideOwn, QuietSilent, SilentSafe

LEMMA NpmProxySafe ==
    ASSUME Safe, NEW r \in DOMAIN reqs, format = "npm", Npm!proxy_packument(r) \/ Npm!store_cached_packument(r)
    PROVE  Safe'
<1>1. CASE Quiet /\ UNCHANGED state /\ ((\E what : Reply(r, what)) \/ (At(r, "start") /\ Goto(r, "members")))
  BY <1>1, QuietSilent, ReplySafe, GotoSafe DEF At, Aside
<1>2. CASE /\ At(r, "members") /\ Quiet /\ UNCHANGED state
           /\ reqs' = [reqs EXCEPT ![r].at = @ + 1, ![r].merged = FirstWins(@, Npm!get_packument(Member(r)))]
  <2> PICK W : reqs \in [DOMAIN reqs -> Request(W)]
    BY DEF Safe, Shaped
  <2> PICK more : more = Npm!get_packument(Member(r))
    OBVIOUS
  <2> PICK list : list = FirstWins(reqs[r].merged, more)
    OBVIOUS
  <2>1. list \subseteq Entries /\ Single(list)
    BY <1>2, DocsFit, FirstWinsFits, OwnFits DEF At
  <2>2. reqs[r].pc = "members" /\ reqs[r] \in Request(W)
    BY <1>2 DEF At
  <2>3. [reqs[r] EXCEPT !.pc = "members", !.at = @ + 1, !.merged = list] = [reqs[r] EXCEPT !.at = @ + 1, !.merged = list]
    BY <2>2 DEF Request
  <2>4. reqs' = [reqs EXCEPT ![r] = [reqs[r] EXCEPT !.at = @ + 1, !.merged = list]]
    BY <1>2
  <2>5. reqs' = [reqs EXCEPT ![r].pc = "members", ![r].at = @ + 1, ![r].merged = list]
    BY <2>3, <2>4
  <2> QED BY <1>2, <2>1, <2>2, <2>5, MoreSafe
<1>3. CASE Npm!store_cached_packument(r)
  <2> PICK V : extra \in [claims : V, docs : V, tags : V, old : V]
    BY DEF Safe, Shaped
  <2>1. /\ At(r, "members") /\ PutIndex(Ask[r].repo, Root, reqs[r].merged, None) /\ Reply(r, reqs[r].merged)
        /\ files' = files \cup {[spot |-> Ask[r].repo, dir |-> Root, list |-> reqs[r].merged]}
        /\ extra' = [extra EXCEPT !.old = @ \ {Ask[r].repo}]
        /\ Quiet /\ UNCHANGED <<recs, flags, offer, fresh, keys, depth>>
    BY <1>3, NpmWords DEF Npm!store_cached_packument
  <2>2. Ask[r].repo \in Spots /\ reqs[r].merged \subseteq Entries /\ Single(reqs[r].merged)
    BY <2>1, InReqs, OwnFits DEF At
  <2>3. extra.old \subseteq Spots /\ flags \subseteq Spots /\ fresh \in BOOLEAN /\ faults \in 0 .. MaxFaults
    BY DEF Safe, StateSafe, StateTyped
  <2>4. extra' \in [claims : {extra.claims}, docs : {extra.docs}, tags : {extra.tags}, old : SUBSET Spots]
    BY <2>1, <2>3
  <2>5. format' = format /\ risk \subseteq risk' /\ faults' \in 0 .. MaxFaults /\ flags' \subseteq Spots /\ fresh' \in BOOLEAN
    BY <2>1, <2>3 DEF Quiet
  <2>6. Grown
    BY <2>1, <2>2, <2>4, <2>5, StoredGrown
  <2> QED BY <2>1, <2>6, ReplyGrown
<1>4. CASE Npm!proxy_packument(r)
  <2>1. Npm!Member(r) = Member(r)
    BY NpmWords
  <2>2. \A what : Npm!Reply(r, what) <=> Reply(r, what)
    BY NpmWords
  <2>3. Quiet /\ UNCHANGED state
    BY <1>4 DEF Npm!proxy_packument, Npm!state, state, Npm!Quiet, Quiet
  <2>5. CASE At(r, "members") /\ ~\E what : Reply(r, what)
    <3>1. reqs' = [reqs EXCEPT ![r].at = @ + 1, ![r].merged = Npm!FirstWins(@, Npm!get_packument(Npm!Member(r)))]
      BY <1>4, <2>2, <2>5 DEF Npm!proxy_packument, Npm!Asks, Npm!At, At
    <3>2. Npm!FirstWins(reqs[r].merged, Npm!get_packument(Npm!Member(r))) = FirstWins(reqs[r].merged, Npm!get_packument(Member(r)))
      BY <2>1 DEF Npm!FirstWins, FirstWins
    <3> QED BY <1>2, <2>3, <2>5, <3>1, <3>2
  <2>6. CASE ~At(r, "members") /\ ~\E what : Reply(r, what)
    <3>1. At(r, "start") /\ Goto(r, "members")
      BY <1>4, <2>2, <2>6 DEF Npm!proxy_packument, Npm!Asks, Npm!At, At, Npm!Goto, Goto
    <3> QED BY <2>3, <3>1, QuietSilent, GotoSafe DEF At, Aside
  <2>7. CASE \E what : Reply(r, what)
    BY <2>3, <2>7, QuietSilent, ReplySafe
  <2> QED BY <2>5, <2>6, <2>7, Zenon
<1> QED BY <1>3, <1>4

LEMMA NpmDownloadSafe ==
    ASSUME Safe, NEW r \in DOMAIN reqs, format = "npm",
           Npm!hosted_download(r) \/ Npm!cache_download(r) \/ Npm!put_package_from_upstream(r)
    PROVE  Safe'
<1> PICK W : reqs \in [DOMAIN reqs -> Request(W)]
  BY DEF Safe, Shaped
<1>1. CASE Npm!hosted_download(r) \/ Npm!cache_download(r)
  BY <1>1, HoldsOrNotSafe, CacheLookupSafe, AskUpstreamSafe, NpmWords DEF Npm!hosted_download, Npm!cache_download
<1>2. ASSUME NEW e \in reqs[r].list, reqs[r].pc \in {"store", "stored"}
      PROVE  e.pkg \in Pkgs /\ e.val \in Tokens /\ Cache \in Repos /\ Cache # Hosted
  BY <1>2, OwnFits, PackageAssumption DEF Entries, Tokens, Repos
<1>3. ASSUME At(r, "store"), NEW e \in reqs[r].list, PutRec(Cache, e.pkg, e.val), Goto(r, "stored"), Quiet,
             UNCHANGED <<flags, index, files, offer, fresh, keys, depth, extra>>
      PROVE  Safe'
  <2> PICK y : y = [reqs[r] EXCEPT !.pc = "stored"]
    OBVIOUS
  <2>1. Turned(r, y) /\ IsRequest(y)
    BY <1>3, ShapePc DEF Goto, Turned
  <2>2. /\ y.pc = "stored" /\ y.dir = reqs[r].dir /\ y.cur = reqs[r].cur /\ y.list = reqs[r].list /\ y.proxy = reqs[r].proxy
        /\ y.at = reqs[r].at /\ y.key = reqs[r].key /\ y.merged = reqs[r].merged
    BY DEF Request
  <2>3. /\ y.pc \in Aside /\ y.cur \in Spots /\ y.proxy \in Spots /\ y.at \in Nat \ {0} /\ y.dir \in Places /\ y.key \in Tokens
        /\ y.merged \subseteq Entries /\ y.list \subseteq Entries /\ (format \in {"helm", "npm"} => Single(y.merged))
    BY <1>3, <2>2, OwnFits DEF Aside, At
  <2>4. reqs'[r] = y /\ format' = format
    BY <1>3, <2>1 DEF Turned, Quiet
  <2>5. Own(r, reqs[r])'
    BY <2>3, <2>4, AsideNext
  <2> QED BY <1>2, <1>3, <2>1, <2>5, TarballPut DEF At
<1>4. ASSUME At(r, "stored"), NEW e \in reqs[r].list, Npm!PutDoc(Npm!Doc(Cache, e.pkg, e.val)), Reply(r, reqs[r].list), Quiet,
             UNCHANGED <<recs, flags, index, files, offer, fresh, keys, depth>>
      PROVE  Safe'
  <2>1. PICK y : Over(r, y) /\ Turned(r, y)
    BY <1>4, ReplyOver
  <2>2. reqs'[r] = y
    BY <2>1 DEF Turned
  <2>3. Own(r, reqs[r])' /\ IsRequest(y)
    BY <2>1, <2>2, InReqs, OverOwn
  <2> QED BY <1>2, <1>4, <2>1, <2>3, DocPut DEF At
<1>5. CASE Npm!put_package_from_upstream(r)
  BY <1>3, <1>4, <1>5, NpmWords DEF Npm!put_package_from_upstream
<1> QED BY <1>1, <1>5

LEMMA NpmSafe ==
    ASSUME Safe, NEW r \in DOMAIN reqs, format = "npm", Npm!NpmStep(r)
    PROVE  Safe'
<1>1. CASE Npm!hosted_packument(r)
  <2>1. (\E what : Reply(r, what)) /\ Quiet /\ UNCHANGED state
    BY <1>1, NpmWords DEF Npm!hosted_packument, Npm!state, state
  <2> QED BY <2>1, QuietSilent, ReplySafe
<1> QED BY <1>1, NpmPackageSafe, NpmTagsSafe, NpmFlagSafe, NpmCacheSafe, NpmProxySafe, NpmDownloadSafe
        DEF Npm!NpmStep, Npm!publish_inner

-----------------------------------------------------------------------------
(* pypi.                                                                   *)

LEMMA PypiUploadSafe ==
    ASSUME Safe, NEW r \in DOMAIN reqs, format = "pypi", Pypi!process_upload(r) \/ Pypi!upload_component_pypi(r)
    PROVE  Safe'
<1>1. CommitRecord(r) \/ SetFlag(r, Source(r), "done")
  BY PypiWords DEF Pypi!process_upload, Pypi!upload_component_pypi, Pypi!commit_package, Pypi!set_stale_flag
<1> QED BY <1>1, CommitRecordSafe, SetFlagSafe

\* A request that is answered or goes on, where nothing else changes.
LEMMA PypiQuietSafe ==
    ASSUME Safe, NEW r \in DOMAIN reqs, UNCHANGED state, Quiet \/ (\E kind : Fault(kind) /\ UNCHANGED format),
           \/ \E what : Reply(r, what)
           \/ reqs[r].pc \in {"start", "members", "pages", "link"} /\ \E pc \in {"proxy clear", "members", "serve", "pages", "page", "claim"} : Goto(r, pc)
    PROVE  Safe'
<1>1. Silent
  BY QuietSilent, FaultSilent
<1>2. CASE \E what : Reply(r, what)
  BY <1>1, <1>2, ReplySafe
<1>3. CASE reqs[r].pc \in {"start", "members", "pages", "link"} /\ \E pc \in {"proxy clear", "members", "serve", "pages", "page", "claim"} : Goto(r, pc)
  BY <1>1, <1>3, GotoSafe DEF Aside
<1> QED BY <1>2, <1>3

LEMMA PypiIndexSafe ==
    ASSUME Safe, NEW r \in DOMAIN reqs, format = "pypi",
           Pypi!hosted_simple_index(r) \/ Pypi!cache_simple_index(r) \/ Pypi!proxy_simple_index(r)
    PROVE  Safe'
<1>1. \A what : Pypi!Reply(r, what) <=> Reply(r, what)
  BY PypiWords
<1>2. CASE Pypi!hosted_simple_index(r) \/ Pypi!cache_simple_index(r)
  <2>1. UNCHANGED state /\ (Quiet \/ (\E kind : Fault(kind) /\ UNCHANGED format)) /\ \E what : Reply(r, what)
    BY <1>1, <1>2 DEF Pypi!hosted_simple_index, Pypi!cache_simple_index, Pypi!state, state, Pypi!Quiet, Quiet, Pypi!Fault, Fault
  <2> QED BY <2>1, PypiQuietSafe
<1>3. CASE Pypi!proxy_simple_index(r)
  <2>1. CASE ProxyClear(r)
    BY <2>1, ProxyClearSafe
  <2>2. CASE At(r, "members") /\ ~ProxyClear(r)
    <3> PICK W : reqs \in [DOMAIN reqs -> Request(W)]
      BY DEF Safe, Shaped
    <3>1. /\ reqs' = [reqs EXCEPT ![r].at = @ + 1, ![r].merged = @ \cup Pypi!Listed(Pypi!Member(r))]
          /\ Quiet /\ UNCHANGED state
      <4>1. Pypi!ProxyClear(r) <=> ProxyClear(r)
        BY PypiWords
      <4> QED BY <1>3, <2>2, <4>1 DEF Pypi!proxy_simple_index, Pypi!Asks, Pypi!At, At, Pypi!state, state, Pypi!Quiet, Quiet
    <3>2. Pypi!Listed(Pypi!Member(r)) = Listed(Member(r))
      BY PypiWords
    <3> PICK list : list = reqs[r].merged \cup Listed(Member(r))
      OBVIOUS
    <3>3. list \subseteq Entries
      BY ListedFits, OwnFits
    <3>4. reqs[r].pc = "members" /\ reqs[r] \in Request(W)
      BY <2>2 DEF At
    <3>5. [reqs[r] EXCEPT !.pc = "members", !.at = @ + 1, !.merged = list] = [reqs[r] EXCEPT !.at = @ + 1, !.merged = list]
      BY <3>4 DEF Request
    <3>6. reqs' = [reqs EXCEPT ![r] = [reqs[r] EXCEPT !.at = @ + 1, !.merged = list]]
      BY <3>1, <3>2
    <3>7. reqs' = [reqs EXCEPT ![r].pc = "members", ![r].at = @ + 1, ![r].merged = list]
      BY <3>5, <3>6
    <3> QED BY <3>1, <3>3, <3>4, <3>7, MoreSafe
  <2>3. CASE ~At(r, "members") /\ ~ProxyClear(r)
    <3>1. Pypi!ProxyClear(r) <=> ProxyClear(r)
      BY PypiWords
    <3>2. UNCHANGED state /\ Quiet
      BY <1>3, <2>3, <3>1 DEF Pypi!proxy_simple_index, Pypi!state, state, Pypi!Quiet, Quiet
    <3>3. (\E what : Reply(r, what)) \/ (reqs[r].pc = "start" /\ \E pc \in {"proxy clear", "serve"} : Goto(r, pc))
      BY <1>1, <1>3, <2>3, <3>1 DEF Pypi!proxy_simple_index, Pypi!Asks, Pypi!At, At, Pypi!Goto, Goto
    <3> QED BY <3>2, <3>3, PypiQuietSafe
  <2> QED BY <2>1, <2>2, <2>3
<1> QED BY <1>2, <1>3

LEMMA PypiStoreSafe ==
    ASSUME Safe, NEW r \in DOMAIN reqs, format = "pypi", Pypi!store_simple_index(r)
    PROVE  Safe'
<1>1. /\ At(r, "members") /\ Reply(r, reqs[r].merged) /\ UNCHANGED <<recs, flags, offer, fresh, keys, depth, extra>>
      /\ \/ /\ PutIndex(Ask[r].repo, Root, reqs[r].merged, None) /\ Quiet
            /\ files' = files \cup {[spot |-> Ask[r].repo, dir |-> Root, list |-> reqs[r].merged]}
         \/ Fault("stopped") /\ UNCHANGED <<format, index, files>>
  BY PypiWords DEF Pypi!store_simple_index
<1>2. CASE Fault("stopped") /\ UNCHANGED <<format, index, files>>
  <2>1. Silent
    BY <1>1, <1>2, FaultSilent DEF state
  <2> QED BY <1>1, <2>1, ReplySafe
<1>3. CASE /\ PutIndex(Ask[r].repo, Root, reqs[r].merged, None) /\ Quiet
           /\ files' = files \cup {[spot |-> Ask[r].repo, dir |-> Root, list |-> reqs[r].merged]}
  <2>1. Ask[r].repo \in Spots /\ reqs[r].merged \subseteq Entries
    BY InReqs, OwnFits
  <2>2. format' = format /\ risk \subseteq risk' /\ faults' \in 0 .. MaxFaults /\ flags' \subseteq Spots /\ fresh' \in BOOLEAN
    BY <1>1, <1>3 DEF Quiet, Safe, StateSafe, StateTyped
  <2>3. Grown
    BY <1>1, <1>3, <2>1, <2>2, ExtraStays, StoredGrown
  <2> QED BY <1>1, <2>3, ReplyGrown
<1> QED BY <1>1, <1>2, <1>3

\* What is stored of the page of a project.
LEMMA PageGrown ==
    ASSUME Safe, format = "pypi", Pypi!store_project_index(offer), Quiet, UNCHANGED <<recs, flags, offer, keys, depth, extra>>
    PROVE  Grown
<1>1. /\ PutIndex(Cache, Root, offer, None) /\ fresh' = TRUE
      /\ files' = files \cup {[spot |-> Cache, dir |-> Root, list |-> offer]}
  BY PypiWords DEF Pypi!store_project_index, Pypi!PutIndex, PutIndex, Pypi!CommitPoint, CommitPoint
<1>2. offer \subseteq Entries /\ Cache \in Spots
  BY DEF Safe, StateSafe, StateTyped, Spots, Repos
<1>3. format' = format /\ risk \subseteq risk' /\ faults' \in 0 .. MaxFaults /\ flags' \subseteq Spots /\ fresh' \in BOOLEAN
  BY <1>1 DEF Quiet, Safe, StateSafe, StateTyped
<1> QED BY <1>1, <1>2, <1>3, ExtraStays, StoredGrown

\* A member that does not have the file, after its page was kept.
LEMMA NotHereGrown ==
    ASSUME Safe, NEW r \in DOMAIN reqs, reqs[r].pc \notin {"version", "tags", "refreshed", "keep"}, Grown, format = "pypi",
           reqs' = [reqs EXCEPT ![r] = NotHere(r)]
    PROVE  Safe'
<1> PICK W : reqs \in [DOMAIN reqs -> Request(W)]
  BY DEF Safe, Shaped
<1> PICK y : y = NotHere(r)
  OBVIOUS
<1>1. Turned(r, y) /\ IsRequest(y) /\ Own(r, y) /\ ~Leads(y) /\ y.pc \in {"try", "done"}
  BY NotHereOwn DEF Turned
<1>2. reqs'[r] = y /\ format' = format
  BY <1>1 DEF Turned, Grown
<1>3. Own(r, reqs[r])'
  <2>1. Fits(r, reqs[r])'
    BY <1>1, <1>2 DEF Own, Fits, Blank
  <2>2. Apart(reqs[r])'
    BY <1>1, <1>2 DEF Own, Apart
  <2> QED BY <1>1, <1>2, <2>1, <2>2 DEF Own, Stored, Parted, Claimed, Leads
<1> QED BY <1>1, <1>3, GrownSafe

LEMMA PypiPageSafe ==
    ASSUME Safe, NEW r \in DOMAIN reqs, format = "pypi",
           Pypi!hosted_simple_project(r) \/ Pypi!cache_simple_project(r)
    PROVE  Safe'
<1>1. \A what : Pypi!Reply(r, what) <=> Reply(r, what)
  BY PypiWords
<1>2. CASE Pypi!hosted_simple_project(r)
  <2>1. UNCHANGED state /\ Quiet /\ \E what : Reply(r, what)
    BY <1>1, <1>2 DEF Pypi!hosted_simple_project, Pypi!state, state, Pypi!Quiet, Quiet
  <2> QED BY <2>1, PypiQuietSafe
<1>3. CASE Pypi!cache_simple_project(r)
  <2>1. /\ UNCHANGED <<recs, flags, offer, keys, depth, extra>> /\ \E what : Reply(r, what)
        /\ \/ Quiet /\ UNCHANGED <<index, files, fresh>>
           \/ Pypi!store_project_index(offer) /\ Quiet
           \/ Fault("upstream") /\ UNCHANGED <<format, index, files, fresh>>
    BY <1>1, <1>3 DEF Pypi!cache_simple_project, Pypi!Quiet, Quiet, Pypi!Fault, Fault
  <2>2. CASE Pypi!store_project_index(offer) /\ Quiet
    BY <2>1, <2>2, PageGrown, ReplyGrown
  <2>3. CASE (Quiet \/ (Fault("upstream") /\ UNCHANGED format)) /\ UNCHANGED <<index, files, fresh>>
    <3>1. UNCHANGED state
      BY <2>1, <2>3 DEF state
    <3> QED BY <2>1, <2>3, <3>1, PypiQuietSafe
  <2>4. (Fault("upstream") /\ UNCHANGED <<format, index, files, fresh>>) => (UNCHANGED format /\ UNCHANGED <<index, files, fresh>>)
    OBVIOUS
  <2> QED BY <2>1, <2>2, <2>3, <2>4
<1> QED BY <1>2, <1>3

LEMMA PypiPagesSafe ==
    ASSUME Safe, NEW r \in DOMAIN reqs, format = "pypi", Pypi!proxy_simple_project(r)
    PROVE  Safe'
<1>1. \A what : Pypi!Reply(r, what) <=> Reply(r, what)
  BY PypiWords
<1>2. Pypi!Member(r) = Member(r) /\ \A spot : Pypi!Listed(spot) = Listed(spot) /\ Pypi!Served(spot, Root) = Served(spot, Root)
  BY PypiWords
<1> DEFINE kept == IF Served(Cache, Root) = None THEN {} ELSE Served(Cache, Root)
<1>3. CASE At(r, "start") /\ Goto(r, "pages") /\ Quiet /\ UNCHANGED state
  BY <1>3, PypiQuietSafe DEF At
<1>4. CASE /\ At(r, "pages") /\ Quiet /\ UNCHANGED state
           /\ reqs' = [reqs EXCEPT ![r].at = @ + 1, ![r].merged = FirstWins(@, Listed(Member(r)))]
  <2> PICK W : reqs \in [DOMAIN reqs -> Request(W)]
    BY DEF Safe, Shaped
  <2> PICK list : list = FirstWins(reqs[r].merged, Listed(Member(r)))
    OBVIOUS
  <2>1. list \subseteq Entries
    BY ListedFits, OwnFits, FirstWinsFits
  <2>2. reqs[r].pc = "pages" /\ reqs[r] \in Request(W)
    BY <1>4 DEF At
  <2>3. [reqs[r] EXCEPT !.pc = "pages", !.at = @ + 1, !.merged = list] = [reqs[r] EXCEPT !.at = @ + 1, !.merged = list]
    BY <2>2 DEF Request
  <2>4. reqs' = [reqs EXCEPT ![r] = [reqs[r] EXCEPT !.at = @ + 1, !.merged = list]]
    BY <1>4
  <2>5. reqs' = [reqs EXCEPT ![r].pc = "pages", ![r].at = @ + 1, ![r].merged = list]
    BY <2>3, <2>4
  <2> QED BY <1>4, <2>1, <2>2, <2>5, MoreSafe
<1>5. CASE /\ At(r, "pages") /\ Goto(r, "page") /\ UNCHANGED <<recs, flags, offer, keys, depth, extra>>
           /\ \/ Pypi!store_project_index(offer) /\ Quiet
              \/ Fault("upstream") /\ UNCHANGED <<format, index, files, fresh>>
  <2>1. CASE Pypi!store_project_index(offer) /\ Quiet
    BY <1>5, <2>1, PageGrown, GotoGrown DEF At, Aside
  <2>2. CASE Fault("upstream") /\ UNCHANGED <<format, index, files, fresh>>
    <3>1. UNCHANGED state
      BY <1>5, <2>2 DEF state
    <3> QED BY <1>5, <2>2, <3>1, PypiQuietSafe DEF At
  <2> QED BY <1>5, <2>1, <2>2
<1>6. CASE /\ At(r, "page") /\ Quiet /\ UNCHANGED state
           /\ reqs' = [reqs EXCEPT ![r].pc = "pages", ![r].at = @ + 1, ![r].merged = FirstWins(@, kept)]
  <2> PICK list : list = FirstWins(reqs[r].merged, kept)
    OBVIOUS
  <2>1. kept \subseteq Entries
    BY ServedFits
  <2>2. list \subseteq Entries
    BY <2>1, OwnFits, FirstWinsFits
  <2>3. reqs' = [reqs EXCEPT ![r].pc = "pages", ![r].at = @ + 1, ![r].merged = list]
    BY <1>6
  <2>4. reqs[r].pc = "page"
    BY <1>6 DEF At
  <2> QED BY <1>6, <2>2, <2>3, <2>4, MoreSafe
<1>7. CASE Quiet /\ UNCHANGED state /\ \E what : Reply(r, what)
  BY <1>7, PypiQuietSafe
<1>8. CASE At(r, "start")
  <2>1. At(r, "start") /\ Goto(r, "pages") /\ Quiet /\ UNCHANGED state
    BY <1>8 DEF Pypi!proxy_simple_project, Pypi!Asks, Pypi!At, At, Pypi!Quiet, Quiet, Pypi!state, state, Pypi!Goto, Goto
  <2> QED BY <1>3, <2>1
<1>9. CASE At(r, "page")
  <2>1. /\ Quiet /\ UNCHANGED state
        /\ reqs' = [reqs EXCEPT ![r].pc = "pages", ![r].at = @ + 1,
                     ![r].merged = Pypi!FirstWins(@, IF Pypi!get_project_index = None THEN {} ELSE Pypi!get_project_index)]
    BY <1>9 DEF Pypi!proxy_simple_project, Pypi!Asks, Pypi!At, At, Pypi!Quiet, Quiet, Pypi!state, state
  <2>2. Pypi!get_project_index = Served(Cache, Root)
    BY <1>2 DEF Pypi!get_project_index
  <2>3. Pypi!FirstWins(reqs[r].merged, IF Pypi!get_project_index = None THEN {} ELSE Pypi!get_project_index) = FirstWins(reqs[r].merged, kept)
    BY <2>2 DEF Pypi!FirstWins, FirstWins
  <2> QED BY <1>6, <1>9, <2>1, <2>3
<1>10. CASE At(r, "pages") /\ ~MoreMembers(r)
  <2>1. Quiet /\ UNCHANGED state /\ \E what : Reply(r, what)
    <3>1. ~Pypi!MoreMembers(r)
      BY <1>10, PypiWords
    <3> QED BY <1>1, <1>10, <3>1 DEF Pypi!proxy_simple_project, Pypi!Asks, Pypi!At, At, Pypi!Quiet, Quiet, Pypi!state, state
  <2> QED BY <1>7, <2>1
<1>11. CASE At(r, "pages") /\ MoreMembers(r)
  <2>1. Pypi!MoreMembers(r)
    BY <1>11, PypiWords
  <2>2. CASE Member(r) = Cache
    <3>1. /\ Goto(r, "page") /\ UNCHANGED <<recs, flags, offer, keys, depth, extra>>
          /\ \/ Pypi!store_project_index(offer) /\ Quiet
             \/ Fault("upstream") /\ UNCHANGED <<format, index, files, fresh>>
      BY <1>2, <1>11, <2>1, <2>2 DEF Pypi!proxy_simple_project, Pypi!Asks, Pypi!At, At, Pypi!Quiet, Quiet, Pypi!Goto, Goto, Pypi!Fault, Fault
    <3> QED BY <1>5, <1>11, <3>1
  <2>3. CASE Member(r) # Cache
    <3>1. /\ Quiet /\ UNCHANGED state
          /\ reqs' = [reqs EXCEPT ![r].at = @ + 1, ![r].merged = Pypi!FirstWins(@, Pypi!Listed(Pypi!Member(r)))]
      BY <1>2, <1>11, <2>1, <2>3 DEF Pypi!proxy_simple_project, Pypi!Asks, Pypi!At, At, Pypi!Quiet, Quiet, Pypi!state, state
    <3>2. Pypi!FirstWins(reqs[r].merged, Pypi!Listed(Pypi!Member(r))) = FirstWins(reqs[r].merged, Listed(Member(r)))
      BY <1>2 DEF Pypi!FirstWins, FirstWins
    <3> QED BY <1>4, <1>11, <3>1, <3>2
  <2> QED BY <2>2, <2>3
<1>12. At(r, "start") \/ At(r, "pages") \/ At(r, "page")
  BY DEF Pypi!proxy_simple_project, Pypi!Asks, Pypi!At, At
<1> QED BY <1>8, <1>9, <1>10, <1>11, <1>12

LEMMA PypiLinksSafe ==
    ASSUME Safe, NEW r \in DOMAIN reqs, format = "pypi", Pypi!cache_project_links(r)
    PROVE  Safe'
<1> PICK W : reqs \in [DOMAIN reqs -> Request(W)]
  BY DEF Safe, Shaped
<1>1. Pypi!NotHere(r) = NotHere(r)
  BY PypiWords
<1>2. /\ At(r, "link") /\ UNCHANGED <<recs, flags, offer, keys, depth, extra>>
      /\ \/ Goto(r, "claim") /\ Quiet /\ UNCHANGED <<index, files, fresh>>
         \/ /\ Pypi!store_project_index(offer) /\ Quiet
            /\ Goto(r, "claim") \/ reqs' = [reqs EXCEPT ![r] = NotHere(r)]
         \/ Fault("upstream") /\ reqs' = [reqs EXCEPT ![r] = NotHere(r)] /\ UNCHANGED <<format, index, files, fresh>>
  <2>1. [reqs EXCEPT ![r] = [@ EXCEPT !.pc = "claim"]] = [reqs EXCEPT ![r].pc = "claim"]
    OBVIOUS
  <2> QED BY <1>1, <2>1 DEF Pypi!cache_project_links, Pypi!At, At, Pypi!Goto, Goto, Pypi!Quiet, Quiet, Pypi!Fault, Fault
<1>3. reqs[r].pc = "link"
  BY <1>2 DEF At
<1>4. CASE Quiet /\ Goto(r, "claim") /\ UNCHANGED <<index, files, fresh>>
  <2>1. UNCHANGED state
    BY <1>2, <1>4 DEF state
  <2> QED BY <1>3, <1>4, <2>1, PypiQuietSafe
<1>5. CASE Fault("upstream") /\ reqs' = [reqs EXCEPT ![r] = NotHere(r)] /\ UNCHANGED <<format, index, files, fresh>>
  <2>1. UNCHANGED state
    BY <1>2, <1>5 DEF state
  <2>2. Silent
    BY <1>5, <2>1, FaultSilent
  <2> QED BY <1>3, <1>5, <2>2, PassSafe
<1>6. CASE Pypi!store_project_index(offer) /\ Quiet /\ Goto(r, "claim")
  BY <1>2, <1>3, <1>6, PageGrown, GotoGrown DEF Aside
<1>7. CASE Pypi!store_project_index(offer) /\ Quiet /\ reqs' = [reqs EXCEPT ![r] = NotHere(r)]
  BY <1>2, <1>3, <1>7, PageGrown, NotHereGrown
<1> QED BY <1>2, <1>4, <1>5, <1>6, <1>7

LEMMA PypiRecheckSafe ==
    ASSUME Safe, NEW r \in DOMAIN reqs, format = "pypi", Pypi!Recheck(r)
    PROVE  Safe'
<1> PICK W : reqs \in [DOMAIN reqs -> Request(W)]
  BY DEF Safe, Shaped
<1>0. Own(r, reqs[r])
  BY DEF Safe
<1> PICK found : found = Holding(Cache, Ask[r].pkg)
  OBVIOUS
<1>1. /\ At(r, "recheck") /\ Quiet /\ UNCHANGED <<recs, flags, index, files, offer, fresh, keys, depth>>
      /\ \/ found # {} /\ reqs' = Woken(r, Delivered(r, found)) /\ extra' = Unclaimed(r)
         \/ found = {} /\ Goto(r, "fetch") /\ UNCHANGED extra
  <2>1. Pypi!Holding(Cache, Ask[r].pkg) = found /\ Pypi!Delivered(r, found) = Delivered(r, found) /\ Pypi!Unclaimed(r) = Unclaimed(r)
    BY PypiWords
  <2>2. Pypi!Woken(r, Delivered(r, found)) = Woken(r, Delivered(r, found))
    BY PypiWords
  <2> QED BY <2>1, <2>2 DEF Pypi!Recheck, Pypi!At, At, Pypi!Goto, Goto, Pypi!Quiet, Quiet
<1>2. CASE found # {}
  <2> PICK y : y = Delivered(r, found)
    OBVIOUS
  <2>1. Turned(r, y) /\ Over(r, y)
    BY <1>1, <1>2, WokenTurned, DeliveredOver
  <2>2. reqs'[r] = y
    BY <2>1 DEF Turned
  <2>3. Own(r, reqs[r])' /\ ~Leads(y) /\ IsRequest(y) /\ Own(r, y)
    BY <2>1, <2>2, InReqs, OverOwn, DoneOwn
  <2>4. format' = format /\ risk \subseteq risk' /\ faults' \in 0 .. MaxFaults /\ Leads(reqs[r])
    BY <1>1 DEF Quiet, Safe, StateSafe, StateTyped, Leads, At
  <2> QED BY <1>1, <1>2, <2>1, <2>3, <2>4, UnclaimedSafe
<1>3. CASE found = {}
  <2> PICK y : y = [reqs[r] EXCEPT !.pc = "fetch"]
    OBVIOUS
  <2>1. Turned(r, y) /\ IsRequest(y)
    BY <1>1, <1>3, ShapePc DEF Goto, Turned
  <2>2. /\ y.pc = "fetch" /\ y.dir = reqs[r].dir /\ y.cur = reqs[r].cur /\ y.list = reqs[r].list /\ y.proxy = reqs[r].proxy
        /\ y.at = reqs[r].at /\ y.key = reqs[r].key /\ y.merged = reqs[r].merged
    BY DEF Request
  <2>3. Own(r, y) /\ Leads(reqs[r])
    BY <1>0, <1>1, <1>3, <2>2 DEF Own, Fits, Apart, Stored, Parted, Claimed, Leads, At
  <2>4. Silent
    BY <1>1, <1>3, QuietSilent DEF state
  <2> QED BY <2>1, <2>3, <2>4, SilentSafe
<1> QED BY <1>2, <1>3

LEMMA PypiSafe ==
    ASSUME Safe, NEW r \in DOMAIN reqs, format = "pypi", Pypi!PypiStep(r)
    PROVE  Safe'
<1>1. CASE Pypi!hosted_download(r) \/ Pypi!cache_download(r) \/ Pypi!put_cached_package(r)
  <2>1. \/ HoldsOrNot(r, {Hosted, Proxy}) \/ CacheLookup(r, "link") \/ TryClaim(r, "recheck") \/ AskUpstream(r) \/ StoreFetched(r)
        \/ Pypi!cache_project_links(r) \/ Pypi!Recheck(r)
    BY <1>1, PypiWords DEF Pypi!hosted_download, Pypi!cache_download, Pypi!put_cached_package
  <2> QED BY <2>1, HoldsOrNotSafe, CacheLookupSafe, TryClaimSafe, AskUpstreamSafe, StoreFetchedSafe, PypiLinksSafe, PypiRecheckSafe
<1> QED BY <1>1, PypiUploadSafe, PypiIndexSafe, PypiStoreSafe, PypiPageSafe, PypiPagesSafe DEF Pypi!PypiStep

-----------------------------------------------------------------------------
(* All formats together.                                                   *)

\* Upstream and the clock move, or nothing does.
LEMMA IdleSafe ==
    ASSUME Safe, UNCHANGED <<format, risk, reqs, recs, flags, index, files, keys, depth, extra>>,
           faults' \in 0 .. MaxFaults, fresh' \in BOOLEAN, offer' \subseteq Entries, Single(offer')
    PROVE  Safe'
<1>1. Shaped' /\ Alone'
  BY DEF Safe, Shaped, Alone, Claim
<1>2. StateTyped' /\ StateApart'
  BY DEF Safe, StateSafe, StateTyped, StateApart
<1>3. IndexServable' /\ PartsInOrder'
  BY DEF Safe, StateSafe, IndexServable, PartsInOrder, Described, Holding, Listed
<1>4. \A q \in DOMAIN reqs : Own(q, reqs[q])'
  <2> TAKE q \in DOMAIN reqs
  <2>1. Own(q, reqs[q]) /\ reqs'[q] = reqs[q]
    BY DEF Safe
  <2>2. Fits(q, reqs[q])' /\ Apart(reqs[q])'
    BY <2>1 DEF Own, Fits, Apart
  <2>3. Stored(reqs[q])'
    BY <2>1 DEF Own, Stored, In, DirFor
  <2>4. Parted(q, reqs[q])' /\ Claimed(q, reqs[q])'
    BY <2>1 DEF Own, Parted, Claimed, Holding, Listed, Described, SameInstance, Claim
  <2> QED BY <2>2, <2>3, <2>4 DEF Own
<1> QED BY <1>1, <1>2, <1>3, <1>4 DEF Safe, StateSafe

\* Every action of every format, by one of the lemmas above.
LEMMA StepKeepsSafe ==
    ASSUME Safe, NEW r \in DOMAIN reqs, Step(r)
    PROVE  Safe'
BY AgainSafe, rejectedSafe, deleteSafe, unsupportedSafe, propagateSafe, AptSafe, YumSafe, HelmSafe, NpmSafe, PypiSafe,
   CargoSafe, GolangSafe DEF Step

\* Every step, also of upstream and the clock, and every stop.
LEMMA NextSafe ==
    ASSUME Safe, [Next]_vars
    PROVE  Safe'
<1>1. faults \in 0 .. MaxFaults /\ fresh \in BOOLEAN /\ offer \subseteq Entries /\ Single(offer)
  BY DEF Safe, StateSafe, StateTyped, StateApart
<1>2. ASSUME NEW r \in DOMAIN reqs, Step(r) PROVE Safe'
  BY <1>2, StepKeepsSafe
<1>3. ASSUME NEW r \in DOMAIN reqs, Stops(r) PROVE Safe'
  BY <1>3, StopsSafe
<1>4. CASE upstream_moves
  <2>1. Offers[2] \subseteq Entries /\ Single(Offers[2])
    BY PackageAssumption DEF Entries, Single
  <2>2. faults' \in 0 .. MaxFaults
    BY <1>1, <1>4, PackageAssumption DEF upstream_moves
  <2> QED BY <1>1, <1>4, <2>1, <2>2, IdleSafe DEF upstream_moves
<1>5. CASE Expires
  BY <1>1, <1>5, IdleSafe DEF Expires, Quiet
<1>6. CASE UNCHANGED vars
  BY <1>1, <1>6, IdleSafe DEF vars, state
<1> QED BY <1>2, <1>3, <1>4, <1>5, <1>6 DEF Next

-----------------------------------------------------------------------------
(* The dist-tags of npm: what a publish has read or is about to tag is     *)
(* promised.                                                               *)

Tagging == {"version", "tags", "publish"}
Carried(q, x) ==
    /\ x.pc \in {"version", "tags"} => \A t \in x.list : t.repo = Hosted /\ Promised(Hosted, t.pkg)
    /\ x.pc \in Tagging => Promised(Hosted, Ask[q].pkg)
TagsSafe == format = "npm" => TagsPromised /\ \A q \in DOMAIN reqs : Carried(q, reqs[q])

\* What is described stays, and what r is to write it goes on to write.
Ahead(r) ==
    /\ format' = format /\ risk \subseteq risk'
    /\ \A repo, p : Described(repo, p) => Described(repo, p)'
    /\ \A repo, p : Writes(r, repo, p) => Promised(repo, p)'

LEMMA PromisedStays ==
    ASSUME Safe, NEW r \in DOMAIN reqs, NEW y, Turned(r, y), Ahead(r), NEW repo, NEW p, Promised(repo, p)
    PROVE  Promised(repo, p)'
<1>1. CASE \E q \in DOMAIN reqs : Writes(q, repo, p)
  <2> PICK q \in DOMAIN reqs : Writes(q, repo, p)
    BY <1>1
  <2>1. CASE q = r
    BY <2>1 DEF Ahead
  <2>2. CASE q # r
    <3>1. reqs[q].pc \notin {"wait", "late"} /\ DOMAIN reqs' = DOMAIN reqs
      BY DEF Writes, At, Turned
    <3>2. reqs'[q] = reqs[q]
      BY <2>2, <3>1 DEF Turned
    <3>3. Writes(q, repo, p)'
      BY <3>2 DEF Writes, At
    <3> QED BY <3>1, <3>3 DEF Promised
  <2> QED BY <2>1, <2>2
<1>2. CASE Described(repo, p)
  BY <1>2 DEF Ahead, Promised
<1>3. CASE risk \cap {"stopped", "skipped"} # {}
  BY <1>3 DEF Ahead, Promised
<1> QED BY <1>1, <1>2, <1>3 DEF Promised

LEMMA TagsStay ==
    ASSUME Safe, TagsSafe, format = "npm", NEW r \in DOMAIN reqs, NEW y, Turned(r, y), Ahead(r), Carried(r, y)',
           \A t \in extra'.tags : t \in extra.tags \/ Promised(t.repo, t.pkg)'
    PROVE  TagsSafe'
<1> PICK W : reqs \in [DOMAIN reqs -> Request(W)]
  BY DEF Safe, Shaped
<1>0. \A repo, p : Promised(repo, p) => Promised(repo, p)'
  BY PromisedStays
<1>1. TagsPromised'
  <2>1. \A t \in extra.tags : Promised(t.repo, t.pkg)
    BY DEF TagsSafe, TagsPromised
  <2> QED BY <1>0, <2>1 DEF TagsPromised
<1>2. ASSUME NEW q \in DOMAIN reqs PROVE Carried(q, reqs[q])'
  <2>1. CASE q = r
    <3>1. reqs'[q] = y
      BY <2>1 DEF Turned
    <3> QED BY <2>1, <3>1 DEF Carried
  <2>2. CASE q # r /\ reqs'[q] = reqs[q]
    <3>1. Carried(q, reqs[q])
      BY DEF TagsSafe
    <3> QED BY <1>0, <2>2, <3>1 DEF Carried
  <2>3. CASE \E p \in {"try", "lost"} : reqs'[q] = [reqs[q] EXCEPT !.pc = p]
    <3>1. reqs'[q].pc \in {"try", "lost"}
      BY <2>3 DEF Request
    <3> QED BY <3>1 DEF Carried, Tagging
  <2> QED BY <2>1, <2>2, <2>3 DEF Turned
<1>3. DOMAIN reqs' = DOMAIN reqs
  BY DEF Turned
<1> QED BY <1>1, <1>2, <1>3 DEF TagsSafe

\* A step that has nothing to do with the tags.
LEMMA CalmTags ==
    ASSUME Safe, TagsSafe, format = "npm", NEW r \in DOMAIN reqs, NEW y, Turned(r, y), y.pc \notin Tagging,
           reqs[r].pc \notin Tagging \cup {"keep"}, format' = format, risk \subseteq risk', extra'.tags = extra.tags,
           \A repo, p : Described(repo, p) => Described(repo, p)'
    PROVE  TagsSafe'
<1>1. Ahead(r)
  BY DEF Ahead, Writes, At, Tagging
<1>2. Carried(r, y)'
  BY DEF Carried, Tagging
<1> QED BY <1>1, <1>2, TagsStay

\* One that leaves what is stored besides as it is.
LEMMA QuietTags ==
    ASSUME Safe, TagsSafe, format = "npm", NEW r \in DOMAIN reqs, NEW y, Turned(r, y), y.pc \notin Tagging,
           reqs[r].pc \notin Tagging \cup {"keep"}, format' = format, risk \subseteq risk',
           extra'.docs = extra.docs, extra'.tags = extra.tags
    PROVE  TagsSafe'
BY CalmTags DEF Described

LEMMA ReplyTags ==
    ASSUME Safe, TagsSafe, format = "npm", NEW r \in DOMAIN reqs, NEW what, Reply(r, what),
           reqs[r].pc \notin Tagging \cup {"keep"}, format' = format, risk \subseteq risk', extra'.tags = extra.tags,
           \A repo, p : Described(repo, p) => Described(repo, p)'
    PROVE  TagsSafe'
<1> PICK y : Over(r, y) /\ Turned(r, y)
  BY ReplyOver
<1>1. y.pc \notin Tagging
  BY DEF Over, Tagging
<1> QED BY <1>1, CalmTags

LEMMA SameDescribed ==
    ASSUME extra'.docs = extra.docs
    PROVE  \A repo, p : Described(repo, p) => Described(repo, p)'
BY DEF Described

LEMMA DoneTags ==
    ASSUME Safe, TagsSafe, format = "npm", NEW r \in DOMAIN reqs, NEW what, Reply(r, what),
           reqs[r].pc \notin Tagging \cup {"keep"}, format' = format, risk \subseteq risk', UNCHANGED extra
    PROVE  TagsSafe'
BY SameDescribed, ReplyTags

\* A version document is put.
LEMMA PutsDoc ==
    ASSUME Safe, NEW repo, NEW p, NEW v, Npm!PutDoc(Npm!Doc(repo, p, v))
    PROVE  /\ Described(repo, p)' /\ \A s, n : Described(s, n) => Described(s, n)'
           /\ extra'.tags = extra.tags
<1> PICK V : extra \in [claims : V, docs : V, tags : V, old : V]
  BY DEF Safe, Shaped
<1> PICK new : new = [repo |-> repo, pkg |-> p, val |-> v]
  OBVIOUS
<1>1. new.repo = repo /\ new.pkg = p /\ new.val = v
  OBVIOUS
<1>2. extra' = [extra EXCEPT !.docs = {x \in extra.docs : x.repo # repo \/ x.pkg # p} \cup {new}]
  BY <1>1 DEF Npm!PutDoc, Npm!Doc
<1>3. extra'.docs = {x \in extra.docs : x.repo # repo \/ x.pkg # p} \cup {new} /\ extra'.tags = extra.tags
  BY <1>2
<1> QED BY <1>1, <1>3 DEF Described

\* What is stopped on the way promises nothing any more.
LEMMA StopsTags ==
    ASSUME Safe, TagsSafe, format = "npm", NEW r \in DOMAIN reqs, Stops(r)
    PROVE  TagsSafe'
<1>1. \E y : Turned(r, y) /\ y.pc = "done"
  <2>1. CASE reqs' = Woken(r, [Start(r) EXCEPT !.pc = "done"])
    <3>1. [Start(r) EXCEPT !.pc = "done"].pc = "done"
      BY DEF Start
    <3> QED BY <2>1, <3>1, WokenTurned
  <2>2. CASE Reply(r, None)
    BY <2>2, ReplyOver DEF Over
  <2> QED BY <2>1, <2>2 DEF Stops
<1> PICK y : Turned(r, y) /\ y.pc = "done"
  BY <1>1
<1> PICK V : extra \in [claims : V, docs : V, tags : V, old : V]
  BY DEF Safe, Shaped
<1>2. extra'.docs = extra.docs /\ extra'.tags = extra.tags
  BY DEF Stops, Unclaimed
<1>3. format' = format /\ risk \subseteq risk' /\ "stopped" \in risk'
  BY DEF Stops, Fault
<1>4. Ahead(r)
  BY <1>2, <1>3, SameDescribed DEF Ahead, Promised
<1>5. Carried(r, y)'
  BY DEF Carried, Tagging
<1> QED BY <1>2, <1>4, <1>5, TagsStay

\* The versions are published one by one; the tag waits for the one it names.
LEMMA PackageTags ==
    ASSUME Safe, TagsSafe, format = "npm", NEW r \in DOMAIN reqs, Npm!put_package(r)
    PROVE  TagsSafe'
<1> PICK W : reqs \in [DOMAIN reqs -> Request(W)]
  BY DEF Safe, Shaped
<1>1. CASE \E left \in SUBSET Pkgs, p \in Pkgs :
             /\ Npm!Publishes(r, left) /\ p \in left
             /\ Npm!PutRec(Hosted, p, r) /\ Npm!NextVersion(r, p, left)
             /\ Npm!Quiet /\ UNCHANGED <<flags, index, files, offer, fresh, keys, depth, extra>>
  <2> PICK left \in SUBSET Pkgs, p \in Pkgs :
             /\ Npm!Publishes(r, left) /\ p \in left /\ Npm!NextVersion(r, p, left)
             /\ Npm!Quiet /\ UNCHANGED extra
    BY <1>1
  <2> PICK list : list = Npm!Tags(Hosted)
    OBVIOUS
  <2> PICK rest : rest = left \ {p}
    OBVIOUS
  <2> PICK y : y = [reqs[r] EXCEPT !.pc = "version", !.pkg = p, !.todo = rest, !.list = list]
    OBVIOUS
  <2>1. Turned(r, y)
    BY DEF Turned, Npm!NextVersion
  <2>2. y.pc = "version" /\ y.pkg = p /\ y.todo = rest /\ y.list = list
    BY DEF Request
  <2>3. reqs'[r] = y /\ DOMAIN reqs' = DOMAIN reqs /\ format' = format /\ risk' = risk
    BY <2>1, NpmWords DEF Turned, Quiet
  <2>4. \A n \in left : Writes(r, Hosted, n)'
    BY <2>2, <2>3 DEF Writes, At
  <2>5. \A n \in left : Promised(Hosted, n)'
    BY <2>3, <2>4 DEF Promised
  <2>6. Ahead(r)
    <3>1. \A repo, n : Writes(r, repo, n) => repo = Hosted /\ n \in left
      BY NpmWords DEF Writes, At, Npm!Publishes, upload_preamble, Asks
    <3> QED BY <2>3, <2>5, <3>1, SameDescribed DEF Ahead
  <2>7. Promised(Hosted, Ask[r].pkg)'
    <3>1. CASE At(r, "publish")
      <4>1. Promised(Hosted, Ask[r].pkg)
        BY <3>1 DEF TagsSafe, Carried, Tagging, At
      <4> QED BY <2>1, <2>6, <4>1, PromisedStays
    <3>2. CASE left = Npm!Versions(r)
      <4>1. Ask[r].pkg \in left
        BY <3>2, InReqs DEF Npm!Versions
      <4> QED BY <2>5, <4>1
    <3> QED BY <3>1, <3>2, NpmWords DEF Npm!Publishes
  <2>8. \A t \in list : t.repo = Hosted /\ Promised(Hosted, t.pkg)'
    <3>1. \A t \in list : t \in extra.tags /\ t.repo = Hosted
      BY DEF Npm!Tags
    <3>2. \A t \in list : Promised(t.repo, t.pkg)
      BY <3>1 DEF TagsSafe, TagsPromised
    <3> QED BY <2>1, <2>6, <3>1, <3>2, PromisedStays
  <2>9. Carried(r, y)'
    BY <2>2, <2>7, <2>8 DEF Carried
  <2> QED BY <2>1, <2>6, <2>9, TagsStay
<1>2. CASE At(r, "version") /\ Npm!PutDoc(Npm!Doc(Hosted, reqs[r].pkg, r)) /\ Goto(r, "tags") /\ Quiet
  <2> PICK V : extra \in [claims : V, docs : V, tags : V, old : V]
    BY DEF Safe, Shaped
  <2> PICK y : y = [reqs[r] EXCEPT !.pc = "tags"]
    OBVIOUS
  <2>1. Turned(r, y)
    BY <1>2 DEF Turned, Goto
  <2>2. y.pc = "tags" /\ y.todo = reqs[r].todo /\ y.list = reqs[r].list
    BY DEF Request
  <2>3. reqs'[r] = y /\ DOMAIN reqs' = DOMAIN reqs /\ format' = format /\ risk' = risk
    BY <1>2, <2>1 DEF Turned, Quiet
  <2> PICK pkg : pkg = reqs[r].pkg
    OBVIOUS
  <2>4. Described(Hosted, pkg)' /\ (\A s, n : Described(s, n) => Described(s, n)') /\ extra'.tags = extra.tags
    BY <1>2, PutsDoc
  <2>5. \A n \in reqs[r].todo : Writes(r, Hosted, n)'
    BY <2>2, <2>3 DEF Writes, At
  <2>6. Ahead(r)
    <3>1. \A repo, n : Writes(r, repo, n) => repo = Hosted /\ (n \in reqs[r].todo \/ n = pkg)
      BY <1>2 DEF Writes, At
    <3>2. \A n : n \in reqs[r].todo \/ n = pkg => Promised(Hosted, n)'
      BY <2>3, <2>4, <2>5 DEF Promised
    <3> QED BY <2>3, <2>4, <3>1, <3>2 DEF Ahead
  <2>7. Carried(r, reqs[r])
    BY DEF TagsSafe
  <2>8. Carried(r, y)'
    BY <1>2, <2>1, <2>2, <2>6, <2>7, PromisedStays DEF Carried, At, Tagging
  <2> QED BY <2>1, <2>4, <2>6, <2>8, TagsStay
<1> QED BY <1>1, <1>2, NpmWords DEF Npm!put_package

\* The tags of all are put with each version.
LEMMA PutTagsTags ==
    ASSUME Safe, TagsSafe, format = "npm", NEW r \in DOMAIN reqs, Npm!put_dist_tags(r)
    PROVE  TagsSafe'
<1> PICK W : reqs \in [DOMAIN reqs -> Request(W)]
  BY DEF Safe, Shaped
<1> PICK V : extra \in [claims : V, docs : V, tags : V, old : V]
  BY DEF Safe, Shaped
<1> PICK then : then = IF reqs[r].todo = {} THEN "flag" ELSE "publish"
  OBVIOUS
<1>1. At(r, "tags") /\ reqs' = [reqs EXCEPT ![r].pc = then, ![r].cur = Hosted, ![r].list = {}] /\ Quiet
  BY NpmWords DEF Npm!put_dist_tags, Npm!PutTags
<1> PICK tags : tags = (extra.tags \ Npm!Tags(Hosted)) \cup {t \in reqs[r].list : t.tag \notin {"latest", r}} \cup Npm!dist_tags(r)
  OBVIOUS
<1>2. extra' = [extra EXCEPT !.tags = tags]
  BY DEF Npm!put_dist_tags, Npm!PutTags
<1>3. extra'.tags = tags /\ extra'.docs = extra.docs
  BY <1>2
<1> PICK y : y = [reqs[r] EXCEPT !.pc = then, !.cur = Hosted, !.list = {}]
  OBVIOUS
<1>4. Turned(r, y)
  BY <1>1 DEF Turned
<1>5. y.pc = then /\ y.todo = reqs[r].todo
  BY DEF Request
<1>6. reqs'[r] = y /\ DOMAIN reqs' = DOMAIN reqs /\ format' = format /\ risk' = risk
  BY <1>1, <1>4 DEF Turned, Quiet
<1>7. Ahead(r)
  <2>1. \A repo, n : Writes(r, repo, n) => repo = Hosted /\ n \in reqs[r].todo
    BY <1>1 DEF Writes, At
  <2>2. \A n \in reqs[r].todo : Writes(r, Hosted, n)'
    BY <1>5, <1>6 DEF Writes, At
  <2>3. \A n \in reqs[r].todo : Promised(Hosted, n)'
    BY <1>6, <2>2 DEF Promised
  <2> QED BY <1>3, <1>6, <2>1, <2>3, SameDescribed DEF Ahead
<1>8. Carried(r, reqs[r])
  BY DEF TagsSafe
<1>9. Promised(Hosted, Ask[r].pkg)'
  <2>1. Promised(Hosted, Ask[r].pkg)
    BY <1>1, <1>8 DEF Carried, At, Tagging
  <2> QED BY <1>4, <1>7, <2>1, PromisedStays
<1>10. Carried(r, y)'
  BY <1>5, <1>9 DEF Carried
<1>11. \A t \in tags : t \in extra.tags \/ Promised(t.repo, t.pkg)'
  <2>1. \A t \in reqs[r].list : t.repo = Hosted /\ Promised(Hosted, t.pkg)'
    <3>1. \A t \in reqs[r].list : t.repo = Hosted /\ Promised(Hosted, t.pkg)
      BY <1>1, <1>8 DEF Carried, At
    <3> QED BY <1>4, <1>7, <3>1, PromisedStays
  <2>2. \A t \in Npm!dist_tags(r) : t.repo = Hosted /\ t.pkg = Ask[r].pkg
    BY DEF Npm!dist_tags
  <2> QED BY <1>9, <2>1, <2>2
<1> QED BY <1>3, <1>4, <1>7, <1>10, <1>11, TagsStay

\* A cache puts the tags of what it goes on to keep.
LEMMA CacheTags ==
    ASSUME Safe, TagsSafe, format = "npm", NEW r \in DOMAIN reqs, Npm!cache_packument(r) \/ Npm!cache_upstream_packument(r)
    PROVE  TagsSafe'
<1> PICK W : reqs \in [DOMAIN reqs -> Request(W)]
  BY DEF Safe, Shaped
<1> PICK V : extra \in [claims : V, docs : V, tags : V, old : V]
  BY DEF Safe, Shaped
<1>0. \A what : Npm!Reply(r, what) <=> Reply(r, what)
  BY NpmWords
<1>1. CASE Npm!cache_packument(r)
  <2>1. UNCHANGED extra /\ format' = format /\ risk \subseteq risk' /\ reqs[r].pc = "start"
    BY <1>1 DEF Npm!cache_packument, Npm!Quiet, Npm!Fault, Npm!state, Npm!Asks, Npm!At
  <2>2. CASE reqs' = [reqs EXCEPT ![r].pc = "keep tags", ![r].list = offer]
    <3> PICK y : y = [reqs[r] EXCEPT !.pc = "keep tags", !.list = offer]
      OBVIOUS
    <3>1. Turned(r, y)
      BY <2>2 DEF Turned
    <3>2. y.pc = "keep tags"
      BY DEF Request
    <3> QED BY <2>1, <3>1, <3>2, QuietTags DEF Tagging
  <2>3. CASE \E what : Reply(r, what)
    BY <2>1, <2>3, DoneTags DEF Tagging
  <2> QED BY <1>0, <1>1, <2>2, <2>3 DEF Npm!cache_packument
<1>2. ASSUME At(r, "keep tags"), Goto(r, "keep"),
             \/ \E e \in reqs[r].list :
                  extra' = [extra EXCEPT !.tags = (@ \ Npm!Tags(Cache)) \cup {[repo |-> Cache, tag |-> "latest", pkg |-> e.pkg]}]
             \/ UNCHANGED extra,
             format' = format, risk \subseteq risk'
      PROVE  TagsSafe'
  <2> PICK y : y = [reqs[r] EXCEPT !.pc = "keep"]
    OBVIOUS
  <2>1. Turned(r, y)
    BY <1>2 DEF Turned, Goto
  <2>2. y.pc = "keep" /\ y.list = reqs[r].list
    BY DEF Request
  <2>3. reqs'[r] = y /\ DOMAIN reqs' = DOMAIN reqs
    BY <2>1 DEF Turned
  <2>4. extra'.docs = extra.docs
    BY <1>2
  <2>5. Ahead(r)
    BY <1>2, <2>4, SameDescribed DEF Ahead, Writes, At
  <2>6. Carried(r, y)'
    BY <2>2 DEF Carried, Tagging
  <2>7. \A t \in extra'.tags : t \in extra.tags \/ Promised(t.repo, t.pkg)'
    <3>1. CASE UNCHANGED extra
      BY <3>1
    <3>2. CASE \E e \in reqs[r].list :
                 extra' = [extra EXCEPT !.tags = (@ \ Npm!Tags(Cache)) \cup {[repo |-> Cache, tag |-> "latest", pkg |-> e.pkg]}]
      <4> PICK e \in reqs[r].list :
                 extra' = [extra EXCEPT !.tags = (@ \ Npm!Tags(Cache)) \cup {[repo |-> Cache, tag |-> "latest", pkg |-> e.pkg]}]
        BY <3>2
      <4>1. Writes(r, Cache, e.pkg)'
        BY <2>2, <2>3 DEF Writes, At
      <4>2. Promised(Cache, e.pkg)'
        BY <2>3, <4>1 DEF Promised
      <4>3. \A t \in extra'.tags : t \in extra.tags \/ (t.repo = Cache /\ t.pkg = e.pkg)
        OBVIOUS
      <4> QED BY <4>2, <4>3
    <3> QED BY <1>2, <3>1, <3>2
  <2> QED BY <2>1, <2>5, <2>6, <2>7, TagsStay
<1>3. ASSUME At(r, "keep"), NEW e \in reqs[r].list, reqs' = [reqs EXCEPT ![r].list = @ \ {e}, ![r].merged = @ \cup {e}],
             format' = format, risk \subseteq risk', extra'.tags = extra.tags,
             \A s, n : Described(s, n) => Described(s, n)', Described(Cache, e.pkg)' \/ "skipped" \in risk'
      PROVE  TagsSafe'
  <2> PICK y : y = [reqs[r] EXCEPT !.list = @ \ {e}, !.merged = @ \cup {e}]
    OBVIOUS
  <2>1. Turned(r, y)
    BY <1>3 DEF Turned
  <2>2. y.pc = "keep" /\ y.list = reqs[r].list \ {e}
    BY <1>3 DEF Request, At
  <2>3. reqs'[r] = y /\ DOMAIN reqs' = DOMAIN reqs
    BY <2>1 DEF Turned
  <2>4. \A f \in reqs[r].list : Promised(Cache, f.pkg)'
    <3> SUFFICES ASSUME NEW p, NEW f \in reqs[r].list, f.pkg = p PROVE Promised(Cache, p)'
      OBVIOUS
    <3>1. CASE f = e
      BY <1>3, <3>1 DEF Promised
    <3>2. CASE f # e
      <4>1. Writes(r, Cache, p)'
        BY <2>2, <2>3, <3>2 DEF Writes, At
      <4> QED BY <2>3, <4>1 DEF Promised
    <3> QED BY <3>1, <3>2
  <2>5. Ahead(r)
    <3>1. \A repo, n : Writes(r, repo, n) => repo = Cache /\ \E f \in reqs[r].list : f.pkg = n
      BY <1>3 DEF Writes, At
    <3> QED BY <1>3, <2>4, <3>1 DEF Ahead
  <2>6. Carried(r, y)'
    BY <2>2 DEF Carried, Tagging
  <2> QED BY <1>3, <2>1, <2>5, <2>6, TagsStay
<1>4. ASSUME At(r, "keep"), reqs[r].list = {}, Reply(r, reqs[r].merged), Quiet, UNCHANGED extra
      PROVE  TagsSafe'
  <2> PICK y : Over(r, y) /\ Turned(r, y)
    BY <1>4, ReplyOver
  <2>1. Ahead(r)
    BY <1>4, SameDescribed DEF Ahead, Writes, At, Quiet
  <2>2. Carried(r, y)'
    BY DEF Over, Carried, Tagging
  <2> QED BY <1>4, <2>1, <2>2, TagsStay
<1>5. CASE Npm!cache_upstream_packument(r) /\ At(r, "keep tags")
  BY <1>2, <1>5, NpmWords DEF Npm!cache_upstream_packument, Quiet, Fault, At
<1>6. CASE Npm!cache_upstream_packument(r) /\ At(r, "keep") /\ reqs[r].list # {}
  <2>1. PICK e \in reqs[r].list :
          /\ reqs' = [reqs EXCEPT ![r].list = @ \ {e}, ![r].merged = @ \cup {e}]
          /\ \/ Npm!PutDoc(Npm!Doc(Cache, e.pkg, e.val)) /\ Npm!Quiet
             \/ Npm!Fault("skipped") /\ UNCHANGED <<format, extra>>
    BY <1>0, <1>6 DEF Npm!cache_upstream_packument, Npm!At, At
  <2>2. CASE Npm!PutDoc(Npm!Doc(Cache, e.pkg, e.val)) /\ Npm!Quiet
    <3> PICK p : p = e.pkg
      OBVIOUS
    <3>1. Described(Cache, p)' /\ (\A s, n : Described(s, n) => Described(s, n)') /\ extra'.tags = extra.tags
      BY <2>2, PutsDoc
    <3>2. format' = format /\ risk' = risk
      BY <2>2 DEF Npm!Quiet
    <3> QED BY <1>3, <1>6, <2>1, <3>1, <3>2
  <2>3. CASE Npm!Fault("skipped") /\ UNCHANGED <<format, extra>>
    BY <1>3, <1>6, <2>1, <2>3, SameDescribed DEF Npm!Fault
  <2> QED BY <2>1, <2>2, <2>3
<1>7. CASE Npm!cache_upstream_packument(r) /\ At(r, "keep") /\ reqs[r].list = {}
  <2>1. Reply(r, reqs[r].merged) /\ Npm!Quiet /\ UNCHANGED extra
    BY <1>0, <1>7 DEF Npm!cache_upstream_packument, Npm!At, At
  <2> QED BY <1>4, <1>7, <2>1, NpmWords
<1> QED BY <1>1, <1>5, <1>6, <1>7 DEF Npm!cache_upstream_packument, Npm!At, At

\* Whatever the format, it stays.
LEMMA FormatStays ==
    ASSUME NEW r, Step(r), format # "npm"
    PROVE  format' = format
<1>1. Apt!AptStep(r) => format' = format
  BY DEF Apt!AptStep, Apt!handle_upload, Apt!commit_package, Apt!CommitRecord, Apt!Quiet, Apt!set_stale_flag_inner,
         Apt!SetFlag, Apt!upload_component_apt, Apt!FlagAlone, Apt!serve_metadata, Apt!rebuild_metadata,
         Apt!clear_stale_flag, Apt!ClearFlag, Apt!ScanShard, Apt!store_metadata_file, Apt!WriteFiles,
         Apt!store_inrelease, Apt!CommitIndex, Apt!get_metadata, Apt!cache_serve_metadata, Apt!proxy_serve_metadata,
         Apt!ProxyCheck, Apt!rebuild_proxy_apt_metadata, Apt!ProxyClear, Apt!MemberFails, Apt!Merge,
         Apt!create_snapshot, Apt!store_signing_key, Apt!resign_all_distributions
<1>2. Yum!YumStep(r) => format' = format
  BY DEF Yum!YumStep, Yum!handle_upload, Yum!commit_package, Yum!CommitRecord, Yum!Quiet, Yum!set_stale_flag_inner,
         Yum!SetFlag, Yum!upload_component_yum, Yum!FlagAlone, Yum!yum_store_from_config, Yum!serve_metadata,
         Yum!rebuild_metadata, Yum!clear_stale_flag, Yum!ClearFlag, Yum!ScanShard, Yum!NoIndex,
         Yum!store_metadata_file, Yum!WriteFiles, Yum!store_repomd_at, Yum!CommitIndex, Yum!get_metadata,
         Yum!handle_create_snapshot, Yum!create_snapshot, Yum!update_repo, Yum!delete_all_repodata,
         Yum!rebuild_repodata_for_depth_change, Yum!cache_serve_metadata, Yum!proxy_serve_metadata, Yum!ProxyCheck,
         Yum!rebuild_proxy_yum_metadata, Yum!ProxyClear, Yum!MemberFails, Yum!Merge
<1>3. Helm!HelmStep(r) => format' = format
  BY DEF Helm!HelmStep, Helm!handle_upload, Helm!commit_chart, Helm!CommitRecord, Helm!Quiet, Helm!set_stale_flag,
         Helm!SetFlag, Helm!upload_component_helm, Helm!hosted_get_index, Helm!rebuild_index, Helm!ClearFlag,
         Helm!ScanShard, Helm!cache_get_index, Helm!refresh_cache_index, Helm!proxy_get_index,
         Helm!rebuild_proxy_index, Helm!ProxyClear, Helm!MemberFails, Helm!merge_index_entries,
         Helm!hosted_download_chart, Helm!HoldsOrNot, Helm!cache_download_chart, Helm!CacheLookup, Helm!TryClaim,
         Helm!AskUpstream, Helm!StoreFetched, Helm!proxy_download_chart
<1>4. Pypi!PypiStep(r) => format' = format
  BY DEF Pypi!PypiStep, Pypi!process_upload, Pypi!commit_package, Pypi!CommitRecord, Pypi!Quiet, Pypi!set_stale_flag,
         Pypi!SetFlag, Pypi!upload_component_pypi, Pypi!hosted_simple_index, Pypi!cache_simple_index,
         Pypi!proxy_simple_index, Pypi!ProxyClear, Pypi!store_simple_index, Pypi!hosted_simple_project,
         Pypi!cache_simple_project, Pypi!proxy_simple_project, Pypi!hosted_download, Pypi!HoldsOrNot,
         Pypi!cache_download, Pypi!CacheLookup, Pypi!cache_project_links, Pypi!TryClaim, Pypi!Recheck,
         Pypi!AskUpstream, Pypi!put_cached_package, Pypi!StoreFetched
<1>5. Cargo!CargoStep(r) => format' = format
  BY DEF Cargo!CargoStep, Cargo!commit_crate, Cargo!set_yanked, Cargo!Quiet, Cargo!hosted_index_entry,
         Cargo!proxy_index_entry, Cargo!hosted_download, Cargo!HoldsOrNot, Cargo!proxy_download
<1>6. Golang!GolangStep(r) => format' = format
  BY DEF Golang!GolangStep, Golang!handle_upload, Golang!put_module_file, Golang!Quiet, Golang!commit_module_file,
         Golang!handle_hosted, Golang!HoldsOrNot, Golang!handle_cache, Golang!cache_fetch_and_store,
         Golang!CacheLookup, Golang!AskUpstream, Golang!StoreFetched, Golang!handle_proxy
<1> QED BY <1>1, <1>2, <1>3, <1>4, <1>5, <1>6
        DEF Step, Again, rejected, delete, unsupported, propagate_staleness, Quiet

\* The flags of npm have nothing to do with the tags.
LEMMA FlagTags ==
    ASSUME Safe, TagsSafe, format = "npm", NEW r \in DOMAIN reqs, Npm!set_stale_flag(r) \/ Npm!propagate_watermark(r)
    PROVE  TagsSafe'
<1> PICK W : reqs \in [DOMAIN reqs -> Request(W)]
  BY DEF Safe, Shaped
<1> PICK V : extra \in [claims : V, docs : V, tags : V, old : V]
  BY DEF Safe, Shaped
<1>0. \A what : Npm!Reply(r, what) <=> Reply(r, what)
  BY NpmWords
<1>1. CASE Npm!set_stale_flag(r)
  <2>1. At(r, "flag") /\ Propagate(r, Ask[r].repo, "done") /\ risk \subseteq risk' /\ UNCHANGED <<format, extra>>
    BY <1>1, NpmWords DEF Npm!set_stale_flag, Addressed
  <2> PICK todo : todo = Ancestors(Ask[r].repo)
    OBVIOUS
  <2> PICK y : y = [reqs[r] EXCEPT !.pc = "propagating", !.todo = todo, !.next = "done"]
    OBVIOUS
  <2>2. Turned(r, y)
    BY <2>1 DEF Turned, Propagate
  <2>3. y.pc = "propagating"
    BY DEF Request
  <2> QED BY <2>1, <2>2, <2>3, QuietTags DEF At, Tagging
<1>2. CASE Npm!propagate_watermark(r)
  <2>1. At(r, "propagating") /\ format' = format /\ risk \subseteq risk' /\ extra'.docs = extra.docs /\ extra'.tags = extra.tags
    BY <1>2 DEF Npm!propagate_watermark, Npm!At, At
  <2>2. CASE Reply(r, "ok")
    BY <2>1, <2>2, SameDescribed, ReplyTags DEF At, Tagging
  <2>3. CASE \E p \in reqs[r].todo : reqs' = [reqs EXCEPT ![r].todo = @ \ {p}]
    <3> PICK p \in reqs[r].todo : reqs' = [reqs EXCEPT ![r].todo = @ \ {p}]
      BY <2>3
    <3> PICK y : y = [reqs[r] EXCEPT !.todo = @ \ {p}]
      OBVIOUS
    <3>1. Turned(r, y)
      BY DEF Turned
    <3>2. y.pc = "propagating"
      BY <2>1 DEF Request, At
    <3> QED BY <2>1, <3>1, <3>2, QuietTags DEF At, Tagging
  <2> QED BY <1>0, <1>2, <2>2, <2>3 DEF Npm!propagate_watermark
<1> QED BY <1>1, <1>2

\* Nor have the merged packument of a proxy and the tarballs.
LEMMA ProxyTags ==
    ASSUME Safe, TagsSafe, format = "npm", NEW r \in DOMAIN reqs, Npm!proxy_packument(r) \/ Npm!store_cached_packument(r)
    PROVE  TagsSafe'
<1> PICK W : reqs \in [DOMAIN reqs -> Request(W)]
  BY DEF Safe, Shaped
<1> PICK V : extra \in [claims : V, docs : V, tags : V, old : V]
  BY DEF Safe, Shaped
<1>0. \A what : Npm!Reply(r, what) <=> Reply(r, what)
  BY NpmWords
<1>1. /\ reqs[r].pc \in {"start", "members"} /\ format' = format /\ risk \subseteq risk'
      /\ extra'.docs = extra.docs /\ extra'.tags = extra.tags
  BY DEF Npm!proxy_packument, Npm!store_cached_packument, Npm!Quiet, Npm!state, Npm!Asks, Npm!At
<1>2. CASE \E what : Reply(r, what)
  BY <1>1, <1>2, SameDescribed, ReplyTags DEF Tagging
<1>3. CASE Goto(r, "members")
  <2> PICK y : y = [reqs[r] EXCEPT !.pc = "members"]
    OBVIOUS
  <2>1. Turned(r, y) /\ y.pc = "members"
    BY <1>3 DEF Turned, Goto, Request
  <2> QED BY <1>1, <2>1, QuietTags DEF Tagging
<1>4. CASE \E list : reqs' = [reqs EXCEPT ![r].at = @ + 1, ![r].merged = list]
  <2> PICK list : reqs' = [reqs EXCEPT ![r].at = @ + 1, ![r].merged = list]
    BY <1>4
  <2> PICK y : y = [reqs[r] EXCEPT !.at = @ + 1, !.merged = list]
    OBVIOUS
  <2>1. Turned(r, y) /\ y.pc = reqs[r].pc
    BY DEF Turned, Request
  <2> QED BY <1>1, <2>1, QuietTags DEF Tagging
<1>5. Npm!store_cached_packument(r) => \E what : Reply(r, what)
  BY <1>0 DEF Npm!store_cached_packument
<1>6. CASE Npm!proxy_packument(r) /\ At(r, "members") /\ ~\E what : Reply(r, what)
  BY <1>0, <1>4, <1>6 DEF Npm!proxy_packument, Npm!Asks, Npm!At, At
<1>7. CASE Npm!proxy_packument(r) /\ ~At(r, "members") /\ ~\E what : Reply(r, what)
  BY <1>0, <1>3, <1>7 DEF Npm!proxy_packument, Npm!At, At, Npm!Goto, Goto
<1> QED BY <1>2, <1>5, <1>6, <1>7, Zenon

LEMMA DownloadTags ==
    ASSUME Safe, TagsSafe, format = "npm", NEW r \in DOMAIN reqs,
           Npm!hosted_download(r) \/ Npm!cache_download(r) \/ Npm!put_package_from_upstream(r)
    PROVE  TagsSafe'
<1> PICK W : reqs \in [DOMAIN reqs -> Request(W)]
  BY DEF Safe, Shaped
<1> PICK V : extra \in [claims : V, docs : V, tags : V, old : V]
  BY DEF Safe, Shaped
<1>1. ASSUME NEW y, Turned(r, y), y.pc \in {"done", "try", "fetch", "store", "stored"},
             reqs[r].pc \in {"start", "try", "fetch", "store"},
             format' = format, risk \subseteq risk', extra'.docs = extra.docs, extra'.tags = extra.tags
      PROVE  TagsSafe'
  BY <1>1, QuietTags DEF Tagging
<1>2. \A found : Delivered(r, found).pc = "done"
  BY DEF Delivered, Start
<1>3. NotHere(r).pc \in {"done", "try"}
  BY DEF NotHere, Start, Request
<1>4. CASE HoldsOrNot(r, {Hosted, Proxy})
  <2>1. reqs[r].pc \in {"start", "try"} /\ format' = format /\ risk \subseteq risk' /\ UNCHANGED extra
    BY <1>4 DEF HoldsOrNot, Trying, Quiet, state
  <2>2. PICK y : reqs' = [reqs EXCEPT ![r] = y] /\ (y = NotHere(r) \/ \E found : y = Delivered(r, found))
    BY <1>4 DEF HoldsOrNot
  <2>3. Turned(r, y)
    BY <2>2 DEF Turned
  <2> QED BY <1>1, <1>2, <1>3, <2>1, <2>2, <2>3
<1>5. CASE CacheLookup(r, "fetch")
  <2>1. reqs[r].pc \in {"start", "try"} /\ format' = format /\ risk \subseteq risk' /\ UNCHANGED extra
    BY <1>5 DEF CacheLookup, Trying, Quiet, state
  <2>2. PICK y : reqs' = [reqs EXCEPT ![r] = y] /\ (y = [reqs[r] EXCEPT !.pc = "fetch"] \/ \E found : y = Delivered(r, found))
    BY <1>5 DEF CacheLookup
  <2>3. Turned(r, y)
    BY <2>2 DEF Turned
  <2>4. [reqs[r] EXCEPT !.pc = "fetch"].pc = "fetch"
    BY DEF Request
  <2> QED BY <1>1, <1>2, <2>1, <2>2, <2>3, <2>4
<1>6. CASE AskUpstream(r)
  <2>1. /\ reqs[r].pc = "fetch" /\ format' = format /\ risk \subseteq risk'
        /\ extra'.docs = extra.docs /\ extra'.tags = extra.tags
    BY <1>6 DEF AskUpstream, At, Quiet, Fault, Unclaimed
  <2>2. CASE reqs' = Woken(r, NotHere(r))
    BY <1>1, <1>3, <2>1, <2>2, WokenTurned
  <2>3. CASE \E found : reqs' = [reqs EXCEPT ![r].pc = "store", ![r].list = found]
    <3> PICK found : reqs' = [reqs EXCEPT ![r].pc = "store", ![r].list = found]
      BY <2>3
    <3> PICK y : y = [reqs[r] EXCEPT !.pc = "store", !.list = found]
      OBVIOUS
    <3>1. Turned(r, y) /\ y.pc = "store"
      BY DEF Turned, Request
    <3> QED BY <1>1, <2>1, <3>1
  <2> QED BY <1>6, <2>2, <2>3 DEF AskUpstream
<1>7. ASSUME At(r, "store"), Goto(r, "stored"), Quiet, UNCHANGED extra
      PROVE  TagsSafe'
  <2> PICK y : y = [reqs[r] EXCEPT !.pc = "stored"]
    OBVIOUS
  <2>1. Turned(r, y) /\ y.pc = "stored"
    BY <1>7 DEF Turned, Goto, Request
  <2> QED BY <1>1, <1>7, <2>1 DEF At, Quiet
<1>8. ASSUME At(r, "stored"), NEW e \in reqs[r].list, Npm!PutDoc(Npm!Doc(Cache, e.pkg, e.val)), Reply(r, reqs[r].list), Quiet
      PROVE  TagsSafe'
  <2>1. (\A s, n : Described(s, n) => Described(s, n)') /\ extra'.tags = extra.tags
    BY <1>8, PutsDoc
  <2> QED BY <1>8, <2>1, ReplyTags DEF At, Tagging, Quiet
<1>9. CASE Npm!put_package_from_upstream(r)
  BY <1>7, <1>8, <1>9, NpmWords DEF Npm!put_package_from_upstream
<1>10. Npm!hosted_download(r) \/ Npm!cache_download(r) => HoldsOrNot(r, {Hosted, Proxy}) \/ CacheLookup(r, "fetch") \/ AskUpstream(r)
  BY NpmWords DEF Npm!hosted_download, Npm!cache_download
<1> QED BY <1>4, <1>5, <1>6, <1>9, <1>10

LEMMA StepTags ==
    ASSUME Safe, TagsSafe, NEW r \in DOMAIN reqs, Step(r)
    PROVE  TagsSafe'
<1>1. CASE format # "npm"
  BY <1>1, FormatStays DEF TagsSafe
<1>2. CASE format = "npm" /\ (rejected(r) \/ unsupported(r) \/ delete(r) \/ Npm!hosted_packument(r))
  <2>1. (\E what : Reply(r, what)) /\ reqs[r].pc = "start" /\ format' = format /\ risk \subseteq risk' /\ UNCHANGED extra
    BY <1>2, NpmWords DEF rejected, unsupported, delete, upload_preamble, Asks, At, Quiet, state, Npm!hosted_packument, Npm!state
  <2> QED BY <1>2, <2>1, DoneTags DEF Tagging
<1>3. CASE format = "npm" /\ Again(r)
  <2>1. Turned(r, Start(r)) /\ Start(r).pc = "start"
    <3> PICK W : reqs \in [DOMAIN reqs -> Request(W)]
      BY DEF Safe, Shaped
    <3> QED BY <1>3 DEF Again, Turned, Start
  <2>2. reqs[r].pc = "done" /\ format' = format /\ risk \subseteq risk' /\ UNCHANGED extra
    BY <1>3 DEF Again, At, Quiet, state
  <2> QED BY <1>3, <2>1, <2>2, QuietTags DEF Tagging
<1>4. CASE format = "npm" /\ Npm!NpmStep(r)
  BY <1>2, <1>4, PackageTags, PutTagsTags, FlagTags, CacheTags, ProxyTags, DownloadTags DEF Npm!NpmStep, Npm!publish_inner
<1> QED BY <1>1, <1>2, <1>3, <1>4 DEF Step

LEMMA NextTags ==
    ASSUME Safe, TagsSafe, [Next]_vars
    PROVE  TagsSafe'
<1>1. ASSUME NEW r \in DOMAIN reqs, Step(r) PROVE TagsSafe'
  BY <1>1, StepTags
<1>2. ASSUME NEW r \in DOMAIN reqs, Stops(r) PROVE TagsSafe'
  <2>1. CASE format = "npm"
    BY <1>2, <2>1, StopsTags
  <2>2. CASE format # "npm"
    BY <1>2, <2>2 DEF Stops, TagsSafe
  <2> QED BY <2>1, <2>2
<1>3. CASE UNCHANGED <<format, reqs, extra, risk>>
  BY <1>3 DEF TagsSafe, TagsPromised, Promised, Described, Writes, At, Carried
<1> QED BY <1>1, <1>2, <1>3 DEF Next, upstream_moves, Expires, Quiet, vars, state

\* Nothing has begun.
LEMMA InitSafe ==
    ASSUME Init
    PROVE  Safe
<1>1. PICK load \in Workloads :
        /\ format = load.format /\ reqs = [q \in load.reqs |-> Start(q)] /\ depth = load.depth
        /\ recs = {} /\ flags = {} /\ index = {} /\ files = {} /\ offer = Offers[1] /\ fresh = FALSE
        /\ keys = [priv |-> None, pub |-> None]
        /\ extra = [claims |-> {}, docs |-> {}, tags |-> {}, old |-> {}] /\ faults = load.faults /\ risk = {}
  BY DEF Init
<1>2. /\ load.format \in Formats /\ load.reqs \subseteq Reqs /\ load.faults \in 0 .. MaxFaults
      /\ load.depth \in {0, 1} /\ (load.format # "yum" => load.depth = 0)
  BY PackageAssumption
<1>3. \A q \in load.reqs : Ask[q].repo \in Spots /\ Ask[q].pkg \in Pkgs
  BY <1>2, PackageAssumption
<1>4. DOMAIN reqs = load.reqs /\ \A q \in DOMAIN reqs : reqs[q] = Start(q)
  BY <1>1
<1>5. Shaped
  <2> PICK W : W = Spots \cup Pkgs \cup {"start", 0, 1, Root, {}, None}
    OBVIOUS
  <2>1. \A q \in load.reqs : Start(q) \in Request(W)
    BY <1>3 DEF Start, Request
  <2>2. reqs \in [DOMAIN reqs -> Request(W)]
    BY <1>1, <2>1
  <2>3. extra \in [claims : W, docs : W, tags : W, old : W] /\ keys \in [priv : W, pub : W]
    BY <1>1
  <2> QED BY <2>2, <2>3 DEF Shaped
<1>6. Offers[1] \subseteq Entries /\ Single(Offers[1])
  BY PackageAssumption DEF Entries, Single
<1>7. StateTyped
  BY <1>1, <1>2, <1>4, <1>6 DEF StateTyped, Tokens, File
<1>8. StateApart /\ IndexServable /\ PartsInOrder
  BY <1>1, <1>6 DEF StateApart, IndexServable, PartsInOrder
<1>9. \A q \in DOMAIN reqs : Blank(q, reqs[q]) /\ reqs[q].pc = "start"
  <2> TAKE q \in DOMAIN reqs
  <2>1. reqs[q] = Start(q)
    BY <1>4
  <2>2. Blank(q, Start(q)) /\ Start(q).pc = "start"
    BY DEF Start, Blank
  <2> QED BY <2>1, <2>2
<1>10. Alone
  BY <1>9 DEF Alone, Leads
<1>11. \A q \in DOMAIN reqs : Own(q, reqs[q])
  <2> TAKE q \in DOMAIN reqs
  <2>1. Blank(q, reqs[q]) /\ reqs[q].pc = "start" /\ Ask[q].repo \in Spots
    BY <1>3, <1>4, <1>9
  <2>2. Fits(q, reqs[q])
    BY <2>1 DEF Fits, Blank, Places, Tokens
  <2>3. Apart(reqs[q]) /\ Stored(reqs[q]) /\ Parted(q, reqs[q]) /\ Claimed(q, reqs[q])
    BY <2>1 DEF Apart, Stored, Parted, Claimed, Leads, Blank, Single
  <2> QED BY <2>2, <2>3 DEF Own
<1> QED BY <1>5, <1>7, <1>8, <1>10, <1>11 DEF Safe, StateSafe

\* What Safe says of the state and of every request under way holds at every
\* moment of every upload, rebuild, merge, copy and download.
THEOREM SpecSafe == Spec => []Safe
<1>1. Init => Safe
  BY InitSafe
<1>2. Safe /\ [Next]_vars => Safe'
  BY NextSafe
<1> QED BY <1>1, <1>2, PTL DEF Spec

\* TagsSafe: the dist-tags that are stored, those that a publish has read and
\* the one it is about to put name versions that are described or promised.
THEOREM TagsKept == Spec => []TagsSafe
<1>1. Init => TagsSafe
  <2> SUFFICES ASSUME Init PROVE TagsSafe
    OBVIOUS
  <2>1. PICK load \in Workloads : reqs = [q \in load.reqs |-> Start(q)] /\ extra = [claims |-> {}, docs |-> {}, tags |-> {}, old |-> {}]
    BY DEF Init
  <2>2. TagsPromised
    BY <2>1 DEF TagsPromised
  <2>3. \A q \in DOMAIN reqs : Carried(q, reqs[q])
    BY <2>1 DEF Carried, Tagging, Start
  <2> QED BY <2>2, <2>3 DEF TagsSafe
<1>2. Safe /\ TagsSafe /\ [Next]_vars => TagsSafe'
  BY NextTags
<1> QED BY <1>1, <1>2, SpecSafe, PTL DEF Spec

\* TypeOK: records, flags, commit points and files are where they belong, and a
\* merged index of helm or npm has a version once.
THEOREM TypeCorrect == Spec => []TypeOK
<1>1. Safe => TypeOK
  <2> SUFFICES ASSUME Safe PROVE TypeOK
    OBVIOUS
  <2>1. StateTyped /\ StateApart
    BY DEF Safe, StateSafe
  <2>2. \A f \in files : f.spot \in Spots /\ f.dir \in Dirs \cup {Root} /\ f.list \subseteq Entries
    BY <2>1 DEF StateTyped, File, Places
  <2> QED BY <2>1, <2>2 DEF StateTyped, StateApart, TypeOK, Tokens, Places, Single
<1> QED BY <1>1, SpecSafe, PTL

\* NamesStored: no commit point names a file that is not stored, no document a
\* version without its tarball, and no dist-tag a version that neither has a
\* document nor is about to get one from a request under way, unless such a
\* request stopped or failed.
THEOREM NamesAreStored == Spec => []NamesStored
<1>1. Safe /\ TagsSafe => NamesStored
  BY DEF Safe, StateSafe, NamesStored, TagsSafe, TagsPromised
<1> QED BY <1>1, SpecSafe, TagsKept, PTL

\* StoredOnce: of the requests that miss a file of a pypi cache together one
\* stores it, and only when nobody has, if they are all sent to one instance.
THEOREM FetchedOnce == Spec => StoredOnce
<1> DEFINE Once == format = "pypi" =>
                     \A r \in DOMAIN reqs :
                       (SameInstance(r) /\ At(r, "store") /\ reqs'[r].pc = "done" /\ reqs'[r].answer # None)
                       => Holding(Cache, Ask[r].pkg) = {}
<1>1. Safe => Once
  <2> SUFFICES ASSUME Safe, format = "pypi", NEW r \in DOMAIN reqs, reqs[r].pc = "store", SameInstance(r)
               PROVE  Holding(Cache, Ask[r].pkg) = {}
    BY DEF At
  <2>1. Own(r, reqs[r])
    BY DEF Safe
  <2> QED BY <2>1 DEF Own, Claimed
<1>2. Safe /\ [Next]_vars => [Once]_vars
  BY <1>1
<1> QED BY <1>2, SpecSafe, PTL DEF StoredOnce, Spec
====
