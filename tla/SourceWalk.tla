----------------------------- MODULE SourceWalk -----------------------------
(***************************************************************************)
(* The source of a draft: the trees of a commit and of its parent are      *)
(* walked below the approved subtree, every object is verified by its git  *)
(* identity before it is kept, and a file that both have is selected with  *)
(* the licence of the repository.                                          *)
(*                                                                         *)
(* GitHub answers with the object, with a cut one or with another one, or  *)
(* not at all. At a rate limit the run pauses; whoever resumes it has the  *)
(* objects that were kept, and walks again from the beginning. Two objects *)
(* have one identity exactly when they are the same. What a rejection      *)
(* removes from the store again is modelled in Acquisition.                *)
(***************************************************************************)
EXTENDS Integers, Sequences, FiniteSets, SequencesExt, ChangedLines

CONSTANTS
  Repositories,      \* the receipts and what their repositories hold
  Subtree,           \* names from the root to the approved subtree
  Rules,             \* the marker rules of the attribution policy
  Supported,         \* names of files with a supported extension
  Excluded,          \* names that a path of a file may not have
  LicenceNames,
  MaxTreeEntries, MaxSelectedBlobs, MaxRequests, MaxResponseBytes,
  Sizes,             \* sizes of answers
  MaxPauses          \* bound on the rate limits

\* A repository is finite, closed and, as a tree is identified by what it holds, without cycles.
Closed(r) ==
  /\ IsFiniteSet(DOMAIN r.trees)
  /\ \A id \in DOMAIN r.trees :
       /\ r.trees[id] \in Seq(Range(r.trees[id]))
       /\ \A entry \in Range(r.trees[id]) :
            /\ entry.name \in STRING
            /\ entry.type = "tree" => entry.id \in DOMAIN r.trees
            /\ entry.type = "blob" => entry.id \in DOMAIN r.blobs
  /\ {r.root["child"], r.root["parent"]} \subseteq DOMAIN r.trees
  /\ \A id \in DOMAIN r.blobs : r.blobs[id].text \in Seq(STRING)
WithoutCycles(r) ==
  \E height \in [DOMAIN r.trees -> 0..Cardinality(DOMAIN r.trees)] :
    \A id \in DOMAIN r.trees : \A entry \in Range(r.trees[id]) :
      entry.type = "tree" => height[entry.id] < height[id]

\* Assumed of the constants, and evaluated where the module is composed.
SourceWalkAssumption ==
  /\ {MaxTreeEntries, MaxSelectedBlobs, MaxRequests, MaxResponseBytes, MaxPauses} \subseteq Nat
  /\ Subtree \in Seq(STRING) /\ Len(Subtree) > 0 /\ Sizes \subseteq Nat
  /\ IsFiniteSet(Rules) /\ \A r \in Repositories : Closed(r) /\ WithoutCycles(r)

VARIABLES
  repository,  \* the receipt
  phase,       \* resolve, walk, select, licence, done, rejected or paused
  side,        \* child or parent: the revision that is walked
  cursor,      \* the tree resolveApprovedSubtree is at, and its depth
  pending,     \* WalkState.pending, a stack
  selected,    \* selectedBlobs of each revision
  counted,     \* traversedEntries and scheduledBlobs
  trees,       \* LoadedObjects.trees: answers by identity
  blobs,       \* LoadedObjects.blobs
  identities,  \* objects that are in the store and in the checkpoint
  transport,   \* requestCount and responseBytes of the process
  candidate,
  pauses

walkVars == <<repository, phase, side, cursor, pending, selected, counted, trees, blobs,
              identities, transport, candidate, pauses>>

Sides == {"child", "parent"}
Object(kind, id) == [kind |-> kind, id |-> id]
Pending(kind, path, id) == [kind |-> kind, path |-> path, id |-> id]
NoCandidate == [path |-> << >>, child |-> "none", parent |-> "none", rules |-> {}]
-----------------------------------------------------------------------------
(* Requests.                                                               *)

Replies == [status : {"ok", "redirect", "limited", "error"}, hint : BOOLEAN, size : Sizes]

Verdict(reply) ==
  CASE reply.status = "limited" /\ reply.hint -> "paused"
    [] reply.status = "ok" /\ transport.bytes + reply.size <= MaxResponseBytes -> "accepted"
    [] OTHER -> "rejected"

\* A timeout, a lost connection, an answer for another identity or one that is no JSON
\* is a reply of status "error".
TreeAnswers(id) ==
  LET entries == repository.trees[id]
  IN {[truncated |-> FALSE, entries |-> entries], [truncated |-> TRUE, entries |-> Front(entries)],
      [truncated |-> FALSE, entries |-> Front(entries)]}
BlobAnswers(id) == {repository.blobs[id], [safe |-> TRUE, text |-> <<"other">>]}

RootEntries == trees[repository.root["child"]].entries
Licences ==
  {n \in DOMAIN RootEntries : RootEntries[n].name \in LicenceNames /\ RootEntries[n].type = "blob"}
LicenceId == RootEntries[CHOOSE n \in Licences : TRUE].id

\* The object that the next step needs.
Wanted ==
  CASE phase = "resolve" -> {Object("tree", cursor.id)}
    [] phase = "walk" /\ pending # << >> -> {Object(Last(pending).kind, Last(pending).id)}
    [] phase = "licence" /\ Cardinality(Licences) = 1 -> {Object("blob", LicenceId)}
    [] OTHER -> {}
Cached(object) == object.id \in IF object.kind = "tree" THEN DOMAIN trees ELSE DOMAIN blobs
HasWanted == \A object \in Wanted : Cached(object)

Reject ==
  /\ phase' = "rejected"
  /\ UNCHANGED <<repository, side, cursor, pending, selected, counted, trees, blobs, identities,
                 transport, candidate, pauses>>

(* The objects that were loaded, by identity.                              *)
Loaded(answers, id, answer) ==
  [known \in DOMAIN answers \cup {id} |-> IF known = id THEN answer ELSE answers[known]]
LoadTree(id) ==
  \E answer \in TreeAnswers(id) : trees' = Loaded(trees, id, answer) /\ UNCHANGED blobs
LoadBlob(id) ==
  \E answer \in BlobAnswers(id) : blobs' = Loaded(blobs, id, answer) /\ UNCHANGED trees

Request ==
  \E object \in Wanted :
    /\ ~Cached(object)
    /\ transport.requests < MaxRequests
    /\ \E reply \in Replies :
         /\ transport' = [requests |-> transport.requests + 1,
                          bytes |-> transport.bytes
                                      + IF Verdict(reply) = "accepted" THEN reply.size ELSE 0]
         /\ CASE Verdict(reply) = "accepted" ->
                   /\ IF object.kind = "tree" THEN LoadTree(object.id) ELSE LoadBlob(object.id)
                   /\ UNCHANGED <<phase, pauses>>
              [] Verdict(reply) = "paused" ->
                   /\ pauses < MaxPauses
                   /\ phase' = "paused" /\ pauses' = pauses + 1
                   /\ UNCHANGED <<trees, blobs>>
              [] OTHER -> phase' = "rejected" /\ UNCHANGED <<pauses, trees, blobs>>
    /\ UNCHANGED <<repository, side, cursor, pending, selected, counted, identities, candidate>>

RequestRefused ==
  /\ ~HasWanted
  /\ transport.requests >= MaxRequests
  /\ Reject
-----------------------------------------------------------------------------
(* Verification.                                                           *)

\* Two trees have one identity exactly when they have the same entries.
TreeIdentity(id) == trees[id].entries = repository.trees[id]
\* Neither a symbolic link nor a submodule.
Regular(entry) == entry.type \in {"blob", "tree"}

TreeVerified(id) ==
  /\ ~trees[id].truncated
  /\ Len(trees[id].entries) <= MaxTreeEntries
  /\ \A m, n \in DOMAIN trees[id].entries :
       trees[id].entries[m].name = trees[id].entries[n].name => m = n
  /\ TreeIdentity(id)
\* Fault: what was answered is taken for what was asked.
BlobTrusted(id) == id \in DOMAIN blobs
BlobVerified(id) == blobs[id] = repository.blobs[id]

\* screenBlob
Passes(path, blob) ==
  /\ Last(path) \in Supported
  /\ Range(path) \cap Excluded = {}
  /\ blob.safe

\* A file that does not pass the screen is not kept, and the walk goes on.
PersistVerified(object, path) ==
  identities' =
    IF object.kind = "tree" \/ Passes(path, blobs[object.id])
    THEN identities \cup {object}
    ELSE identities
-----------------------------------------------------------------------------
(* The walk of a revision.                                                 *)

Found(id, name) ==
  {n \in DOMAIN trees[id].entries :
     trees[id].entries[n].name = name /\ trees[id].entries[n].type = "tree"}

ResolveApprovedSubtree ==
  /\ phase = "resolve"
  /\ HasWanted
  /\ IF TreeVerified(cursor.id) /\ Found(cursor.id, Subtree[cursor.depth]) # {}
     THEN \E n \in Found(cursor.id, Subtree[cursor.depth]) :
            LET id == trees[cursor.id].entries[n].id
            IN /\ PersistVerified(Object("tree", cursor.id), << >>)
               /\ cursor' = [id |-> id, depth |-> cursor.depth + 1]
               /\ IF cursor.depth < Len(Subtree)
                  THEN UNCHANGED <<phase, pending, counted>>
                  ELSE /\ phase' = "walk"
                       /\ pending' = <<Pending("tree", Subtree, id)>>
                       /\ counted' = [entries |-> 0, blobs |-> 0]
               /\ UNCHANGED <<repository, side, selected, trees, blobs, transport, candidate,
                              pauses>>
     ELSE Reject

VisitTree ==
  /\ phase = "walk" /\ pending # << >> /\ Last(pending).kind = "tree"
  /\ HasWanted
  /\ LET object == Last(pending)
         entries == trees[object.id].entries
         after == [entries |-> counted.entries + Len(entries),
                   blobs |-> counted.blobs
                     + Cardinality({n \in DOMAIN entries : entries[n].type = "blob"})]
         children == [n \in DOMAIN entries |->
                        Pending(entries[n].type, Append(object.path, entries[n].name),
                                entries[n].id)]
     IN IF /\ TreeVerified(object.id)
           /\ after.entries <= MaxTreeEntries /\ after.blobs <= MaxSelectedBlobs
           /\ \A n \in DOMAIN entries : Regular(entries[n])
        THEN /\ counted' = after
             /\ PersistVerified(Object("tree", object.id), object.path)
             /\ pending' = Front(pending) \o Reverse(children)
             /\ UNCHANGED <<repository, phase, side, cursor, selected, trees, blobs, transport,
                            candidate, pauses>>
        ELSE Reject

VisitBlob ==
  /\ phase = "walk" /\ pending # << >> /\ Last(pending).kind = "blob"
  /\ HasWanted
  /\ LET object == Last(pending)
     IN IF BlobVerified(object.id)
        THEN /\ selected' = [selected EXCEPT ![side] =
                               Append(@, [path |-> object.path, id |-> object.id])]
             /\ PersistVerified(Object("blob", object.id), object.path)
             /\ pending' = Front(pending)
             /\ UNCHANGED <<repository, phase, side, cursor, counted, trees, blobs, transport,
                            candidate, pauses>>
        ELSE Reject

WalkEnds ==
  /\ phase = "walk" /\ pending = << >>
  /\ IF side = "child"
     THEN /\ side' = "parent" /\ phase' = "resolve"
          /\ cursor' = [id |-> repository.root["parent"], depth |-> 1]
     ELSE phase' = "select" /\ UNCHANGED <<side, cursor>>
  /\ UNCHANGED <<repository, pending, selected, counted, trees, blobs, identities, transport,
                 candidate, pauses>>
-----------------------------------------------------------------------------
(* The candidate and its snapshots.                                        *)

Changed(c, p) ==
  \/ repository.purpose = "LANGUAGE_CANDIDATE"
  \/ Reconstructs(blobs[p.id].text, blobs[c.id].text)

Eligible ==
  {c \in Range(selected["child"]) :
     \E p \in Range(selected["parent"]) :
       /\ p.path = c.path
       /\ Passes(c.path, blobs[c.id]) /\ Passes(p.path, blobs[p.id])
       /\ Changed(c, p)}

\* recognizedRule: the rules whose marker is a line of the message, or whose bot is the author.
Recognized ==
  {rule \in Rules :
     \/ rule.kind = "marker" /\ rule.mark \in repository.commit.lines
     \/ rule.kind = "verified-bot" /\ rule.mark = repository.commit.bot}

\* validateRule: the rule is documented, and names a model exactly if its classification does.
RuleValid(rule) ==
  rule.documented /\ rule.named = (rule.classification = "NAMED_MODEL_RECORDED")

\* classifyEvidence: of a bot it is only known that an agent took part.
Classified(rule) == rule.kind = "verified-bot" => rule.classification = "AGENT_RECORDED"

Attributed ==
  \/ repository.purpose = "LANGUAGE_CANDIDATE"
  \/ /\ Cardinality(Recognized) = 1
     /\ \A rule \in Recognized : RuleValid(rule) /\ Classified(rule)

\* The code takes the first in the order of paths, which the model leaves open.
SelectCandidate ==
  /\ phase = "select"
  /\ IF Eligible = {} \/ ~Attributed THEN Reject
     ELSE \E c \in Eligible :
            \E p \in {q \in Range(selected["parent"]) : q.path = c.path} :
              /\ candidate' =
                   [path |-> c.path, child |-> c.id, parent |-> p.id,
                    rules |-> IF repository.purpose = "LANGUAGE_CANDIDATE" THEN {}
                              ELSE {rule.id : rule \in Recognized}]
              /\ phase' = "licence"
              /\ UNCHANGED <<repository, side, cursor, pending, selected, counted, trees, blobs,
                             identities, transport, pauses>>

\* screenLicenseEvidence: an identifier that is allowed, and the bytes of the file.
LicenceAdmitted == repository.licensed /\ BlobVerified(LicenceId)

PersistSnapshots ==
  /\ phase = "licence" /\ HasWanted
  /\ IF Cardinality(Licences) = 1 /\ LicenceAdmitted
     THEN /\ identities' = identities \cup
               {Object("blob", id) : id \in {candidate.child, candidate.parent, LicenceId}}
          /\ phase' = "done"
          /\ UNCHANGED <<repository, side, cursor, pending, selected, counted, trees, blobs,
                         transport, candidate, pauses>>
     ELSE Reject

\* A store or an audit trail that throws while an object is kept.
PersistThrows == phase \in {"resolve", "walk", "licence"} /\ HasWanted /\ Reject

\* loadedObjects: the resumed run has what was kept, and nothing else.
Resume ==
  LET kept(kind) == {object.id : object \in {o \in identities : o.kind = kind}}
  IN /\ phase = "paused"
     /\ phase' = "resolve" /\ side' = "child"
     /\ cursor' = [id |-> repository.root["child"], depth |-> 1]
     /\ pending' = << >>
     /\ selected' = [s \in Sides |-> << >>]
     /\ counted' = [entries |-> 0, blobs |-> 0]
     /\ trees' = [id \in kept("tree") |-> trees[id]]
     /\ blobs' = [id \in kept("blob") |-> blobs[id]]
     /\ transport' = [requests |-> 0, bytes |-> 0]
     /\ candidate' = NoCandidate
     /\ UNCHANGED <<repository, identities, pauses>>

WalkOver == phase \in {"done", "rejected"} /\ UNCHANGED walkVars

Init ==
  /\ repository \in Repositories
  /\ phase = "resolve" /\ side = "child"
  /\ cursor = [id |-> repository.root["child"], depth |-> 1]
  /\ pending = << >>
  /\ selected = [s \in Sides |-> << >>]
  /\ counted = [entries |-> 0, blobs |-> 0]
  /\ trees = << >> /\ blobs = << >>
  /\ identities = {}
  /\ transport = [requests |-> 0, bytes |-> 0]
  /\ candidate = NoCandidate
  /\ pauses = 0

Next ==
  \/ Request \/ RequestRefused
  \/ ResolveApprovedSubtree \/ VisitTree \/ VisitBlob \/ WalkEnds
  \/ SelectCandidate \/ PersistSnapshots \/ PersistThrows
  \/ Resume \/ WalkOver

Spec == Init /\ [][Next]_walkVars
-----------------------------------------------------------------------------
(* Properties.                                                             *)

\* The files that an entry of a tree stands for, and a tree of the repository holds, with
\* their paths below it.
OfEntry(entry, files) ==
  CASE entry.type = "blob" -> {[path |-> <<entry.name>>, id |-> entry.id]}
    [] entry.type = "tree" ->
         {[path |-> <<entry.name>> \o file.path, id |-> file.id] : file \in files[entry.id]}
    [] OTHER -> {}
Files ==
  LET files[id \in DOMAIN repository.trees] ==
        UNION {OfEntry(entry, files) : entry \in Range(repository.trees[id])}
  IN files

\* The approved subtree of a revision: down from its root, by the names of its path.
Leads(from, name, to) ==
  \E entry \in Range(repository.trees[from]) :
    entry.type = "tree" /\ entry.name = name /\ entry.id = to
Reaches(revision, n, id) ==
  \E via \in [0..n -> DOMAIN repository.trees] :
    /\ via[0] = repository.root[revision] /\ via[n] = id
    /\ \A m \in 1..n : Leads(via[m - 1], Subtree[m], via[m])
Approved(revision) ==
  CHOOSE id \in DOMAIN repository.trees : Reaches(revision, Len(Subtree), id)
Below(path, id) == {[path |-> path \o file.path, id |-> file.id] : file \in Files[id]}
Outstanding ==
  UNION {IF object.kind = "tree" THEN Below(object.path, object.id)
         ELSE {[path |-> object.path, id |-> object.id]} : object \in Range(pending)}

\* Over answers that may be cut or false, and over pauses, whatever is kept is the whole object
\* of its identity, and a resumed run has it again (walkRevision, loadedObjects); and a
\* draft is done with both files of its candidate and one licence kept.
KeptIsVerified ==
  /\ \A object \in identities :
       IF object.kind = "tree"
       THEN object.id \in DOMAIN trees /\ trees[object.id].entries = repository.trees[object.id]
       ELSE object.id \in DOMAIN blobs /\ blobs[object.id] = repository.blobs[object.id]
  /\ phase = "done" =>
       /\ {Object("blob", id) : id \in {candidate.child, candidate.parent}} \subseteq identities
       /\ \E object \in identities : object.kind = "blob" /\ object.id = LicenceId

\* walkRevision and executeOrchestration: at every moment of a walk the files that were visited
\* and those that are outstanding are those of the approved subtree, each once; and a candidate
\* that was selected is a file of both revisions, changed where the purpose asks for it, by as
\* few lines as can be and under one rule of attribution.
RevisionIsWhole ==
  /\ phase = "walk" =>
       /\ Range(selected[side]) \cup Outstanding = Below(Subtree, Approved(side))
       /\ Range(selected[side]) \cap Outstanding = {}
       /\ IsInjective(selected[side]) /\ IsInjective(pending)
  /\ phase = "done" =>
       /\ \A s \in Sides : Range(selected[s]) = Below(Subtree, Approved(s))
       /\ \E c \in Below(Subtree, Approved("child")), p \in Below(Subtree, Approved("parent")) :
            /\ candidate.path = c.path /\ candidate.child = c.id /\ candidate.parent = p.id
            /\ c.path = p.path
            /\ \/ repository.purpose = "LANGUAGE_CANDIDATE" /\ candidate.rules = {}
               \/ c.id # p.id /\ Cardinality(candidate.rules) = 1
            /\ ChangesLeast(repository.blobs[p.id].text, repository.blobs[c.id].text)
============================================================================
