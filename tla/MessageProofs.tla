---------------------------- MODULE MessageProofs ----------------------------
(* Proofs about what comes in with a message and what goes out as a reply:    *)
(* the files of Attachments and the parts of Replies. What the two fold over  *)
(* sequences (the joining of files, the cutting of a text) is computed step   *)
(* by step with the theorems of FoldTheorems.                                 *)
EXTENDS Attachments, Replies, FoldTheorems, SequenceTheorems, FiniteSetTheorems

(*-------------------------------- Attachments ------------------------------*)

(* A field that find_string finds is the object's own or one inside it.       *)
LEMMA FoundIs ==
    ASSUME NEW object \in Object, NEW f \in {"name", "type", "url", "path"}
    PROVE  \E file \in File : Found(object, f) = file[f]
<1> DEFINE holders == {i \in DOMAIN object.inner : object.inner[i].own[f] # Absent}
<1>1. object.own \in File /\ object.inner \in Seq(Leaf)
  BY DEF Object
<1>2. CASE object.own[f] # Absent \/ holders = {}
  BY <1>1, <1>2 DEF Found
<1>3. CASE ~(object.own[f] # Absent \/ holders = {})
  <2>1. Found(object, f) = object.inner[Min(holders)].own[f]
    BY <1>3 DEF Found
  <2>2. PICK n \in Nat : DOMAIN object.inner = 1..n
    BY <1>1
  <2>3. holders \in SUBSET (1..n) /\ holders # {}
    BY <1>3, <2>2
  <2>4. Min(holders) \in 1..n
    <3> HIDE DEF holders
    <3> QED BY <2>2, <2>3, MinIsMember
  <2>5. object.inner[Min(holders)] \in Leaf
    <3> HIDE DEF holders
    <3> QED BY <1>1, <2>2, <2>4
  <2>6. object.inner[Min(holders)].own \in File
    BY <2>5 DEF Leaf
  <2> QED BY <2>1, <2>6
<1> QED BY <1>2, <1>3

LEMMA FromObjectIs ==
    ASSUME NEW object \in Object
    PROVE  FromObject(object) \in File
<1> DEFINE name == Found(object, "name")
           type == Found(object, "type")
           url == Found(object, "url")
           path == Found(object, "path")
<1>1. object.own \in File
  BY DEF Object
<1>2. /\ name \in Names \cup {Absent} /\ type \in Types \cup {Absent}
      /\ url \in Urls \cup {Absent} /\ path \in Paths \cup {Absent}
  <2>1. \A file \in File : /\ file["name"] \in Names \cup {Absent}
                           /\ file["type"] \in Types \cup {Absent}
                           /\ file["url"] \in Urls \cup {Absent}
                           /\ file["path"] \in Paths \cup {Absent}
    BY DEF File
  <2> QED BY <2>1, FoundIs
<1>3. FromObject(object) = [object.own EXCEPT !.name = name, !.type = type,
                                              !.url = url, !.path = path]
  BY DEF FromObject
<1> HIDE DEF name, type, url, path
<1> QED BY <1>1, <1>2, <1>3 DEF File

LEMMA ListedIs ==
    ASSUME NEW object, object.own \in File, NEW file \in File
    PROVE  Listed(object, file) \in Seq(File)
<1> DEFINE url == object.own.url
           first == IF object.marked /\ Tells(file) THEN <<file>> ELSE <<>>
           second == IF ~object.tag /\ url \in Urls \cap EndsLikeMedia
                     THEN <<ByUrl(url)>> ELSE <<>>
<1>1. first \in Seq(File)
  OBVIOUS
<1>2. url \in Urls => ByUrl(url) \in File
  BY DEF ByUrl, File, Types
<1>3. second \in Seq(File)
  BY <1>2
<1>4. Listed(object, file) = first \o second
  BY DEF Listed
<1> HIDE DEF first, second
<1> QED BY <1>1, <1>3, <1>4

LEMMA CollectedIs ==
    ASSUME NEW object \in Object
    PROVE  Collected(object) \in Seq(File)
<1> DEFINE listOf(leaf) == Listed(leaf, leaf.own)
           lists == [i \in DOMAIN object.inner |-> listOf(object.inner[i])]
           outer == Listed(object, FromObject(object))
<1>1. object.own \in File /\ object.inner \in Seq(Leaf)
  BY DEF Object
<1>2. outer \in Seq(File)
  BY <1>1, FromObjectIs, ListedIs
<1>3. ASSUME NEW leaf \in Leaf PROVE listOf(leaf) \in Seq(File)
  <2>1. leaf.own \in File
    BY DEF Leaf
  <2> QED BY <2>1, ListedIs
<1> HIDE DEF listOf
<1>4. lists \in Seq(Seq(File))
  <2>1. PICK n \in Nat : DOMAIN object.inner = 1..n
    BY <1>1
  <2>2. \A i \in 1..n : object.inner[i] \in Leaf
    BY <1>1, <2>1
  <2>3. lists \in [1..n -> Seq(File)]
    BY <1>3, <2>1, <2>2
  <2> HIDE DEF lists
  <2> QED BY <2>3, SeqDef
<1>5. FlattenSeq(lists) \in Seq(File)
  <2> HIDE DEF lists
  <2> QED BY <1>4, FlattenType
<1>6. Collected(object) = outer \o FlattenSeq(lists)
  BY Zenon DEF Collected, listOf
<1> HIDE DEF outer, lists
<1> QED BY <1>2, <1>5, <1>6

LEMMA AllOfIs ==
    ASSUME NEW payload \in Seq(Object)
    PROVE  AllOf(payload) \in Seq(File)
<1> DEFINE lists == [i \in DOMAIN payload |-> Collected(payload[i])]
<1>1. lists \in Seq(Seq(File))
  <2>1. PICK n \in Nat : DOMAIN payload = 1..n
    OBVIOUS
  <2>2. \A i \in 1..n : Collected(payload[i]) \in Seq(File)
    BY <2>1, CollectedIs
  <2>3. lists \in [1..n -> Seq(File)]
    BY <2>1, <2>2
  <2> HIDE DEF lists
  <2> QED BY <2>3, SeqDef
<1>2. AllOf(payload) = FlattenSeq(lists)
  BY DEF AllOf
<1> HIDE DEF lists
<1> QED BY <1>1, <1>2, FlattenType

LEMMA MergedIs ==
    ASSUME NEW a \in File, NEW b \in File
    PROVE  Merged(a, b) \in File
<1> DEFINE name == OrElse(a.name, b.name)
           type == OrElse(a.type, b.type)
           url == OrElse(a.url, b.url)
           hash == OrElse(a.hash, b.hash)
           path == OrElse(a.path, b.path)
<1>1. /\ a.kind \in {"image", "file"}
      /\ name \in Names \cup {Absent} /\ type \in Types \cup {Absent}
      /\ url \in Urls \cup {Absent} /\ hash \in Hashes \cup {Absent}
      /\ path \in Paths \cup {Absent}
  BY DEF File, OrElse
<1>2. Merged(a, b) = [kind |-> a.kind, name |-> name, type |-> type, url |-> url,
                      hash |-> hash, path |-> path]
  BY DEF Merged
<1> HIDE DEF name, type, url, hash, path
<1> QED BY <1>1, <1>2 DEF File

(* A file that joins a list is put at its end, or merged into one of them.    *)
LEMMA JoinedIs ==
    ASSUME NEW files \in Seq(File), NEW file \in File
    PROVE  /\ Joined(files, file) \in Seq(File)
           /\ \/ Joined(files, file) = Append(files, file)
              \/ \E k \in DOMAIN files :
                    /\ Overlap(files[k], file)
                    /\ Joined(files, file) = [files EXCEPT ![k] = Merged(files[k], file)]
<1> DEFINE twins == {i \in DOMAIN files : Overlap(files[i], file)}
           n == Len(files)
<1>1. n \in Nat /\ DOMAIN files = 1..n /\ \A i \in 1..n : files[i] \in File
  OBVIOUS
<1>2. CASE twins = {}
  BY <1>2 DEF Joined
<1>3. CASE twins # {}
  <2> DEFINE k == Min(twins)
             merged == Merged(files[k], file)
  <2>1. k \in twins
    <3>1. twins \in SUBSET (1..n) /\ twins # {}
      BY <1>1, <1>3
    <3> HIDE DEF twins, n
    <3> QED BY <1>1, <3>1, MinIsMember
  <2>2. Joined(files, file) = [files EXCEPT ![k] = merged]
    BY <1>3 DEF Joined
  <2>3. k \in DOMAIN files /\ Overlap(files[k], file)
    BY <2>1
  <2> HIDE DEF k, twins
  <2>4. merged \in File
    BY <1>1, <2>3, MergedIs
  <2> HIDE DEF merged
  <2>5. [files EXCEPT ![k] = merged] \in Seq(File)
    BY <2>3, <2>4
  <2> QED BY <2>2, <2>3, <2>5 DEF merged
<1> QED BY <1>2, <1>3

LEMMA JoiningSteps ==
    ASSUME NEW told \in Seq(File)
    PROVE  \E g :
              /\ g[0] = <<>>
              /\ g[Len(told)] = FoldLeft(Joined, <<>>, told)
              /\ \A k \in 1..Len(told) : g[k] = Joined(g[k-1], told[k])
<1> DEFINE n == Len(told)
           V == Seq(File)
           F == [vi \in V \X (1..n) |-> Joined(vi[1], told[vi[2]])]
           Solves(it) == it = [x \in SUBSET DOMAIN told |->
               IF x = {} THEN <<>> ELSE Joined(it[x \ {Max(x)}], told[Max(x)])]
           lists == CHOOSE it : Solves(it)
           g == [k \in 0..n |-> lists[1..k]]
<1>1. n \in Nat /\ DOMAIN told = 1..n /\ \A i \in 1..n : told[i] \in File
  OBVIOUS
<1>2. <<>> \in V
  OBVIOUS
<1>3. F \in [V \X (1..n) -> V]
  <2> SUFFICES ASSUME NEW vi \in V \X (1..n) PROVE Joined(vi[1], told[vi[2]]) \in V
    OBVIOUS
  <2>1. vi[1] \in Seq(File) /\ told[vi[2]] \in File
    BY <1>1
  <2> QED BY <2>1, JoinedIs
<1> HIDE DEF n, F, V
<1>4. PICK it \in [SUBSET (1..n) -> V] : Iterates(it, n, <<>>, F)
  BY <1>1, <1>2, <1>3, FoldExists
<1>5. Solves(it)
  <2> SUFFICES ASSUME NEW x \in SUBSET (1..n)
               PROVE  it[x] = IF x = {} THEN <<>>
                              ELSE Joined(it[x \ {Max(x)}], told[Max(x)])
    BY <1>1
  <2>1. CASE x = {}
    BY <1>4, <2>1 DEF Iterates
  <2>2. CASE x # {}
    <3>1. Max(x) \in 1..n
      BY <1>1, <2>2, MaxIsMember
    <3>2. <<it[x \ {Max(x)}], Max(x)>> \in V \X (1..n)
      BY <3>1
    <3>3. it[x] = F[<<it[x \ {Max(x)}], Max(x)>>]
      BY <1>4, <2>2 DEF Iterates
    <3> QED BY <2>2, <3>2, <3>3 DEF F
  <2> QED BY <2>1, <2>2
<1>6. Solves(lists)
  <2> HIDE DEF Solves
  <2> QED BY <1>5
<1> HIDE DEF lists
<1>7. lists[{}] = <<>>
  BY <1>1, <1>6
<1>8. ASSUME NEW k \in 1..n PROVE lists[1..k] = Joined(lists[1..(k-1)], told[k])
  <2>1. 1..k \in SUBSET (1..n) /\ k \in Nat \ {0}
    BY <1>1
  <2>2. 1..k # {} /\ Max(1..k) = k /\ (1..k) \ {k} = 1..(k-1)
    BY <2>1, FirstPlaces
  <2> QED BY <1>1, <1>6, <2>1, <2>2
<1>9. g[0] = <<>> /\ \A k \in 1..n : g[k] = Joined(g[k-1], told[k])
  <2>1. 1..0 = {}
    OBVIOUS
  <2> QED BY <1>1, <1>7, <1>8, <2>1
<1>10. g[n] = FoldLeft(Joined, <<>>, told)
  BY <1>1 DEF FoldLeft, MapThenFoldSet, lists
<1> HIDE DEF g
<1> QED BY <1>9, <1>10 DEF n

(* An entry speaks for one owner: what it says was told of that owner's file. *)
Speaks(entry, told, owner, o) ==
    /\ entry.url # Absent =>
           \E i \in DOMAIN told : owner[i] = o /\ told[i].url = entry.url
    /\ entry.hash # Absent =>
           \E i \in DOMAIN told : owner[i] = o /\ told[i].hash = entry.hash
    /\ entry.path # Absent =>
           \E i \in DOMAIN told : owner[i] = o /\ told[i].path = entry.path

(* It agrees with each told file that it overlaps with.                       *)
LEMMA SpeakerAgrees ==
    ASSUME NEW told \in Seq(File), NEW owner, Apart(told, owner),
           NEW entry \in File, NEW o, Speaks(entry, told, owner, o),
           NEW j \in DOMAIN told, Overlap(entry, told[j])
    PROVE  Agree(entry, told[j]) /\ (entry = told[j] \/ owner[j] = o)
<1>1. \A i \in DOMAIN told : told[i] \in File
  OBVIOUS
<1>2. \A i \in DOMAIN told : Overlap(told[i], told[j]) => owner[i] = owner[j]
  BY DEF Apart
<1>3. CASE entry = told[j]
  BY <1>3 DEF Agree
<1>4. CASE entry # told[j]
  <2>1. owner[j] = o
    <3>1. CASE Same(entry.url, told[j].url)
      BY <1>2, <3>1 DEF Speaks, Overlap, Same
    <3>2. CASE Same(entry.hash, told[j].hash)
      BY <1>2, <3>2 DEF Speaks, Overlap, Same
    <3>3. CASE Same(entry.path, told[j].path)
      BY <1>2, <3>3 DEF Speaks, Overlap, Same
    <3> QED BY <1>4, <3>1, <3>2, <3>3 DEF Overlap
  <2>2. \A i \in DOMAIN told : owner[i] = o => Agree(told[i], told[j])
    BY <2>1 DEF Apart
  <2>3. \A i \in DOMAIN told : told[i].path # "copy"
    BY <1>1 DEF File, Paths, Absent
  <2>4. entry.url # Absent => entry.url = told[j].url \/ told[j].url = Absent
    BY <2>2 DEF Speaks, Agree
  <2>5. entry.hash # Absent => entry.hash = told[j].hash \/ told[j].hash = Absent
    BY <2>2 DEF Speaks, Agree
  <2>6. entry.path # Absent => entry.path = told[j].path \/ told[j].path = Absent
    BY <2>2, <2>3 DEF Speaks, Agree
  <2> QED BY <2>1, <2>4, <2>5, <2>6 DEF Agree
<1> QED BY <1>3, <1>4

(* Merged with such a file, an entry keeps what both said and its owner.      *)
LEMMA MergedSpeaks ==
    ASSUME NEW told \in Seq(File), NEW owner, Apart(told, owner),
           NEW entry \in File, NEW o, Speaks(entry, told, owner, o),
           NEW j \in DOMAIN told, Overlap(entry, told[j])
    PROVE  /\ Speaks(Merged(entry, told[j]), told, owner, o)
           /\ Keeps(Merged(entry, told[j]), told[j])
           /\ \A file : Keeps(entry, file) => Keeps(Merged(entry, told[j]), file)
<1> DEFINE m == Merged(entry, told[j])
<1>1. /\ m.url = IF entry.url = Absent THEN told[j].url ELSE entry.url
      /\ m.hash = IF entry.hash = Absent THEN told[j].hash ELSE entry.hash
      /\ m.path = IF entry.path = Absent THEN told[j].path ELSE entry.path
  BY DEF Merged, OrElse
<1> HIDE DEF m
<1>2. Agree(entry, told[j]) /\ (entry = told[j] \/ owner[j] = o)
  BY SpeakerAgrees
<1>3. Speaks(m, told, owner, o)
  BY <1>1, <1>2 DEF Speaks
<1>4. Keeps(m, told[j])
  <2>1. entry.path # "copy" /\ told[j].path # "copy"
    <3>1. told[j] \in File
      OBVIOUS
    <3> QED BY <3>1 DEF File, Paths, Absent
  <2> QED BY <1>1, <1>2, <2>1 DEF Keeps, Agree
<1>5. ASSUME NEW file, Keeps(entry, file) PROVE Keeps(m, file)
  <2>1. "copy" # Absent
    BY DEF Absent
  <2> QED BY <1>1, <1>5, <2>1 DEF Keeps
<1> QED BY <1>3, <1>4, <1>5 DEF m

(* The list after the first k told files: each is kept, and each entry speaks *)
(* for one owner.                                                             *)
Faithful(files, told, owner, k) ==
    /\ \A j \in 1..k : \E i \in DOMAIN files : Keeps(files[i], told[j])
    /\ \A i \in DOMAIN files : \E o : Speaks(files[i], told, owner, o)

LEMMA JoinedFaithful ==
    ASSUME NEW told \in Seq(File), NEW owner, Apart(told, owner),
           NEW k \in 1..Len(told), NEW files \in Seq(File),
           Faithful(files, told, owner, k - 1)
    PROVE  Faithful(Joined(files, told[k]), told, owner, k)
<1> DEFINE n == Len(files)
           file == told[k]
           joined == Joined(files, file)
<1>1. /\ n \in Nat /\ DOMAIN files = 1..n /\ \A i \in 1..n : files[i] \in File
      /\ file \in File /\ k \in DOMAIN told
  OBVIOUS
<1>2. \A j \in 1..k : j = k \/ j \in 1..(k-1)
  OBVIOUS
<1>3. CASE joined = Append(files, file)
  <2>1. /\ DOMAIN joined = 1..(n+1) /\ joined[n+1] = file
        /\ \A i \in 1..n : joined[i] = files[i]
    BY <1>1, <1>3
  <2> HIDE DEF joined, n
  <2>2. Keeps(file, file) /\ Speaks(file, told, owner, owner[k])
    BY <1>1 DEF Keeps, Speaks
  <2>3. \A i \in 1..(n+1) : i = n + 1 \/ i \in 1..n
    BY <1>1
  <2>4. n + 1 \in DOMAIN joined /\ \A i \in DOMAIN files : i \in DOMAIN joined
    BY <1>1, <2>1
  <2>5. ASSUME NEW j \in 1..k PROVE \E i \in DOMAIN joined : Keeps(joined[i], told[j])
    <3>1. CASE j = k
      BY <2>1, <2>2, <2>4, <3>1
    <3>2. CASE j # k
      <4>1. PICK i \in DOMAIN files : Keeps(files[i], told[j])
        BY <1>2, <3>2 DEF Faithful
      <4> QED BY <1>1, <2>1, <2>4, <4>1
    <3> QED BY <3>1, <3>2
  <2>6. ASSUME NEW i \in DOMAIN joined PROVE \E o : Speaks(joined[i], told, owner, o)
    <3>1. CASE i = n + 1
      BY <2>1, <2>2, <3>1
    <3>2. CASE i # n + 1
      <4>1. i \in DOMAIN files /\ joined[i] = files[i]
        BY <1>1, <2>1, <2>3, <3>2
      <4> QED BY <4>1 DEF Faithful
    <3> QED BY <3>1, <3>2
  <2> QED BY <2>5, <2>6 DEF Faithful, joined
<1>4. ASSUME NEW at \in DOMAIN files, Overlap(files[at], file),
             joined = [files EXCEPT ![at] = Merged(files[at], file)]
      PROVE  Faithful(joined, told, owner, k)
  <2> DEFINE merged == Merged(files[at], file)
  <2>1. /\ DOMAIN joined = DOMAIN files /\ joined[at] = merged
        /\ \A i \in DOMAIN files : i # at => joined[i] = files[i]
    BY <1>1, <1>4
  <2>2. PICK o : Speaks(files[at], told, owner, o)
    BY DEF Faithful
  <2>3. /\ Speaks(merged, told, owner, o) /\ Keeps(merged, file)
        /\ \A c : Keeps(files[at], c) => Keeps(merged, c)
    BY <1>1, <1>4, <2>2, MergedSpeaks
  <2> HIDE DEF joined, merged
  <2>4. ASSUME NEW j \in 1..k PROVE \E i \in DOMAIN joined : Keeps(joined[i], told[j])
    <3>1. CASE j = k
      BY <2>1, <2>3, <3>1
    <3>2. CASE j # k
      <4>1. PICK i \in DOMAIN files : Keeps(files[i], told[j])
        BY <1>2, <3>2 DEF Faithful
      <4>2. Keeps(joined[i], told[j])
        BY <2>1, <2>3, <4>1
      <4> QED BY <2>1, <4>2
    <3> QED BY <3>1, <3>2
  <2>5. ASSUME NEW i \in DOMAIN joined PROVE \E p : Speaks(joined[i], told, owner, p)
    BY <2>1, <2>3 DEF Faithful
  <2> QED BY <2>4, <2>5 DEF Faithful
<1>5. \/ joined = Append(files, file)
      \/ \E at \in DOMAIN files :
            /\ Overlap(files[at], file)
            /\ joined = [files EXCEPT ![at] = Merged(files[at], file)]
  BY <1>1, JoinedIs
<1> QED BY <1>3, <1>4, <1>5

\* dedupe_attachments, of any message: the record's files are attachments; and
\* when the objects of the message each tell of one file, so that their entries
\* can be shared out among owners, some entry has the url, the hash and the path
\* that were told of a file, and none that shares one of them contradicts it.
THEOREM ExtractedKeeps ==
    ASSUME NEW payload \in Seq(Object)
    PROVE  /\ Extracted(payload) \in Seq(File)
           /\ \A owner : Apart(AllOf(payload), owner) =>
                \A file \in ToSet(AllOf(payload)) :
                    /\ \E i \in DOMAIN Extracted(payload) :
                           Keeps(Extracted(payload)[i], file)
                    /\ \A i \in DOMAIN Extracted(payload) :
                           Overlap(Extracted(payload)[i], file) =>
                               Agree(Extracted(payload)[i], file)
<1> DEFINE told == AllOf(payload)
           n == Len(told)
<1>1. told \in Seq(File)
  BY AllOfIs
<1> HIDE DEF told
<1>2. PICK g : /\ g[0] = <<>> /\ g[n] = FoldLeft(Joined, <<>>, told)
               /\ \A k \in 1..n : g[k] = Joined(g[k-1], told[k])
  BY <1>1, JoiningSteps
<1>3. n \in Nat /\ DOMAIN told = 1..n /\ \A k \in 1..n : told[k] \in File
  BY <1>1
<1>4. Extracted(payload) = g[n]
  BY <1>2 DEF Extracted, told
<1> DEFINE Lists == {k \in 0..n : g[k] \in Seq(File)}
<1>5. n \in Lists
  <2>1. 0 \in Lists
    <3>1. <<>> \in Seq(File) /\ 0 \in 0..n
      BY <1>3
    <3> QED BY <1>2, <3>1
  <2>2. ASSUME NEW k \in 0..(n-1), k \in Lists PROVE k + 1 \in Lists
    <3> HIDE DEF n
    <3>1. k + 1 \in 1..n /\ k + 1 \in 0..n /\ (k + 1) - 1 = k
      BY <1>3
    <3>2. g[k] \in Seq(File) /\ told[k+1] \in File /\ g[k+1] = Joined(g[k], told[k+1])
      BY <1>2, <1>3, <2>2, <3>1
    <3> QED BY <3>1, <3>2, JoinedIs
  <2> HIDE DEF Lists, n
  <2>3. 0..n \subseteq Lists
    BY <1>3, <2>1, <2>2, UpTo
  <2> QED BY <1>3, <2>3
<1>6. ASSUME NEW owner, Apart(told, owner)
      PROVE  Faithful(g[n], told, owner, n)
  <2> DEFINE S == {k \in 0..n : g[k] \in Seq(File) /\ Faithful(g[k], told, owner, k)}
  <2>1. 0 \in S
    <3>1. /\ <<>> \in Seq(File) /\ DOMAIN <<>> = {} /\ 1..0 = {} /\ 0 \in 0..n
      BY <1>3
    <3>2. Faithful(<<>>, told, owner, 0)
      BY <3>1 DEF Faithful
    <3> QED BY <1>2, <3>1, <3>2
  <2>2. ASSUME NEW k \in 0..(n-1), k \in S PROVE k + 1 \in S
    <3>1. k + 1 \in 1..n /\ k + 1 \in 0..n /\ (k + 1) - 1 = k
      BY <1>3
    <3>2. g[k] \in Seq(File) /\ told[k+1] \in File /\ g[k+1] = Joined(g[k], told[k+1])
      <4> HIDE DEF n
      <4> QED BY <1>2, <1>3, <2>2, <3>1
    <3>3. Faithful(g[k], told, owner, (k + 1) - 1)
      BY <2>2, <3>1
    <3>4. Faithful(Joined(g[k], told[k+1]), told, owner, k + 1)
      <4> DEFINE next == k + 1
      <4>1. next \in 1..Len(told) /\ Faithful(g[k], told, owner, next - 1)
        BY <3>1, <3>3
      <4> HIDE DEF next
      <4>2. Faithful(Joined(g[k], told[next]), told, owner, next)
        BY <1>1, <1>6, <3>2, <4>1, JoinedFaithful
      <4> QED BY <4>2 DEF next
    <3>5. Joined(g[k], told[k+1]) \in Seq(File)
      BY <3>2, JoinedIs
    <3> QED BY <3>1, <3>2, <3>4, <3>5
  <2> HIDE DEF S, n
  <2>3. 0..n \subseteq S
    BY <1>3, <2>1, <2>2, UpTo
  <2>4. n \in S
    BY <1>3, <2>3
  <2> QED BY <2>4 DEF S
<1>7. ASSUME NEW owner, Apart(told, owner), NEW file \in ToSet(told)
      PROVE  /\ \E i \in DOMAIN g[n] : Keeps(g[n][i], file)
             /\ \A i \in DOMAIN g[n] : Overlap(g[n][i], file) => Agree(g[n][i], file)
  <2>1. Faithful(g[n], told, owner, n) /\ g[n] \in Seq(File)
    BY <1>5, <1>6, <1>7
  <2>2. PICK j \in 1..n : file = told[j]
    BY <1>3, <1>7 DEF ToSet
  <2>3. \E i \in DOMAIN g[n] : Keeps(g[n][i], file)
    BY <2>1, <2>2 DEF Faithful
  <2> HIDE DEF n
  <2>4. ASSUME NEW i \in DOMAIN g[n], Overlap(g[n][i], file) PROVE Agree(g[n][i], file)
    <3>1. PICK o : Speaks(g[n][i], told, owner, o)
      BY <2>1 DEF Faithful
    <3>2. g[n][i] \in File /\ j \in DOMAIN told
      BY <1>3, <2>1
    <3> QED BY <1>1, <1>7, <2>2, <2>4, <3>1, <3>2, SpeakerAgrees
  <2> QED BY <2>3, <2>4
<1> HIDE DEF n
<1> QED BY <1>4, <1>5, <1>7 DEF told

-----------------------------------------------------------------------------
(* What holds of a list of records, in memory, in attachments.json or in      *)
(* another program's hands: the ids tell them apart, a copy that is noted is  *)
(* there, and each record keeps apart what its objects told of each file.     *)

ListedFile == [kind : {"image", "file"}, name : Names \cup {Absent},
               type : Types \cup {Absent}, url : Urls \cup {Absent},
               hash : Hashes \cup {Absent}, path : Paths \cup {Absent, "copy"}]
Record == [id : Nat, room : Room, files : Seq(ListedFile), payload : Payload]

Lists(files, file) ==
    /\ \E i \in DOMAIN files : Keeps(files[i], file)
    /\ \A i \in DOMAIN files : Overlap(files[i], file) => Agree(files[i], file)

ListsAll(r) ==
    r.payload \in FileByFile => \A file \in ToSet(AllOf(r.payload)) : Lists(r.files, file)

CopiesAre(r, there) ==
    \A i \in DOMAIN r.files : r.files[i].path = "copy" => <<r.id, i>> \in there

Sound(kept, top, there) ==
    /\ kept \in Seq(Record)
    /\ \A i, j \in DOMAIN kept : kept[i].id = kept[j].id => i = j
    /\ \A i \in DOMAIN kept :
          kept[i].id <= top /\ CopiesAre(kept[i], there) /\ ListsAll(kept[i])

LEMMA NoneSound ==
    ASSUME NEW top, NEW there PROVE Sound(<<>>, top, there)
BY DEF Sound

LEMMA SoundGrows ==
    ASSUME NEW kept, NEW top \in Nat, NEW there, Sound(kept, top, there),
           NEW top2 \in Nat, top <= top2, NEW there2, there \subseteq there2
    PROVE  Sound(kept, top2, there2)
<1>1. kept \in Seq(Record) /\ \A i \in DOMAIN kept : kept[i].id <= top
  BY DEF Sound
<1>2. ASSUME NEW i \in DOMAIN kept PROVE kept[i].id <= top2
  <2>1. kept[i] \in Record
    BY <1>1
  <2>2. kept[i].id \in Nat
    BY <2>1 DEF Record
  <2> QED BY <1>1, <2>2
<1>3. \A i \in DOMAIN kept : CopiesAre(kept[i], there) => CopiesAre(kept[i], there2)
  BY DEF CopiesAre
<1> QED BY <1>2, <1>3 DEF Sound

LEMMA NewRecordIs ==
    ASSUME NEW id \in Nat, NEW room \in Room, NEW payload \in Payload
    PROVE  /\ NewRecord(id, room, payload) \in Record
           /\ NewRecord(id, room, payload).id = id
           /\ \A there : CopiesAre(NewRecord(id, room, payload), there)
           /\ ListsAll(NewRecord(id, room, payload))
<1> DEFINE r == NewRecord(id, room, payload)
<1>1. /\ r.id = id /\ r.files = Extracted(payload) /\ r.payload = payload
      /\ r = [id |-> id, room |-> room, files |-> Extracted(payload), payload |-> payload]
  BY DEF NewRecord
<1>2. payload \in Seq(Object)
  BY MediaAssumption
<1>3. /\ Extracted(payload) \in Seq(File)
      /\ \A owner : Apart(AllOf(payload), owner) =>
             \A file \in ToSet(AllOf(payload)) : Lists(Extracted(payload), file)
  BY <1>2, ExtractedKeeps DEF Lists
<1>4. File \subseteq ListedFile
  BY DEF File, ListedFile
<1>5. Extracted(payload) \in Seq(ListedFile)
  BY <1>3, <1>4, SeqMonotonic
<1>6. \A i \in DOMAIN Extracted(payload) : Extracted(payload)[i].path # "copy"
  <2>1. \A i \in DOMAIN Extracted(payload) : Extracted(payload)[i] \in File
    BY <1>3
  <2> QED BY <2>1 DEF File, Paths, Absent
<1> HIDE DEF r
<1>7. r \in Record
  BY <1>1, <1>5 DEF Record
<1>8. \A there : CopiesAre(r, there)
  BY <1>1, <1>6 DEF CopiesAre
<1>9. ListsAll(r)
  <2>1. payload \in FileByFile => \E owner : Apart(AllOf(payload), owner)
    BY DEF FileByFile
  <2> QED BY <1>1, <1>3, <2>1 DEF ListsAll
<1> QED BY <1>1, <1>7, <1>8, <1>9 DEF r

LEMMA SoundAppend ==
    ASSUME NEW kept, NEW top \in Nat, NEW there, Sound(kept, top, there),
           NEW record \in Record, record.id = top + 1,
           CopiesAre(record, there), ListsAll(record)
    PROVE  Sound(Append(kept, record), top + 1, there)
<1> DEFINE more == Append(kept, record)
           n == Len(kept)
<1>1. /\ kept \in Seq(Record) /\ n \in Nat /\ DOMAIN kept = 1..n
      /\ \A i \in 1..n : kept[i] \in Record
  BY DEF Sound
<1>2. /\ more \in Seq(Record) /\ DOMAIN more = 1..(n+1) /\ more[n+1] = record
      /\ \A i \in 1..n : more[i] = kept[i]
  BY <1>1
<1> HIDE DEF more, n
<1>3. ASSUME NEW i \in 1..(n+1), i # n + 1
      PROVE  /\ i \in 1..n /\ more[i] = kept[i] /\ more[i].id \in Nat /\ more[i].id <= top
             /\ CopiesAre(more[i], there) /\ ListsAll(more[i])
  <2>1. i \in 1..n
    BY <1>1, <1>3
  <2>2. more[i] = kept[i] /\ kept[i] \in Record
    BY <1>1, <1>2, <2>1
  <2>3. kept[i].id \in Nat
    BY <2>2 DEF Record
  <2>4. kept[i].id <= top /\ CopiesAre(kept[i], there) /\ ListsAll(kept[i])
    BY <1>1, <2>1 DEF Sound
  <2> QED BY <2>1, <2>2, <2>3, <2>4
<1>4. ASSUME NEW i \in DOMAIN more
      PROVE  more[i].id <= top + 1 /\ CopiesAre(more[i], there) /\ ListsAll(more[i])
  <2>1. CASE i = n + 1
    BY <1>2, <2>1
  <2>2. CASE i # n + 1
    BY <1>2, <1>3, <2>2
  <2> QED BY <2>1, <2>2
<1>5. ASSUME NEW i \in DOMAIN more, NEW j \in DOMAIN more, more[i].id = more[j].id
      PROVE  i = j
  <2>1. i # n + 1 => more[i].id # top + 1
    <3> SUFFICES ASSUME i # n + 1 PROVE more[i].id # top + 1
      OBVIOUS
    <3>1. more[i].id \in Nat /\ more[i].id <= top
      BY <1>2, <1>3
    <3> QED BY <3>1
  <2>2. j # n + 1 => more[j].id # top + 1
    <3> SUFFICES ASSUME j # n + 1 PROVE more[j].id # top + 1
      OBVIOUS
    <3>1. more[j].id \in Nat /\ more[j].id <= top
      BY <1>2, <1>3
    <3> QED BY <3>1
  <2>3. CASE i # n + 1 /\ j # n + 1
    <3>1. /\ i \in DOMAIN kept /\ j \in DOMAIN kept
          /\ more[i] = kept[i] /\ more[j] = kept[j]
      BY <1>1, <1>2, <1>3, <2>3
    <3> QED BY <1>5, <3>1 DEF Sound
  <2>4. more[n+1].id = top + 1
    BY <1>2
  <2> QED BY <1>5, <2>1, <2>2, <2>3, <2>4
<1> QED BY <1>2, <1>4, <1>5 DEF Sound, more

(* A record whose file has been noted as copied.                              *)
NotedIn(r, nth) == [r EXCEPT !.files[nth].path = "copy"]

LEMMA NotedInIs ==
    ASSUME NEW r \in Record, NEW nth
    PROVE  /\ NotedIn(r, nth) \in Record
           /\ NotedIn(r, nth).id = r.id /\ NotedIn(r, nth).payload = r.payload
           /\ DOMAIN NotedIn(r, nth).files = DOMAIN r.files
           /\ Len(NotedIn(r, nth).files) = Len(r.files)
           /\ \A k \in DOMAIN r.files : k # nth => NotedIn(r, nth).files[k] = r.files[k]
           /\ nth \in DOMAIN r.files =>
                 NotedIn(r, nth).files[nth] = [r.files[nth] EXCEPT !.path = "copy"]
<1> DEFINE fs == r.files
           n == Len(fs)
           fs2 == [fs EXCEPT ![nth].path = "copy"]
           r2 == [r EXCEPT !.files = fs2]
<1>1. NotedIn(r, nth) = r2
  BY DEF NotedIn
<1>2. /\ fs \in Seq(ListedFile) /\ n \in Nat /\ DOMAIN fs = 1..n
      /\ \A k \in 1..n : fs[k] \in ListedFile
  BY DEF Record
<1>3. /\ fs2 \in [1..n -> ListedFile]
      /\ \A k \in 1..n : k # nth => fs2[k] = fs[k]
      /\ nth \in 1..n => fs2[nth] = [fs[nth] EXCEPT !.path = "copy"]
  <2> HIDE DEF fs, n
  <2>1. \A f \in ListedFile : [f EXCEPT !.path = "copy"] \in ListedFile
    BY DEF ListedFile
  <2>2. /\ DOMAIN fs2 = 1..n
        /\ \A k \in 1..n : fs2[k] = IF k = nth THEN [fs[k] EXCEPT !.path = "copy"] ELSE fs[k]
    BY <1>2
  <2>3. \A k \in 1..n : fs2[k] \in ListedFile
    BY <1>2, <2>1, <2>2
  <2>4. fs2 = [k \in DOMAIN fs2 |-> fs2[k]]
    OBVIOUS
  <2> QED BY <2>2, <2>3, <2>4
<1>4. fs2 \in Seq(ListedFile) /\ DOMAIN fs2 = 1..n /\ Len(fs2) = n
  <2> HIDE DEF fs2, n
  <2>1. fs2 \in Seq(ListedFile) /\ DOMAIN fs2 = 1..n
    BY <1>2, <1>3, SeqDef
  <2> QED BY <1>2, <2>1
<1> HIDE DEF fs2
<1>5. r2 \in Record /\ r2.id = r.id /\ r2.payload = r.payload /\ r2.files = fs2
  BY <1>4 DEF Record
<1> HIDE DEF r2
<1> QED BY <1>1, <1>2, <1>3, <1>4, <1>5

NotedAll(kept, id, nth) == [i \in DOMAIN kept |->
    IF kept[i].id = id THEN NotedIn(kept[i], nth) ELSE kept[i]]

(* Noted, a file still keeps what was told and agrees with what it did.       *)
LEMMA NotedFile ==
    ASSUME NEW listed \in ListedFile, NEW file \in File
    PROVE  LET noted == [listed EXCEPT !.path = "copy"]
           IN  /\ Keeps(listed, file) => Keeps(noted, file)
               /\ Overlap(noted, file) => Overlap(listed, file)
               /\ Agree(listed, file) => Agree(noted, file)
<1> DEFINE noted == [listed EXCEPT !.path = "copy"]
<1>1. /\ noted.url = listed.url /\ noted.hash = listed.hash /\ noted.path = "copy"
      /\ noted.kind = listed.kind /\ noted.name = listed.name /\ noted.type = listed.type
  BY DEF ListedFile
<1>2. file.path # "copy"
  BY DEF File, Paths, Absent
<1> HIDE DEF noted
<1>3. Keeps(listed, file) => Keeps(noted, file)
  BY <1>1 DEF Keeps
<1>4. Overlap(noted, file) => Overlap(listed, file)
  BY <1>1, <1>2 DEF Overlap, Same
<1>5. Agree(listed, file) => Agree(noted, file)
  BY <1>1 DEF Agree
<1> QED BY <1>3, <1>4, <1>5 DEF noted

(* The copy's ending is the name's: no file becomes supported by it.          *)
LEMMA NotedSupport ==
    ASSUME NEW listed \in ListedFile
    PROVE  Supported([listed EXCEPT !.path = "copy"]) => Supported(listed)
<1> DEFINE noted == [listed EXCEPT !.path = "copy"]
<1>1. /\ noted.url = listed.url /\ noted.path = "copy" /\ noted.kind = listed.kind
      /\ noted.name = listed.name /\ noted.type = listed.type
  BY DEF ListedFile
<1>2. "copy" \notin EndsLikeMedia
  BY DEF EndsLikeMedia
<1> HIDE DEF noted
<1> QED BY <1>1, <1>2 DEF Supported, noted

LEMMA SoundNoted ==
    ASSUME NEW kept, NEW top, NEW there, Sound(kept, top, there),
           NEW id, NEW nth, <<id, nth>> \in there
    PROVE  /\ Sound(NotedAll(kept, id, nth), top, there)
           /\ DOMAIN NotedAll(kept, id, nth) = DOMAIN kept
<1> DEFINE noted == NotedAll(kept, id, nth)
           n == Len(kept)
<1>1. /\ n \in Nat /\ DOMAIN kept = 1..n /\ \A i \in 1..n : kept[i] \in Record
  BY DEF Sound
<1>2. /\ DOMAIN noted = 1..n
      /\ \A i \in 1..n : noted[i] = IF kept[i].id = id THEN NotedIn(kept[i], nth) ELSE kept[i]
      /\ noted = [i \in 1..n |-> noted[i]]
  BY <1>1 DEF NotedAll
<1> HIDE DEF noted, n
<1>3. ASSUME NEW i \in 1..n
      PROVE  /\ noted[i] \in Record /\ noted[i].id = kept[i].id
             /\ noted[i].id <= top /\ CopiesAre(noted[i], there) /\ ListsAll(noted[i])
  <2>1. /\ kept[i] \in Record /\ kept[i].id <= top
        /\ CopiesAre(kept[i], there) /\ ListsAll(kept[i])
    BY <1>1 DEF Sound
  <2>2. CASE kept[i].id # id
    BY <1>2, <2>1, <2>2
  <2>3. CASE kept[i].id = id
    <3> DEFINE r == kept[i]
               r2 == noted[i]
    <3>1. r2 = NotedIn(r, nth) /\ r \in Record
      BY <1>2, <2>1, <2>3
    <3> HIDE DEF r, r2
    <3>2. /\ r2 \in Record /\ r2.id = r.id /\ r2.payload = r.payload
          /\ DOMAIN r2.files = DOMAIN r.files
          /\ \A k \in DOMAIN r.files : k # nth => r2.files[k] = r.files[k]
          /\ nth \in DOMAIN r.files => r2.files[nth] = [r.files[nth] EXCEPT !.path = "copy"]
      BY <3>1, NotedInIs
    <3>3. /\ r.id = id /\ r.id <= top /\ CopiesAre(r, there) /\ ListsAll(r)
      BY <2>1, <2>3 DEF r
    <3>5. CopiesAre(r2, there)
      BY <3>2, <3>3 DEF CopiesAre
    <3>6. ListsAll(r2)
      <4> SUFFICES ASSUME r.payload \in FileByFile, NEW file \in ToSet(AllOf(r.payload))
                   PROVE  Lists(r2.files, file)
        BY <3>2 DEF ListsAll
      <4>1. file \in File
        <5>1. r.payload \in Seq(Object)
          BY <3>1, MediaAssumption DEF Record
        <5>2. AllOf(r.payload) \in Seq(File)
          BY <5>1, AllOfIs
        <5> QED BY <5>2 DEF ToSet
      <4>2. Lists(r.files, file)
        BY <3>3 DEF ListsAll
      <4>3. ASSUME NEW k \in DOMAIN r.files
            PROVE  /\ Keeps(r.files[k], file) => Keeps(r2.files[k], file)
                   /\ Overlap(r2.files[k], file) /\ r2.files[k] # r.files[k] =>
                         Overlap(r.files[k], file)
                   /\ Agree(r.files[k], file) => Agree(r2.files[k], file)
        <5>1. r.files[k] \in ListedFile
          BY <3>1 DEF Record
        <5>2. CASE k = nth
          <6>1. r2.files[k] = [r.files[k] EXCEPT !.path = "copy"]
            BY <3>2, <5>2
          <6> QED BY <4>1, <5>1, <6>1, NotedFile
        <5>3. CASE k # nth
          BY <3>2, <5>3
        <5> QED BY <5>2, <5>3
      <4> QED BY <3>2, <4>2, <4>3 DEF Lists
    <3> QED BY <3>2, <3>3, <3>5, <3>6 DEF r, r2
  <2> QED BY <2>2, <2>3
<1>4. noted \in Seq(Record)
  <2>1. noted \in [1..n -> Record]
    BY <1>2, <1>3
  <2> QED BY <1>1, <2>1, SeqDef
<1>5. ASSUME NEW i \in 1..n, NEW j \in 1..n, noted[i].id = noted[j].id PROVE i = j
  <2>1. kept[i].id = kept[j].id
    BY <1>3, <1>5
  <2> QED BY <1>1, <2>1 DEF Sound
<1> QED BY <1>1, <1>2, <1>3, <1>4, <1>5 DEF Sound, noted

(* The record that has an id is found by it.                                  *)
Among(kept, id) == CHOOSE r \in ToSet(kept) : r.id = id

LEMMA AmongIs ==
    ASSUME NEW kept, NEW top, NEW there, Sound(kept, top, there), NEW j \in DOMAIN kept
    PROVE  Among(kept, kept[j].id) = kept[j]
<1>1. \A r \in ToSet(kept) : \E i \in DOMAIN kept : r = kept[i]
  BY DEF ToSet
<1>2. kept[j] \in ToSet(kept)
  BY DEF ToSet
<1>3. \A r \in ToSet(kept) : r.id = kept[j].id => r = kept[j]
  BY <1>1 DEF Sound
<1> QED BY <1>2, <1>3 DEF Among

-----------------------------------------------------------------------------
(* What the listener has said of the files it has looked at.                  *)

Busy == {"ingest", "copy", "record", "answer"}
Outcomes == {"copied", "failed", "no hash", "unread"}
Handlings == [at : Busy \cup {"idle", "down"}, id : Nat, file : Nat,
              lines : SUBSET (Nat \X Outcomes), caption : Captions,
              job : {"ingest", "download"}]

Accounted(file, id, i, lines, there) == Supported(file) =>
    \E outcome \in Outcomes :
        <<i, outcome>> \in lines /\ (outcome = "copied" => <<id, i>> \in there)

LookedAt(h, i) == h.at = "answer" \/ i < h.file \/ (i = h.file /\ h.at = "record")

Handles(h, r, there) ==
    /\ r.id = h.id /\ h.file \in DOMAIN r.files
    /\ h.at = "record" => <<h.id, h.file>> \in there
    /\ h.job = "ingest" => \A i \in DOMAIN r.files :
           LookedAt(h, i) => Accounted(r.files[i], h.id, i, h.lines, there)
    /\ h.job = "download" => h.at # "ingest"

Stands(h, kept, there) == h.at \in Busy => \E j \in DOMAIN kept : Handles(h, kept[j], there)

ReportsStand(told, there) == \A r \in told : r.to # "nobody" =>
    \A i \in DOMAIN r.files : Accounted(r.files[i], r.id, i, r.lines, there)

(* The copies that are there, whole or cut short.                             *)
Brought == copies \cup spoilt

MediaInv ==
    /\ made \in Nat /\ handling \in Handlings
    /\ Sound(records, made, Brought) /\ Sound(onFile, made, Brought)
    /\ reading.on => Sound(reading.was, made, Brought)
    /\ Stands(handling, records, Brought)
    /\ ReportsStand(reports, Brought)

LEMMA Grow ==
    ASSUME NEW there, NEW there2, there \subseteq there2
    PROVE  /\ \A file, id, i, lines :
                 Accounted(file, id, i, lines, there) => Accounted(file, id, i, lines, there2)
           /\ \A h, r : Handles(h, r, there) => Handles(h, r, there2)
           /\ \A h, kept : Stands(h, kept, there) => Stands(h, kept, there2)
           /\ \A told : ReportsStand(told, there) => ReportsStand(told, there2)
<1>1. \A file, id, i, lines :
          Accounted(file, id, i, lines, there) => Accounted(file, id, i, lines, there2)
  BY DEF Accounted
<1>2. \A h, r : Handles(h, r, there) => Handles(h, r, there2)
  BY <1>1 DEF Handles
<1>3. \A h, kept : Stands(h, kept, there) => Stands(h, kept, there2)
  BY <1>2 DEF Stands
<1>4. \A told : ReportsStand(told, there) => ReportsStand(told, there2)
  BY <1>1 DEF ReportsStand
<1> QED BY <1>1, <1>2, <1>3, <1>4

Resting == Idle \in Handlings /\ [Idle EXCEPT !.at = "down"] \in Handlings

LEMMA Rests == Resting
BY DEF Resting, Idle, Handlings, Captions, Busy

LEMMA RestingStands ==
    ASSUME NEW kept, NEW there
    PROVE  Stands(Idle, kept, there) /\ Stands([Idle EXCEPT !.at = "down"], kept, there)
BY DEF Stands, Idle, Busy

(* A line about the file, and on to the next one or to the answer.            *)
MovedOn(h, r, lines) ==
    IF h.job = "download" \/ h.file = Len(r.files)
    THEN [h EXCEPT !.at = "answer", !.lines = lines]
    ELSE [h EXCEPT !.at = "ingest", !.file = @ + 1, !.lines = lines]

LEMMA GoesOn ==
    ASSUME NEW h \in Handlings, NEW r \in Record, NEW there, Handles(h, r, there),
           h.at \in Busy \ {"answer"},
           NEW lines \in SUBSET (Nat \X Outcomes), h.lines \subseteq lines,
           h.job = "ingest" => Accounted(r.files[h.file], h.id, h.file, lines, there)
    PROVE  /\ MovedOn(h, r, lines) \in Handlings
           /\ Handles(MovedOn(h, r, lines), r, there)
<1> DEFINE n == Len(r.files)
           h2 == MovedOn(h, r, lines)
<1>1. n \in Nat /\ DOMAIN r.files = 1..n
  BY DEF Record
<1>2. r.id = h.id /\ h.file \in 1..n
  BY <1>1 DEF Handles
<1> HIDE DEF n
<1>3. ASSUME NEW i \in 1..n, h.job = "ingest", i <= h.file
      PROVE  Accounted(r.files[i], h.id, i, lines, there)
  <2>1. CASE i = h.file
    BY <1>3, <2>1
  <2>2. CASE i # h.file
    <3>1. LookedAt(h, i)
      BY <1>2, <1>3, <2>2 DEF LookedAt
    <3>2. Accounted(r.files[i], h.id, i, h.lines, there)
      BY <1>1, <1>3, <3>1 DEF Handles
    <3> QED BY <3>2 DEF Accounted
  <2> QED BY <2>1, <2>2
<1>4. CASE h.job = "download" \/ h.file = n
  <2>1. h2 = [h EXCEPT !.at = "answer", !.lines = lines]
    BY <1>4 DEF MovedOn, n
  <2>2. /\ h2 \in Handlings /\ h2.at = "answer" /\ h2.lines = lines /\ h2.id = h.id
        /\ h2.file = h.file /\ h2.job = h.job
    BY <2>1 DEF Handlings, Busy
  <2> HIDE DEF h2
  <2>3. h2.job = "ingest" => \A i \in 1..n : i <= h.file
    <3>1. h.job \in {"ingest", "download"}
      BY DEF Handlings
    <3>2. h.job = "ingest" => h.file = n
      BY <1>4
    <3> QED BY <2>2, <3>2
  <2>4. Handles(h2, r, there)
    BY <1>1, <1>2, <1>3, <2>2, <2>3 DEF Handles
  <2> QED BY <2>2, <2>4 DEF h2
<1>5. CASE ~(h.job = "download" \/ h.file = n)
  <2>1. h2 = [h EXCEPT !.at = "ingest", !.file = h.file + 1, !.lines = lines]
    BY <1>5 DEF MovedOn, n
  <2>2. /\ h2 \in Handlings /\ h2.at = "ingest" /\ h2.lines = lines /\ h2.id = h.id
        /\ h2.file = h.file + 1 /\ h2.job = h.job
    <3> DEFINE next == h.file + 1
    <3>1. h.file \in Nat /\ next \in Nat
      BY DEF Handlings
    <3>2. h2 = [h EXCEPT !.at = "ingest", !.file = next, !.lines = lines]
      BY <2>1
    <3> HIDE DEF next, h2
    <3>3. /\ h2 \in Handlings /\ h2.at = "ingest" /\ h2.lines = lines /\ h2.id = h.id
          /\ h2.file = next /\ h2.job = h.job
      BY <3>1, <3>2 DEF Handlings, Busy
    <3> QED BY <3>3 DEF next
  <2> HIDE DEF h2
  <2>3. h2.file \in 1..n /\ h2.job = "ingest"
    <3>1. h.job = "ingest"
      BY <1>5 DEF Handlings
    <3>2. h.file # n
      BY <1>5
    <3> QED BY <1>1, <1>2, <2>2, <3>1, <3>2
  <2>4. \A i \in 1..n : LookedAt(h2, i) => i <= h.file
    BY <1>2, <2>2 DEF LookedAt
  <2>5. Handles(h2, r, there)
    BY <1>1, <1>2, <1>3, <2>2, <2>3, <2>4 DEF Handles
  <2> QED BY <2>2, <2>5 DEF h2
<1> QED BY <1>4, <1>5

LEMMA StandsMeans ==
    ASSUME MediaInv, handling.at \in Busy
    PROVE  \E j \in DOMAIN records :
               /\ records[j] \in Record
               /\ Handles(handling, records[j], Brought)
               /\ RecordOf(handling.id) = records[j]
<1>1. PICK j \in DOMAIN records : Handles(handling, records[j], Brought)
  BY DEF MediaInv, Stands
<1>2. records[j].id = handling.id
  BY <1>1 DEF Handles
<1>3. Sound(records, made, Brought)
  BY DEF MediaInv
<1>4. Among(records, records[j].id) = records[j]
  BY <1>3, AmongIs
<1>5. records[j] \in Record
  BY <1>3 DEF Sound
<1>6. RecordOf(handling.id) = records[j]
  BY <1>2, <1>4 DEF Among, RecordOf
<1> QED BY <1>1, <1>5, <1>6

LEMMA ReceiveKeeps ==
    ASSUME MediaInv, NEW room \in Room, NEW payload \in Payload, NEW caption \in Caption,
           Receive(room, payload, caption)
    PROVE  MediaInv'
<1> DEFINE id == made + 1
           r == NewRecord(id, room, payload)
           more == Append(records, r)
           h == [Idle EXCEPT !.at = "ingest", !.id = id, !.file = 1, !.caption = caption]
<1>1. /\ made' = id /\ records' = more /\ r.files # <<>>
      /\ \/ onFile' = more /\ handling' = h
         \/ onFile' = onFile /\ handling' = [Idle EXCEPT !.at = "down"]
      /\ Brought' = Brought /\ reading' = reading /\ reports' = reports
  BY DEF Receive, NoHistory, Brought
<1>2. made \in Nat /\ id \in Nat /\ made <= id
  BY DEF MediaInv
<1>3. /\ r \in Record /\ r.id = id /\ CopiesAre(r, Brought) /\ ListsAll(r)
  BY <1>2, NewRecordIs
<1> HIDE DEF r, id
<1>4. Sound(more, id, Brought)
  BY <1>2, <1>3, SoundAppend DEF MediaInv, id
<1>5. Sound(onFile, id, Brought) /\ (reading.on => Sound(reading.was, id, Brought))
  BY <1>2, SoundGrows DEF MediaInv
<1>6. /\ h \in Handlings /\ h.at = "ingest" /\ h.id = id /\ h.file = 1 /\ h.job = "ingest"
  BY <1>2, MediaAssumption DEF Handlings, Idle, Busy, Captions
<1> HIDE DEF h
<1>7. Stands(h, more, Brought)
  <2>1. records \in Seq(Record)
    BY DEF MediaInv, Sound
  <2>2. Len(records) + 1 \in DOMAIN more /\ more[Len(records) + 1] = r
    BY <1>3, <2>1
  <2>3. r.files \in Seq(ListedFile)
    BY <1>3 DEF Record
  <2>4. 1 \in DOMAIN r.files /\ \A i \in DOMAIN r.files : i \in Nat /\ ~(i < 1)
    BY <1>1, <2>3
  <2>5. \A i \in DOMAIN r.files : ~LookedAt(h, i)
    BY <1>6, <2>4 DEF LookedAt
  <2>6. Handles(h, r, Brought)
    BY <1>3, <1>6, <2>4, <2>5 DEF Handles
  <2> HIDE DEF more
  <2> QED BY <2>2, <2>6 DEF Stands
<1> HIDE DEF more
<1>8. CASE onFile' = more /\ handling' = h
  BY <1>1, <1>2, <1>4, <1>5, <1>6, <1>7, <1>8 DEF MediaInv
<1>9. CASE onFile' = onFile /\ handling' = [Idle EXCEPT !.at = "down"]
  BY <1>1, <1>2, <1>4, <1>5, <1>9, Rests, RestingStands DEF MediaInv, Resting
<1> QED BY <1>1, <1>8, <1>9

(* Only what the listener is doing changes, and maybe the copies.             *)
LEMMA HandlingMoves ==
    ASSUME MediaInv, UNCHANGED <<records, onFile, reading, made, reports>>,
           Brought \subseteq Brought', handling' \in Handlings,
           Stands(handling', records, Brought')
    PROVE  MediaInv'
<1>1. /\ Sound(records, made, Brought') /\ Sound(onFile, made, Brought')
      /\ reading.on => Sound(reading.was, made, Brought')
  <2>1. made \in Nat /\ made <= made
    BY DEF MediaInv
  <2> QED BY <2>1, SoundGrows DEF MediaInv
<1>2. ReportsStand(reports, Brought')
  BY Grow DEF MediaInv
<1> QED BY <1>1, <1>2 DEF MediaInv

LEMMA HandlesMoves ==
    ASSUME MediaInv, UNCHANGED <<records, onFile, reading, made, reports>>,
           Brought \subseteq Brought', handling' \in Handlings,
           NEW j \in DOMAIN records, Handles(handling', records[j], Brought')
    PROVE  MediaInv'
<1>1. Stands(handling', records, Brought')
  BY DEF Stands
<1> QED BY <1>1, HandlingMoves

LEMMA LineIs ==
    ASSUME MediaInv, NEW outcome \in Outcomes
    PROVE  /\ Line(outcome) \in SUBSET (Nat \X Outcomes)
           /\ handling.lines \subseteq Line(outcome)
           /\ <<handling.file, outcome>> \in Line(outcome)
BY DEF Line, MediaInv, Handlings

LEMMA FetchKeeps == ASSUME MediaInv, Fetch PROVE MediaInv'
<1> DEFINE file == Current
           unread == IF file.path = "gone" THEN Line("unread") ELSE handling.lines
           reach == [handling EXCEPT !.at = "copy", !.lines = unread]
<1>1. handling.at = "ingest" /\ handling \in Handlings
  BY DEF Fetch, MediaInv
<1>2. PICK j \in DOMAIN records :
          /\ records[j] \in Record /\ Handles(handling, records[j], Brought)
          /\ RecordOf(handling.id) = records[j]
  BY <1>1, StandsMeans DEF Busy
<1> DEFINE r == records[j]
<1>3. UNCHANGED <<records, onFile, reading, made, reports, Brought>>
  BY DEF Fetch, NoHistory, Brought
<1>4. /\ unread \in SUBSET (Nat \X Outcomes) /\ handling.lines \subseteq unread
      /\ file.path = "gone" => <<handling.file, "unread">> \in unread
      /\ handling.file \in Nat
  <2>1. "unread" \in Outcomes
    BY DEF Outcomes
  <2> QED BY <1>1, <2>1, LineIs DEF Handlings
<1>5. file = r.files[handling.file]
  BY <1>2 DEF Current
<1>6. ASSUME NEW lines \in SUBSET (Nat \X Outcomes), handling.lines \subseteq lines,
             Accounted(file, handling.id, handling.file, lines, Brought), GoOn(lines)
      PROVE  MediaInv'
  <2>1. handling' = MovedOn(handling, r, lines)
    BY <1>2, <1>6 DEF GoOn, MovedOn
  <2>2. handling' \in Handlings /\ Handles(handling', r, Brought)
    BY <1>1, <1>2, <1>5, <1>6, <2>1, GoesOn DEF Busy
  <2> QED BY <1>3, <2>2, HandlesMoves
<1>7. ASSUME handling' = reach PROVE MediaInv'
  <2> HIDE DEF unread
  <2>1. /\ handling' \in Handlings /\ handling'.at = "copy" /\ handling'.lines = unread
        /\ handling'.id = handling.id /\ handling'.file = handling.file
        /\ handling'.job = handling.job
    BY <1>1, <1>4, <1>7 DEF Handlings, Busy
  <2>2. \A i : LookedAt(handling', i) => LookedAt(handling, i)
    BY <2>1 DEF LookedAt
  <2>3. Handles(handling', r, Brought)
    BY <1>2, <1>4, <2>1, <2>2 DEF Handles, Accounted
  <2> QED BY <1>3, <2>1, <2>3, HandlesMoves
<1> HIDE DEF r
<1>8. CASE ~Supported(file) /\ GoOn(handling.lines)
  <2>1. handling.lines \in SUBSET (Nat \X Outcomes)
    BY <1>1 DEF Handlings
  <2>2. Accounted(file, handling.id, handling.file, handling.lines, Brought)
    BY <1>8 DEF Accounted
  <2> QED BY <1>6, <1>8, <2>1, <2>2
<1>9. CASE GoOn(IF file.path = "gone" THEN unread ELSE Line("no hash"))
  <2> DEFINE lines == IF file.path = "gone" THEN unread ELSE Line("no hash")
  <2>1. "no hash" \in Outcomes /\ "unread" \in Outcomes
    BY DEF Outcomes
  <2>2. /\ Line("no hash") \in SUBSET (Nat \X Outcomes)
        /\ handling.lines \subseteq Line("no hash")
        /\ <<handling.file, "no hash">> \in Line("no hash")
    BY <2>1, LineIs
  <2> HIDE DEF unread, file
  <2>3. /\ lines \in SUBSET (Nat \X Outcomes) /\ handling.lines \subseteq lines
        /\ \E outcome \in {"unread", "no hash"} : <<handling.file, outcome>> \in lines
    BY <1>4, <2>2
  <2> HIDE DEF lines
  <2>4. Accounted(file, handling.id, handling.file, lines, Brought)
    BY <2>1, <2>3 DEF Accounted
  <2> QED BY <1>6, <1>9, <2>3, <2>4 DEF lines
<1>10. CASE GoOn(unread \cup {<<handling.file, "failed">>})
  <2> HIDE DEF unread
  <2> DEFINE lines == unread \cup {<<handling.file, "failed">>}
  <2>1. "failed" \in Outcomes
    BY DEF Outcomes
  <2>2. lines \in SUBSET (Nat \X Outcomes) /\ handling.lines \subseteq lines
    BY <1>4, <2>1
  <2>3. Accounted(file, handling.id, handling.file, lines, Brought)
    BY <2>1 DEF Accounted
  <2> QED BY <1>6, <1>10, <2>2, <2>3
<1> HIDE DEF file, unread, reach
<1>11. \/ ~Supported(file) /\ GoOn(handling.lines)
       \/ handling' = reach
       \/ GoOn(IF file.path = "gone" THEN unread ELSE Line("no hash"))
       \/ GoOn(unread \cup {<<handling.file, "failed">>})
  BY DEF Fetch, file, unread, reach
<1> QED BY <1>7, <1>8, <1>9, <1>10, <1>11

LEMMA CopyFileKeeps == ASSUME MediaInv, CopyFile PROVE MediaInv'
<1>1. handling.at = "copy" /\ handling \in Handlings
  BY DEF CopyFile, MediaInv
<1>2. PICK j \in DOMAIN records :
          /\ records[j] \in Record /\ Handles(handling, records[j], Brought)
          /\ RecordOf(handling.id) = records[j]
  BY <1>1, StandsMeans DEF Busy
<1> DEFINE r == records[j]
<1>3. /\ UNCHANGED <<records, onFile, reading, made, reports>>
      /\ Brought \subseteq Brought'
  BY DEF CopyFile, NoHistory, Brought
<1>4. Handles(handling, r, Brought')
  BY <1>2, <1>3, Grow
<1>5. handling.file \in Nat
  BY <1>1 DEF Handlings
<1>6. CASE /\ copies' = copies \cup {<<handling.id, handling.file>>}
           /\ handling' = [handling EXCEPT !.at = "record", !.lines = Line("copied")]
  <2>1. "copied" \in Outcomes
    BY DEF Outcomes
  <2> DEFINE lines == Line("copied")
  <2>2. /\ lines \in SUBSET (Nat \X Outcomes) /\ handling.lines \subseteq lines
        /\ <<handling.file, "copied">> \in lines
    BY <2>1, LineIs
  <2> HIDE DEF lines
  <2>3. /\ handling' \in Handlings /\ handling'.at = "record" /\ handling'.lines = lines
        /\ handling'.id = handling.id /\ handling'.file = handling.file
        /\ handling'.job = handling.job
    BY <1>1, <1>6, <2>2 DEF Handlings, Busy, lines
  <2>4. <<handling.id, handling.file>> \in Brought'
    BY <1>6 DEF Brought
  <2>5. ASSUME NEW i \in DOMAIN r.files, handling.job = "ingest", LookedAt(handling', i)
        PROVE  Accounted(r.files[i], handling.id, i, lines, Brought')
    <3>1. CASE i = handling.file
      BY <2>1, <2>2, <2>4, <3>1 DEF Accounted
    <3>2. CASE i # handling.file
      <4>1. LookedAt(handling, i)
        BY <2>3, <2>5, <3>2 DEF LookedAt
      <4>2. Accounted(r.files[i], handling.id, i, handling.lines, Brought')
        BY <1>4, <2>5, <4>1 DEF Handles
      <4> QED BY <2>2, <4>2 DEF Accounted
    <3> QED BY <3>1, <3>2
  <2>6. Handles(handling', r, Brought')
    BY <1>4, <2>3, <2>4, <2>5 DEF Handles
  <2> QED BY <1>3, <2>3, <2>6, HandlesMoves
<1>7. CASE GoOn(Line("failed"))
  <2> DEFINE lines == Line("failed")
  <2>1. "failed" \in Outcomes
    BY DEF Outcomes
  <2>2. /\ lines \in SUBSET (Nat \X Outcomes) /\ handling.lines \subseteq lines
        /\ <<handling.file, "failed">> \in lines
    BY <2>1, LineIs
  <2> HIDE DEF lines
  <2>3. Accounted(r.files[handling.file], handling.id, handling.file, lines, Brought')
    BY <2>1, <2>2 DEF Accounted
  <2>4. handling' = MovedOn(handling, r, lines)
    BY <1>2, <1>7 DEF GoOn, MovedOn, lines
  <2>5. handling' \in Handlings /\ Handles(handling', r, Brought')
    BY <1>1, <1>2, <1>4, <2>2, <2>3, <2>4, GoesOn DEF Busy
  <2> QED BY <1>3, <2>5, HandlesMoves
<1> QED BY <1>6, <1>7 DEF CopyFile

LEMMA RecordCopyKeeps == ASSUME MediaInv, RecordCopy PROVE MediaInv'
<1>1. handling.at = "record" /\ handling \in Handlings /\ Sound(records, made, Brought)
  BY DEF RecordCopy, MediaInv
<1>2. PICK j \in DOMAIN records :
          /\ records[j] \in Record /\ Handles(handling, records[j], Brought)
          /\ RecordOf(handling.id) = records[j]
  BY <1>1, StandsMeans DEF Busy
<1> DEFINE r == records[j]
           r2 == NotedIn(r, handling.file)
           noted == NotedAll(records, handling.id, handling.file)
<1>3. /\ UNCHANGED <<reading, made, reports, Brought>>
      /\ onFile' = records' \/ onFile' = onFile
      /\ GoOn(handling.lines)
  BY DEF RecordCopy, NoHistory, Brought
<1>4. records' = noted
  BY Zenon DEF RecordCopy, NotedAll, NotedIn
<1>5. r.id = handling.id /\ handling.file \in DOMAIN r.files /\ <<handling.id, handling.file>> \in Brought
  BY <1>1, <1>2 DEF Handles
<1>6. Sound(noted, made, Brought) /\ DOMAIN noted = DOMAIN records
  BY <1>1, <1>5, SoundNoted
<1>7. noted[j] = r2
  BY <1>5 DEF NotedAll
<1>8. /\ r2 \in Record /\ r2.id = r.id /\ DOMAIN r2.files = DOMAIN r.files
      /\ Len(r2.files) = Len(r.files)
      /\ \A k \in DOMAIN r.files : Supported(r2.files[k]) => Supported(r.files[k])
  <2> DEFINE nth == handling.file
  <2> HIDE DEF nth
  <2>1. r \in Record /\ r2 = NotedIn(r, nth)
    BY <1>2 DEF nth
  <2> HIDE DEF r, r2
  <2>2. /\ r2 \in Record /\ r2.id = r.id /\ DOMAIN r2.files = DOMAIN r.files
        /\ Len(r2.files) = Len(r.files)
        /\ \A k \in DOMAIN r.files : k # nth => r2.files[k] = r.files[k]
        /\ nth \in DOMAIN r.files => r2.files[nth] = [r.files[nth] EXCEPT !.path = "copy"]
    BY <2>1, NotedInIs
  <2>3. ASSUME NEW k \in DOMAIN r.files PROVE Supported(r2.files[k]) => Supported(r.files[k])
    <3>1. r.files[k] \in ListedFile
      BY <2>1 DEF Record
    <3>2. Supported([r.files[k] EXCEPT !.path = "copy"]) => Supported(r.files[k])
      BY <3>1, NotedSupport
    <3> QED BY <2>2, <3>2
  <2> QED BY <2>2, <2>3
<1> HIDE DEF r2, noted
<1>9. Handles(handling, r2, Brought)
  BY <1>2, <1>8 DEF Handles, Accounted
<1>10. handling' = MovedOn(handling, r2, handling.lines)
  BY <1>2, <1>3, <1>8 DEF GoOn, MovedOn
<1>11. /\ handling.lines \in SUBSET (Nat \X Outcomes)
       /\ handling.job = "ingest" =>
              Accounted(r2.files[handling.file], handling.id, handling.file, handling.lines, Brought)
  <2>1. handling.lines \in SUBSET (Nat \X Outcomes)
    BY <1>1 DEF Handlings
  <2>2. LookedAt(handling, handling.file)
    BY <1>1 DEF LookedAt
  <2> QED BY <1>5, <1>8, <1>9, <2>1, <2>2 DEF Handles
<1>12. handling' \in Handlings /\ Handles(handling', r2, Brought)
  BY <1>1, <1>8, <1>9, <1>10, <1>11, GoesOn DEF Busy
<1>13. Stands(handling', noted, Brought)
  BY <1>6, <1>7, <1>12 DEF Stands
<1> QED BY <1>3, <1>4, <1>6, <1>12, <1>13 DEF MediaInv

LEMMA AnswerKeeps == ASSUME MediaInv, Answer PROVE MediaInv'
<1>1. handling.at = "answer" /\ handling.job = "ingest" /\ handling' = Idle
  BY DEF Answer
<1>2. PICK j \in DOMAIN records :
          /\ Handles(handling, records[j], Brought) /\ RecordOf(handling.id) = records[j]
  BY <1>1, StandsMeans DEF Busy
<1> DEFINE r == records[j]
           report(to) == [id |-> handling.id, to |-> to, lines |-> handling.lines, files |-> r.files]
<1>3. UNCHANGED <<records, onFile, Brought, reading, made>>
  BY DEF Answer, Brought
<1>4. \E to \in {"sender", "agent", "nobody"} : reports' = reports \cup {report(to)}
  <2>1. \E to \in {"sender", "agent", "nobody"} : Report(to)
    BY DEF Answer
  <2> QED BY <1>2, <2>1 DEF Report
<1>5. \A i \in DOMAIN r.files : Accounted(r.files[i], handling.id, i, handling.lines, Brought)
  BY <1>1, <1>2 DEF Handles, LookedAt
<1>6. ReportsStand(reports', Brought)
  BY <1>4, <1>5 DEF ReportsStand, MediaInv
<1> QED BY <1>1, <1>3, <1>6, Rests, RestingStands DEF MediaInv, Resting

LEMMA DownloadKeeps ==
    ASSUME MediaInv, NEW room \in Room, NEW id \in 1..MaxRecords, NEW i \in 1..3,
           Download(room, id, i)
    PROVE  MediaInv'
<1> DEFINE h == [Idle EXCEPT !.at = "copy", !.id = id, !.file = i, !.job = "download"]
<1>1. UNCHANGED <<records, onFile, Brought, reading, made, reports>>
  BY DEF Download, NoHistory, Brought
<1>2. handling' = h \/ handling' = handling
  BY DEF Download
<1>3. CASE handling' = handling
  BY <1>1, <1>3 DEF MediaInv
<1>4. CASE handling' = h
  <2>1. id \in Nat /\ i \in Nat
    OBVIOUS
  <2>2. /\ h \in Handlings /\ h.at = "copy" /\ h.id = id /\ h.file = i /\ h.job = "download"
    BY <2>1 DEF Handlings, Idle, Busy, Captions
  <2>3. PICK r \in ToSet(records) : r.id = id
    BY DEF Download
  <2>4. PICK j \in DOMAIN records : r = records[j]
    BY DEF ToSet
  <2>5. RecordOf(id) = records[j]
    <3>1. Sound(records, made, Brought)
      BY DEF MediaInv
    <3>2. Among(records, records[j].id) = records[j]
      BY <3>1, AmongIs
    <3> QED BY <2>3, <2>4, <3>2 DEF Among, RecordOf
  <2>6. i \in DOMAIN records[j].files
    BY <2>5 DEF Download
  <2> HIDE DEF h
  <2>7. Handles(h, records[j], Brought)
    BY <2>2, <2>3, <2>4, <2>6 DEF Handles
  <2>8. handling' \in Handlings /\ Handles(handling', records[j], Brought')
    BY <1>1, <1>4, <2>2, <2>7
  <2> QED BY <1>1, <2>8, HandlesMoves
<1> QED BY <1>2, <1>3, <1>4

LEMMA MediaInvStep == MediaInv /\ [MediaNext]_mediaVars => MediaInv'
<1> SUFFICES ASSUME MediaInv, [MediaNext]_mediaVars PROVE MediaInv'
  OBVIOUS
<1>1. ASSUME NEW room \in Room, NEW payload \in Payload, NEW caption \in Caption,
             Receive(room, payload, caption)
      PROVE  MediaInv'
  BY <1>1, ReceiveKeeps
<1>2. CASE Fetch \/ CopyFile \/ RecordCopy \/ Answer
  BY <1>2, FetchKeeps, CopyFileKeeps, RecordCopyKeeps, AnswerKeeps
<1>3. ASSUME NEW room \in Room, NEW id \in 1..MaxRecords, NEW i \in 1..3, Download(room, id, i)
      PROVE  MediaInv'
  BY <1>3, DownloadKeeps
<1>4. CASE DownloadAnswered \/ ListenerKilled
  <2>1. /\ UNCHANGED <<records, onFile, Brought, reading, made, reports>>
        /\ handling' = Idle \/ handling' = [Idle EXCEPT !.at = "down"]
    BY <1>4 DEF DownloadAnswered, ListenerKilled, NoHistory, Brought
  <2> QED BY <2>1, Rests, RestingStands, HandlingMoves DEF Resting
<1>5. ASSUME NEW id \in 1..MaxRecords, Approve(id) PROVE MediaInv'
  BY <1>5 DEF Approve, MediaInv, Brought
<1>6. CASE Open
  BY <1>6, Rests, RestingStands DEF Open, NoHistory, MediaInv, Resting, Brought
<1>7. CASE OtherReads
  BY <1>7 DEF OtherReads, NoHistory, MediaInv, Brought
<1>8. CASE OtherWritesBack
  BY <1>8 DEF OtherWritesBack, NoHistory, MediaInv, NotReading, Brought
<1>9. CASE UNCHANGED mediaVars
  BY <1>9 DEF mediaVars, MediaInv, Brought
<1> QED
  BY <1>1, <1>2, <1>3, <1>4, <1>5, <1>6, <1>7, <1>8, <1>9 DEF MediaNext

LEMMA MediaStart == MediaInit => MediaInv
<1> SUFFICES ASSUME MediaInit PROVE MediaInv
  OBVIOUS
<1>1. Sound(<<>>, 0, {}) /\ ReportsStand({}, {})
  BY NoneSound DEF ReportsStand
<1> QED BY <1>1, Rests, RestingStands DEF MediaInit, MediaInv, NotReading, Resting, Brought

\* The inductive invariant of the attachments: lists of records are sound, and
\* the handling in hand and every report account for the files they speak of.
THEOREM MediaInvariant == MediaSpec => []MediaInv
BY MediaStart, MediaInvStep, PTL DEF MediaSpec

(* Every supported file is accounted for in what sender or agent is told.     *)
THEOREM EveryFileIsAccounted == MediaSpec => []FilesAccounted
<1>1. MediaInv => FilesAccounted
  <2> SUFFICES ASSUME MediaInv PROVE FilesAccounted
    OBVIOUS
  <2>1. \A r \in reports : r.to # "nobody" =>
          \A i \in DOMAIN r.files : Supported(r.files[i]) =>
              \E outcome \in {"copied", "failed", "no hash", "unread"} :
                  /\ <<i, outcome>> \in r.lines
                  /\ outcome = "copied" => <<r.id, i>> \in copies \cup spoilt
    BY DEF MediaInv, ReportsStand, Accounted, Outcomes, Brought
  <2>2. ASSUME NEW r \in ToSet(records) \cup ToSet(onFile) PROVE CopiesAre(r, Brought)
    <3>1. \/ \E i \in DOMAIN records : r = records[i]
          \/ \E i \in DOMAIN onFile : r = onFile[i]
      BY DEF ToSet
    <3> QED BY <3>1 DEF MediaInv, Sound
  <2> QED BY <2>1, <2>2 DEF FilesAccounted, CopiesAre, Brought
<1> QED BY <1>1, MediaInvariant, PTL

(* Unless an object of a message tells of more than one file, its record has  *)
(* all that was told of each file in one entry, and no two files in one.      *)
THEOREM NoFileIsFoldedAway == MediaSpec => []NoFileFoldedAway
<1>1. MediaInv => NoFileFoldedAway
  <2> SUFFICES ASSUME MediaInv PROVE NoFileFoldedAway
    OBVIOUS
  <2>1. ASSUME NEW r \in ToSet(records) PROVE ListsAll(r)
    <3>1. \E i \in DOMAIN records : r = records[i]
      BY DEF ToSet
    <3> QED BY <3>1 DEF MediaInv, Sound
  <2> QED BY <2>1 DEF NoFileFoldedAway, ListsAll, Lists
<1> QED BY <1>1, MediaInvariant, PTL

-----------------------------------------------------------------------------
(* Records stay on file.                                                      *)

LEMMA IdsAppended ==
    ASSUME NEW kept \in Seq(Record), NEW record \in Record
    PROVE  Ids(kept) \subseteq Ids(Append(kept, record))
<1>1. \A i \in DOMAIN kept : i \in DOMAIN Append(kept, record) /\ Append(kept, record)[i] = kept[i]
  OBVIOUS
<1> QED BY <1>1 DEF Ids

LEMMA IdsNoted ==
    ASSUME NEW kept \in Seq(Record), NEW id, NEW nth
    PROVE  Ids(NotedAll(kept, id, nth)) = Ids(kept)
<1> DEFINE noted == NotedAll(kept, id, nth)
<1>1. DOMAIN noted = DOMAIN kept
  BY DEF NotedAll
<1>2. ASSUME NEW i \in DOMAIN kept PROVE noted[i].id = kept[i].id
  <2>1. kept[i] \in Record
    OBVIOUS
  <2>2. NotedIn(kept[i], nth).id = kept[i].id
    BY <2>1, NotedInIs
  <2>3. noted[i] = IF kept[i].id = id THEN NotedIn(kept[i], nth) ELSE kept[i]
    BY DEF NotedAll
  <2> QED BY <2>2, <2>3
<1> HIDE DEF noted
<1> QED BY <1>1, <1>2 DEF Ids, noted

(* What another program has read is still in the file, and the listener's     *)
(* memory has whatever the file has.                                          *)
RecordsCover ==
    /\ Ids(onFile) \subseteq Ids(records)
    /\ reading.on => Ids(reading.was) \subseteq Ids(onFile)

(* What a step may do to file and memory without losing a record.             *)
RecordStep ==
    /\ RecordsCover'
    /\ Ids(onFile) \subseteq Ids(onFile') \/ (reading.on /\ ~reading'.on)

LEMMA MediaStep ==
    ASSUME MediaInv, RecordsCover, [MediaNext]_mediaVars
    PROVE  RecordStep
<1>1. records \in Seq(Record) /\ made \in Nat
  BY DEF MediaInv, Sound
<1>2. ASSUME Ids(records) \subseteq Ids(records'), reading' = reading,
             onFile' = records' \/ (onFile' = onFile /\ Ids(onFile) \subseteq Ids(records'))
      PROVE  RecordStep
  BY <1>2 DEF RecordsCover, RecordStep
<1>3. ASSUME NEW room \in Room, NEW payload \in Payload, NEW caption \in Caption,
             Receive(room, payload, caption)
      PROVE  RecordStep
  <2> DEFINE record == NewRecord(made + 1, room, payload)
  <2>1. /\ records' = Append(records, record) /\ reading' = reading
        /\ onFile' = records' \/ onFile' = onFile
    BY <1>3 DEF Receive
  <2>2. record \in Record
    BY <1>1, NewRecordIs
  <2> HIDE DEF record
  <2>3. Ids(records) \subseteq Ids(records')
    BY <1>1, <2>1, <2>2, IdsAppended
  <2> QED BY <1>2, <2>1, <2>3 DEF RecordsCover
<1>4. CASE RecordCopy
  <2>1. records' = NotedAll(records, handling.id, handling.file)
    BY <1>4, Zenon DEF RecordCopy, NotedAll, NotedIn
  <2>2. (onFile' = records' \/ onFile' = onFile) /\ reading' = reading
    BY <1>4 DEF RecordCopy
  <2>3. Ids(records') = Ids(records)
    BY <1>1, <2>1, IdsNoted
  <2> QED BY <1>2, <2>2, <2>3 DEF RecordsCover
<1>5. CASE Open
  BY <1>5 DEF Open, RecordsCover, RecordStep
<1>6. CASE OtherReads
  BY <1>6 DEF OtherReads, RecordsCover, RecordStep
<1>7. CASE OtherWritesBack
  BY <1>7 DEF OtherWritesBack, RecordsCover, RecordStep, NotReading
<1>8. UNCHANGED <<records, onFile, reading>> => RecordStep
  BY DEF RecordsCover, RecordStep
<1>9. CASE Fetch \/ CopyFile \/ Answer \/ DownloadAnswered \/ ListenerKilled
  BY <1>8, <1>9 DEF Fetch, CopyFile, Answer, DownloadAnswered, ListenerKilled
<1>10. ASSUME NEW id \in 1..MaxRecords, Approve(id)
       PROVE  RecordStep
  BY <1>8, <1>10 DEF Approve
<1>11. ASSUME NEW room \in Room, NEW id \in 1..MaxRecords, NEW i \in 1..3, Download(room, id, i)
       PROVE  RecordStep
  BY <1>8, <1>11 DEF Download
<1>12. CASE UNCHANGED mediaVars
  BY <1>8, <1>12 DEF mediaVars
<1> QED
  BY <1>3, <1>4, <1>5, <1>6, <1>7, <1>9, <1>10, <1>11, <1>12 DEF MediaNext

(* A record leaves attachments.json only by another program's write-back of   *)
(* what it had read (AttachmentStore): no failed save, kill or restart of the *)
(* listener, and no copy recorded, loses one.                                 *)
THEOREM AttachmentsAreKept == MediaSpec => RecordsStay
<1>1. MediaInit => RecordsCover
  BY DEF MediaInit, RecordsCover, NotReading
<1>2. MediaInv /\ RecordsCover /\ [MediaNext]_mediaVars => RecordsCover'
  BY MediaStep DEF RecordStep
<1>3. MediaInv /\ RecordsCover /\ [MediaNext]_mediaVars
        => [Ids(onFile) \subseteq Ids(onFile') \/ (reading.on /\ ~reading'.on)]_mediaVars
  BY MediaStep DEF RecordStep
<1> QED BY <1>1, <1>2, <1>3, MediaInvariant, PTL DEF MediaSpec, RecordsStay

(*---------------------------------- Replies --------------------------------*)


-----------------------------------------------------------------------------
(* Sums. *)

\* The sum of a sequence is reached by adding its elements one after the other.
LEMMA TotalSteps ==
    ASSUME NEW s \in Seq(Nat)
    PROVE  \E g \in [0..Len(s) -> Nat] :
              /\ g[0] = 0 /\ g[Len(s)] = Total(s)
              /\ \A k \in 1..Len(s) : g[k] = g[k-1] + s[k]
<1> DEFINE n == Len(s)
           F == [vi \in Nat \X (1..n) |-> vi[1] + s[vi[2]]]
           Solves(it) == it = [x \in SUBSET DOMAIN s |->
               IF x = {} THEN 0 ELSE it[x \ {Max(x)}] + s[Max(x)]]
           sums == CHOOSE it : Solves(it)
           g == [k \in 0..n |-> sums[1..k]]
<1>1. n \in Nat /\ DOMAIN s = 1..n /\ \A i \in 1..n : s[i] \in Nat
  OBVIOUS
<1>2. F \in [Nat \X (1..n) -> Nat]
  BY <1>1
<1> HIDE DEF n, F
<1>3. PICK it \in [SUBSET (1..n) -> Nat] : Iterates(it, n, 0, F)
  BY <1>1, <1>2, FoldExists
<1>4. Solves(it)
  <2> SUFFICES ASSUME NEW x \in SUBSET (1..n), x # {}
               PROVE  it[x] = it[x \ {Max(x)}] + s[Max(x)]
    BY <1>1, <1>3 DEF Iterates
  <2>1. Max(x) \in 1..n
    BY <1>1, MaxIsMember
  <2>2. <<it[x \ {Max(x)}], Max(x)>> \in Nat \X (1..n)
    BY <2>1
  <2>3. it[x] = F[<<it[x \ {Max(x)}], Max(x)>>]
    BY <1>3 DEF Iterates
  <2> QED BY <2>2, <2>3 DEF F
<1>5. Solves(sums)
  <2> HIDE DEF Solves
  <2> QED BY <1>4
<1> HIDE DEF sums
<1>6. sums[{}] = 0 /\ \A k \in 1..n : sums[1..k] = sums[1..(k-1)] + s[k]
  <2>1. {} \in SUBSET (1..n)
    OBVIOUS
  <2>2. ASSUME NEW k \in 1..n PROVE sums[1..k] = sums[1..(k-1)] + s[k]
    <3>1. 1..k \in SUBSET (1..n)
      BY <1>1
    <3>2. 1..k # {} /\ Max(1..k) = k /\ (1..k) \ {k} = 1..(k-1)
      <4>1. k \in Nat \ {0}
        BY <1>1
      <4> QED BY <4>1, FirstPlaces
    <3> QED BY <1>1, <1>5, <3>1, <3>2
  <2> QED BY <1>1, <1>5, <2>1, <2>2
<1>7. g[0] = 0 /\ \A k \in 1..n : g[k] = g[k-1] + s[k]
  <2>1. 1..0 = {}
    OBVIOUS
  <2> QED BY <1>1, <1>6, <2>1
<1>8. g[n] = Total(s)
  BY <1>1 DEF Total, FoldLeft, MapThenFoldSet, sums
<1>9. g \in [0..n -> Nat]
  <2> DEFINE S == {k \in 0..n : g[k] \in Nat}
  <2>1. 0 \in S
    BY <1>1, <1>7
  <2>2. ASSUME NEW k \in 0..(n-1), k \in S PROVE k + 1 \in S
    <3>1. k + 1 \in 1..n
      BY <1>1
    <3>2. g[k+1] = g[k] + s[k+1]
      <4> HIDE DEF g
      <4>1. g[k+1] = g[(k+1)-1] + s[k+1]
        BY <1>7, <3>1
      <4> QED BY <1>1, <4>1
    <3> HIDE DEF g
    <3> QED BY <1>1, <2>2, <3>1, <3>2
  <2>3. 0..n \subseteq S
    <3> HIDE DEF S
    <3> QED BY <1>1, <2>1, <2>2, UpTo
  <2> QED BY <2>3
<1> HIDE DEF g
<1> QED BY <1>7, <1>8, <1>9 DEF n

LEMMA TotalType == ASSUME NEW s \in Seq(Nat) PROVE Total(s) \in Nat
<1>1. PICK g \in [0..Len(s) -> Nat] : g[Len(s)] = Total(s)
  BY TotalSteps
<1> QED BY <1>1

\* Whatever adds up the elements one after the other arrives at the sum.
LEMMA TotalIs ==
    ASSUME NEW s \in Seq(Nat), NEW h, h[0] = 0,
           \A k \in 1..Len(s) : h[k] = h[k-1] + s[k]
    PROVE  h[Len(s)] = Total(s)
<1>1. PICK g \in [0..Len(s) -> Nat] :
          /\ g[0] = 0 /\ g[Len(s)] = Total(s)
          /\ \A k \in 1..Len(s) : g[k] = g[k-1] + s[k]
  BY TotalSteps
<1> DEFINE n == Len(s)
           S == {k \in 0..n : h[k] = g[k]}
<1>2. n \in Nat
  OBVIOUS
<1>3. 0 \in S
  BY <1>1, <1>2
<1>4. ASSUME NEW k \in 0..(n-1), k \in S PROVE k + 1 \in S
  <2>1. k + 1 \in 1..n /\ (k + 1) - 1 = k
    BY <1>2
  <2>2. h[k+1] = h[k] + s[k+1] /\ g[k+1] = g[k] + s[k+1]
    BY <1>1, <2>1
  <2> QED BY <1>2, <1>4, <2>1, <2>2
<1> HIDE DEF S
<1>5. 0..n \subseteq S
  BY <1>2, <1>3, <1>4, UpTo
<1> QED BY <1>1, <1>2, <1>5 DEF S

LEMMA TotalEmpty == Total(<<>>) = 0
<1>1. <<>> \in Seq(Nat) /\ Len(<<>>) = 0
  OBVIOUS
<1>2. PICK g \in [0..0 -> Nat] : g[0] = 0 /\ g[0] = Total(<<>>)
  BY <1>1, TotalSteps
<1> QED BY <1>2

LEMMA TotalAppend ==
    ASSUME NEW s \in Seq(Nat), NEW x \in Nat
    PROVE  Total(Append(s, x)) = Total(s) + x
<1> DEFINE n == Len(s)
           t == Append(s, x)
<1>1. PICK g \in [0..n -> Nat] :
          /\ g[0] = 0 /\ g[n] = Total(s)
          /\ \A k \in 1..n : g[k] = g[k-1] + s[k]
  BY TotalSteps
<1> DEFINE h == [k \in 0..(n+1) |-> IF k = n + 1 THEN g[n] + x ELSE g[k]]
<1>2. t \in Seq(Nat) /\ Len(t) = n + 1 /\ n \in Nat
  OBVIOUS
<1>3. h[0] = 0
  BY <1>1, <1>2
<1>4. ASSUME NEW k \in 1..(n+1) PROVE h[k] = h[k-1] + t[k]
  <2>1. CASE k = n + 1
    <3>1. h[k] = g[n] + x /\ h[k-1] = g[n] /\ t[k] = x
      BY <1>2, <2>1
    <3> QED BY <3>1
  <2>2. CASE k # n + 1
    <3>1. k \in 1..n /\ h[k] = g[k] /\ h[k-1] = g[k-1] /\ t[k] = s[k]
      BY <1>2, <2>2
    <3> QED BY <1>1, <3>1
  <2> QED BY <2>1, <2>2
<1>5. h[n+1] = g[n] + x
  BY <1>2
<1> HIDE DEF h, t, n
<1>6. h[Len(t)] = Total(t)
  BY <1>2, <1>3, <1>4, TotalIs
<1> QED BY <1>1, <1>2, <1>5, <1>6 DEF t

\* Parts of one length.
LEMMA TotalRepeat ==
    ASSUME NEW s \in Seq(Nat), NEW n \in Nat, NEW x \in Nat
    PROVE  /\ s \o [i \in 1..n |-> x] \in Seq(Nat)
           /\ Total(s \o [i \in 1..n |-> x]) = Total(s) + n * x
<1> DEFINE more(k) == s \o [i \in 1..k |-> x]
           S == {k \in 0..n : more(k) \in Seq(Nat) /\ Total(more(k)) = Total(s) + k * x}
<1>1. 0 \in S
  <2>1. [i \in 1..0 |-> x] = <<>>
    OBVIOUS
  <2>2. more(0) = s
    BY <2>1
  <2> QED BY <2>2, TotalType
<1>2. ASSUME NEW k \in 0..(n-1), k \in S PROVE k + 1 \in S
  <2>1. more(k+1) = Append(more(k), x)
    <3>1. [i \in 1..k |-> x] \in Seq(Nat) /\ [i \in 1..(k+1) |-> x] \in Seq(Nat)
      BY SeqDef
    <3>2. [i \in 1..(k+1) |-> x] = Append([i \in 1..k |-> x], x)
      OBVIOUS
    <3> QED BY <3>1, <3>2
  <2>2. more(k) \in Seq(Nat) /\ Total(more(k)) = Total(s) + k * x
    BY <1>2
  <2> HIDE DEF more
  <2>3. more(k+1) \in Seq(Nat) /\ Total(more(k+1)) = Total(more(k)) + x
    <3>1. Append(more(k), x) \in Seq(Nat)
      BY <2>2
    <3>2. Total(Append(more(k), x)) = Total(more(k)) + x
      BY <2>2, TotalAppend
    <3> QED BY <2>1, <3>1, <3>2
  <2>4. (k + 1) * x = k * x + x
    OBVIOUS
  <2> QED BY <2>2, <2>3, <2>4, TotalType
<1> HIDE DEF S
<1>3. 0..n \subseteq S
  BY <1>1, <1>2, UpTo
<1> QED BY <1>3 DEF S

-----------------------------------------------------------------------------
(* Cutting a text into parts. *)

Cuts == [parts : Seq(Nat), current : Nat]
(* No part is longer than a message and the line end it may close with.       *)
Fits(cut) ==
    /\ cut.current <= CharLimit + 1
    /\ \A k \in DOMAIN cut.parts : cut.parts[k] <= CharLimit + 1
(* What of the text is in the cut, line ends included.                        *)
Held(cut) == Total(cut.parts) + cut.current

LEMMA Division ==
    ASSUME NEW a \in Nat, NEW b \in Nat \ {0}
    PROVE  /\ (a \div b) \in Nat
           /\ (a \div b) * b <= a /\ a < (a \div b) * b + b
OBVIOUS

LEMMA Flushing ==
    ASSUME NEW cut \in Cuts,
           NEW flushed, flushed = [parts |-> Append(cut.parts, cut.current), current |-> 0]
    PROVE  flushed \in Cuts /\ Held(flushed) = Held(cut) /\ (Fits(cut) => Fits(flushed))
<1>1. cut.parts \in Seq(Nat) /\ cut.current \in Nat
  BY DEF Cuts
<1>2. flushed.parts = Append(cut.parts, cut.current) /\ flushed.current = 0
  OBVIOUS
<1>3. flushed \in Cuts
  BY <1>1 DEF Cuts
<1>4. Total(flushed.parts) = Total(cut.parts) + cut.current
  BY <1>1, <1>2, TotalAppend
<1>5. Held(flushed) = Held(cut)
  BY <1>1, <1>2, <1>4, TotalType DEF Held
<1>6. Fits(cut) => Fits(flushed)
  <2> SUFFICES ASSUME Fits(cut) PROVE Fits(flushed)
    OBVIOUS
  <2>1. ASSUME NEW k \in DOMAIN flushed.parts PROVE flushed.parts[k] <= CharLimit + 1
    BY <1>1, <1>2 DEF Fits
  <2> QED BY <1>2, <2>1, ReplyAssumption DEF Fits
<1> QED BY <1>3, <1>5, <1>6

\* A line is added whole, with its line end, and no part grows too long.
LEMMA Adding ==
    ASSUME NEW cut \in Cuts, NEW line \in Nat
    PROVE  LET next == WithLine(cut, line)
           IN  /\ next \in Cuts
               /\ Held(next) = Held(cut) + line + 1
               /\ next.current >= 1
               /\ Fits(cut) => Fits(next)
<1> DEFINE over == cut.current > 0 /\ cut.current + line + 1 > CharLimit
           flushed == IF over THEN [parts |-> Append(cut.parts, cut.current), current |-> 0]
                      ELSE cut
           full == IF line > CharLimit THEN (line - 1) \div CharLimit ELSE 0
           next == [parts |-> flushed.parts \o [i \in 1..full |-> CharLimit],
                    current |-> flushed.current + line - full * CharLimit + 1]
<1>1. WithLine(cut, line) = next
  BY DEF WithLine
<1>2. CharLimit \in Nat /\ CharLimit > 0
  BY ReplyAssumption
<1>3. cut.parts \in Seq(Nat) /\ cut.current \in Nat
  BY DEF Cuts
<1>4. flushed \in Cuts /\ Held(flushed) = Held(cut) /\ (Fits(cut) => Fits(flushed))
  <2>1. CASE over
    <3>1. flushed = [parts |-> Append(cut.parts, cut.current), current |-> 0]
      BY <2>1
    <3> HIDE DEF flushed
    <3> QED BY <3>1, Flushing
  <2>2. CASE ~over
    BY <2>2
  <2> QED BY <2>1, <2>2
<1>5. \/ flushed.current = 0
      \/ flushed.current + line + 1 <= CharLimit
  BY <1>2, <1>3
<1>6. flushed.parts \in Seq(Nat) /\ flushed.current \in Nat
  BY <1>4 DEF Cuts
<1> HIDE DEF flushed
<1>7. /\ full \in Nat
      /\ full * CharLimit <= line
      /\ line > CharLimit => full * CharLimit < line /\ line <= full * CharLimit + CharLimit
  <2>1. CASE line > CharLimit
    <3>1. line - 1 \in Nat /\ CharLimit \in Nat \ {0}
      BY <1>2, <2>1
    <3>2. /\ full \in Nat
          /\ full * CharLimit <= line - 1
          /\ line - 1 < full * CharLimit + CharLimit
      BY <2>1, <3>1, Division
    <3>3. full * CharLimit \in Nat
      BY <1>2, <3>2
    <3> HIDE DEF full
    <3> QED BY <1>2, <3>2, <3>3
  <2>2. CASE ~(line > CharLimit)
    <3>1. full = 0
      BY <2>2
    <3> QED BY <1>2, <2>2, <3>1
  <2> QED BY <2>1, <2>2
<1>8. line <= CharLimit => full = 0
  BY <1>2
<1> HIDE DEF full
<1> DEFINE taken == full * CharLimit
<1>9. taken \in Nat /\ (full = 0 => taken = 0)
  BY <1>2, <1>7
<1>10. /\ flushed.parts \o [i \in 1..full |-> CharLimit] \in Seq(Nat)
       /\ Total(flushed.parts \o [i \in 1..full |-> CharLimit]) = Total(flushed.parts) + taken
  BY <1>2, <1>6, <1>7, TotalRepeat
<1>11. /\ next.parts = flushed.parts \o [i \in 1..full |-> CharLimit]
       /\ next.current = flushed.current + line - taken + 1
       /\ next = [parts |-> next.parts, current |-> next.current]
  OBVIOUS
<1>12. ASSUME Fits(flushed), NEW k \in DOMAIN next.parts
       PROVE  next.parts[k] <= CharLimit + 1
  <2>1. [i \in 1..full |-> CharLimit] \in Seq(Nat)
    BY <1>2, <1>7, SeqDef
  <2>2. CASE k \in DOMAIN flushed.parts
    <3>1. next.parts[k] = flushed.parts[k]
      BY <1>6, <1>11, <2>1, <2>2
    <3> QED BY <1>12, <2>2, <3>1 DEF Fits
  <2>3. CASE k \notin DOMAIN flushed.parts
    <3>1. next.parts[k] = CharLimit
      BY <1>6, <1>7, <1>11, <2>1, <2>3
    <3> HIDE DEF next
    <3> QED BY <1>2, <3>1
  <2> QED BY <2>2, <2>3
<1>13. /\ taken <= line
       /\ line > CharLimit => taken < line /\ line <= taken + CharLimit
  BY <1>7
<1> HIDE DEF next, taken
<1>14. next.current \in Nat /\ next.current >= 1 /\ next.current <= CharLimit + 1
  <2>1. CASE line > CharLimit
    <3>1. flushed.current = 0
      BY <1>2, <1>5, <1>6, <2>1
    <3> QED BY <1>2, <1>9, <1>11, <1>13, <2>1, <3>1
  <2>2. CASE line <= CharLimit
    BY <1>2, <1>5, <1>6, <1>8, <1>9, <1>11, <2>2
  <2> QED BY <1>2, <2>1, <2>2
<1>15. next \in Cuts
  BY <1>10, <1>11, <1>14 DEF Cuts
<1>16. Held(next) = Held(cut) + line + 1
  <2>1. Total(flushed.parts) \in Nat
    BY <1>6, TotalType
  <2>2. Held(next) = Total(flushed.parts) + taken + (flushed.current + line - taken + 1)
    BY <1>10, <1>11 DEF Held
  <2>3. Held(flushed) = Total(flushed.parts) + flushed.current
    BY DEF Held
  <2> QED BY <1>4, <1>6, <1>9, <2>1, <2>2, <2>3
<1>17. Fits(cut) => Fits(next)
  BY <1>4, <1>12, <1>14 DEF Fits
<1> QED BY <1>1, <1>14, <1>15, <1>16, <1>17

\* The text is cut line by line.
LEMMA CutSteps ==
    ASSUME NEW text \in Seq(Nat)
    PROVE  \E g :
              /\ g[0] = [parts |-> <<>>, current |-> 0]
              /\ g[Len(text)] = FoldLeft(WithLine, [parts |-> <<>>, current |-> 0], text)
              /\ \A k \in 1..Len(text) : g[k] = WithLine(g[k-1], text[k])
<1> DEFINE n == Len(text)
           none == [parts |-> <<>>, current |-> 0]
           F == [vi \in Cuts \X (1..n) |-> WithLine(vi[1], text[vi[2]])]
           Solves(it) == it = [x \in SUBSET DOMAIN text |->
               IF x = {} THEN none ELSE WithLine(it[x \ {Max(x)}], text[Max(x)])]
           cuts == CHOOSE it : Solves(it)
           g == [k \in 0..n |-> cuts[1..k]]
<1>1. n \in Nat /\ DOMAIN text = 1..n /\ \A i \in 1..n : text[i] \in Nat
  OBVIOUS
<1>2. none \in Cuts
  BY DEF Cuts
<1>3. F \in [Cuts \X (1..n) -> Cuts]
  <2> SUFFICES ASSUME NEW vi \in Cuts \X (1..n) PROVE WithLine(vi[1], text[vi[2]]) \in Cuts
    OBVIOUS
  <2>1. vi[1] \in Cuts /\ text[vi[2]] \in Nat
    BY <1>1
  <2> QED BY <2>1, Adding
<1> HIDE DEF n, F, none
<1>4. PICK it \in [SUBSET (1..n) -> Cuts] : Iterates(it, n, none, F)
  BY <1>1, <1>2, <1>3, FoldExists
<1>5. Solves(it)
  <2> SUFFICES ASSUME NEW x \in SUBSET (1..n)
               PROVE  it[x] = IF x = {} THEN none
                              ELSE WithLine(it[x \ {Max(x)}], text[Max(x)])
    BY <1>1
  <2>1. CASE x = {}
    BY <1>4, <2>1 DEF Iterates
  <2>2. CASE x # {}
    <3>1. Max(x) \in 1..n
      BY <1>1, <2>2, MaxIsMember
    <3>2. <<it[x \ {Max(x)}], Max(x)>> \in Cuts \X (1..n)
      BY <3>1
    <3>3. it[x] = F[<<it[x \ {Max(x)}], Max(x)>>]
      BY <1>4, <2>2 DEF Iterates
    <3> QED BY <2>2, <3>2, <3>3 DEF F
  <2> QED BY <2>1, <2>2
<1>6. Solves(cuts)
  <2> HIDE DEF Solves
  <2> QED BY <1>5
<1> HIDE DEF cuts
<1>7. cuts[{}] = none
  BY <1>1, <1>6
<1>8. ASSUME NEW k \in 1..n PROVE cuts[1..k] = WithLine(cuts[1..(k-1)], text[k])
  <2>1. 1..k \in SUBSET (1..n) /\ k \in Nat \ {0}
    BY <1>1
  <2>2. 1..k # {} /\ Max(1..k) = k /\ (1..k) \ {k} = 1..(k-1)
    BY <2>1, FirstPlaces
  <2> QED BY <1>1, <1>6, <2>1, <2>2
<1>9. g[0] = none /\ \A k \in 1..n : g[k] = WithLine(g[k-1], text[k])
  <2>1. 1..0 = {}
    OBVIOUS
  <2> QED BY <1>1, <1>7, <1>8, <2>1
<1>10. g[n] = FoldLeft(WithLine, none, text)
  BY <1>1 DEF FoldLeft, MapThenFoldSet, cuts
<1> HIDE DEF g
<1> QED BY <1>9, <1>10 DEF n, none

\* chunk_text loses nothing: the parts add up to the text, and none is longer
\* than the limit and the line end it may close with.
THEOREM CutKeeps ==
    ASSUME NEW text \in Seq(Nat) \ {<<>>}
    PROVE  /\ Cut(text) \in Seq(Nat) \ {<<>>}
           /\ Total(Cut(text)) = Size(text)
           /\ \A k \in DOMAIN Cut(text) : Cut(text)[k] <= CharLimit + 1
<1> DEFINE n == Len(text)
<1>1. text \in Seq(Nat) /\ n \in Nat /\ n >= 1 /\ CharLimit \in Nat
  BY ReplyAssumption, EmptySeq
<1>2. Total(text) \in Nat /\ Size(text) \in Nat
  BY <1>1, TotalType DEF Size
<1>3. CASE Size(text) <= CharLimit
  <2>1. Cut(text) = <<Size(text)>> /\ Cut(text) = Append(<<>>, Size(text))
    BY <1>3 DEF Cut
  <2>2. Total(Cut(text)) = Size(text)
    <3> DEFINE z == Size(text)
    <3>1. z \in Nat /\ <<>> \in Seq(Nat) /\ Cut(text) = Append(<<>>, z)
      BY <1>2, <2>1
    <3> HIDE DEF z
    <3>2. Total(Append(<<>>, z)) = Total(<<>>) + z
      BY <3>1, TotalAppend
    <3> QED BY <3>1, <3>2, TotalEmpty DEF z
  <2> QED BY <1>1, <1>2, <1>3, <2>1, <2>2
<1>4. CASE Size(text) > CharLimit
  <2>1. PICK g : /\ g[0] = [parts |-> <<>>, current |-> 0]
                 /\ g[n] = FoldLeft(WithLine, [parts |-> <<>>, current |-> 0], text)
                 /\ \A k \in 1..n : g[k] = WithLine(g[k-1], text[k])
    BY <1>1, CutSteps
  <2>2. PICK sum \in [0..n -> Nat] :
            /\ sum[0] = 0 /\ sum[n] = Total(text)
            /\ \A k \in 1..n : sum[k] = sum[k-1] + text[k]
    BY <1>1, TotalSteps
  <2> HIDE DEF n
  <2> DEFINE Good(k) == /\ g[k] \in Cuts /\ Fits(g[k])
                        /\ Held(g[k]) = sum[k] + k
                        /\ k > 0 => g[k].current >= 1
             S == {k \in 0..n : Good(k)}
  <2>3. 0 \in S
    <3>1. g[0] \in Cuts /\ g[0].parts = <<>> /\ g[0].current = 0
      BY <2>1 DEF Cuts
    <3>2. Fits(g[0]) /\ Held(g[0]) = 0
      BY <1>1, <3>1, TotalEmpty DEF Fits, Held
    <3> QED BY <1>1, <2>2, <3>1, <3>2
  <2>4. ASSUME NEW k \in 0..(n-1), k \in S PROVE k + 1 \in S
    <3>1. k + 1 \in 1..n /\ (k + 1) - 1 = k /\ text[k+1] \in Nat /\ k \in 0..n
      BY <1>1 DEF n
    <3>2. g[k+1] = WithLine(g[k], text[k+1]) /\ sum[k+1] = sum[k] + text[k+1]
      BY <2>1, <2>2, <3>1
    <3>3. g[k] \in Cuts /\ Fits(g[k]) /\ Held(g[k]) = sum[k] + k
      BY <2>4
    <3>4. /\ g[k+1] \in Cuts /\ Fits(g[k+1]) /\ g[k+1].current >= 1
          /\ Held(g[k+1]) = Held(g[k]) + text[k+1] + 1
      BY <3>1, <3>2, <3>3, Adding
    <3>5. sum[k] \in Nat /\ Held(g[k+1]) = sum[k+1] + (k + 1)
      <4> DEFINE x == text[k+1]
                 before == sum[k]
      <4>1. x \in Nat /\ before \in Nat /\ k \in Nat
        BY <1>1, <2>2, <3>1
      <4>2. Held(g[k+1]) = (before + k) + x + 1 /\ sum[k+1] = before + x
        BY <3>2, <3>3, <3>4
      <4> HIDE DEF x, before
      <4>3. Held(g[k+1]) = sum[k+1] + (k + 1)
        BY <4>1, <4>2
      <4> QED BY <4>1, <4>3 DEF before
    <3>6. Good(k+1)
      BY <3>4, <3>5
    <3> HIDE DEF Good
    <3> QED BY <1>1, <3>1, <3>6
  <2>5. Good(n)
    <3> HIDE DEF Good
    <3> HIDE DEF S
    <3>1. 0..n \subseteq S
      BY <1>1, <2>3, <2>4, UpTo
    <3> QED BY <1>1, <3>1 DEF S
  <2> DEFINE cut == g[n]
  <2>6. /\ cut.parts \in Seq(Nat) /\ cut.current \in Nat /\ cut.current >= 1
        /\ cut.current <= CharLimit + 1
        /\ \A k \in DOMAIN cut.parts : cut.parts[k] <= CharLimit + 1
        /\ Total(cut.parts) + cut.current = Total(text) + n
    BY <1>1, <2>2, <2>5 DEF Cuts, Fits, Held
  <2>7. Cut(text) = Append(cut.parts, cut.current - 1)
    BY <1>2, <1>1, <1>4, <2>1 DEF Cut
  <2> DEFINE parts == cut.parts
             last == cut.current - 1
  <2>8. /\ parts \in Seq(Nat) /\ last \in Nat /\ last <= CharLimit + 1
        /\ \A k \in DOMAIN parts : parts[k] <= CharLimit + 1
        /\ Total(parts) + last + 1 = Total(text) + n
        /\ Cut(text) = Append(parts, last)
    <3> HIDE DEF cut
    <3>1. cut.current - 1 \in Nat /\ cut.current - 1 <= CharLimit + 1
      BY <1>1, <2>6
    <3>2. Total(cut.parts) \in Nat
      BY <2>6, TotalType
    <3> QED BY <1>1, <1>2, <2>6, <2>7, <3>1, <3>2
  <2> HIDE DEF parts, last
  <2>9. Total(Cut(text)) = Size(text)
    <3>1. Total(Append(parts, last)) = Total(parts) + last
      BY <2>8, TotalAppend
    <3>2. Total(parts) \in Nat
      BY <2>8, TotalType
    <3>3. Size(text) = Total(text) + n - 1
      BY DEF Size, n
    <3>4. last \in Nat /\ Total(parts) + last + 1 = Total(text) + n
      BY <2>8
    <3>5. Total(parts) + last = Size(text)
      BY <1>1, <1>2, <3>2, <3>3, <3>4
    <3> QED BY <2>8, <3>1, <3>5
  <2>10. \A k \in DOMAIN Append(parts, last) : Append(parts, last)[k] <= CharLimit + 1
    BY <2>8
  <2>11. Append(parts, last) \in Seq(Nat) /\ Append(parts, last) # <<>>
    BY <2>8
  <2> QED BY <2>8, <2>9, <2>10, <2>11
<1> QED BY <1>1, <1>2, <1>3, <1>4

-----------------------------------------------------------------------------
(* Sending: what a reply in its chat rests on.                                *)

Stages == {"start", "spawn", "running", "heartbeat", "reader", "answer", "mirror",
           "media", "done"}
Kinds == Events \cup {"answer", "mirror of sent", "mirror of failed", "warning"}
Texts == Seq(Nat) \ {<<>>}
Reply == [of : Kinds, chat : Chats, text : Texts, parts : Texts,
          outcome : {"queued", "sent", "failed"}]
Posts == [reply : Nat, part : Nat, size : Nat]
Sendings == [reply : Nat, try : Nat, part : Nat]

SendTypes ==
    /\ replies \in Seq(Reply)
    /\ sending \in [Threads -> Sendings]
    /\ posts \in [Chats -> Seq(Posts)]

PartsAreCut == \A i \in DOMAIN replies : replies[i].parts = Cut(replies[i].text)

(* Who sends, sends a reply of its own that is not over.                      *)
SendsItsOwn ==
    \A t \in Threads : ~Free(t) =>
        LET s == sending[t]
        IN  /\ s.reply \in DOMAIN replies /\ replies[s.reply].outcome = "queued"
            /\ s.part \in 1..Len(replies[s.reply].parts)
            /\ \A u \in Threads : sending[u].reply = s.reply => u = t

(* The parts before the one a thread is at stand in the chat.                 *)
SendersStand ==
    \A t \in Threads : ~Free(t) =>
        LET s == sending[t]
        IN  \E f \in 1..(Len(posts[replies[s.reply].chat]) + 1) :
                StandsFrom(s.reply, s.part - 1, f)

PostsAreReplies ==
    \A c \in Chats : \A k \in DOMAIN posts[c] : posts[c][k].reply \in DOMAIN replies

SentStand ==
    \A i \in DOMAIN replies : replies[i].outcome = "sent" =>
        \E f \in DOMAIN posts[replies[i].chat] : StandsFrom(i, Len(replies[i].parts), f)

SendInv ==
    /\ SendTypes /\ PartsAreCut /\ SendsItsOwn /\ SendersStand /\ PostsAreReplies /\ SentStand

(* What StandsFrom says of the posts of a chat and the parts of a reply.      *)
Stand(shown, i, parts, n, f) ==
    LET its == {k \in DOMAIN shown : k >= f /\ shown[k].reply = i}
    IN  /\ {shown[k].part : k \in its} = 1..n
        /\ \A j, k \in its : j < k => shown[j].part < shown[k].part
        /\ \A k \in its : shown[k].size = Posted(parts, shown[k].part)

\* A post of another reply leaves standing what stands.
LEMMA StandStays ==
    ASSUME NEW shown \in Seq(Posts), NEW i, NEW parts, NEW n, NEW f \in Nat,
           NEW post \in Posts, post.reply # i, Stand(shown, i, parts, n, f)
    PROVE  Stand(Append(shown, post), i, parts, n, f)
<1> DEFINE more == Append(shown, post)
           Its(s) == {k \in DOMAIN s : k >= f /\ s[k].reply = i}
<1>1. /\ more \in Seq(Posts) /\ DOMAIN more = 1..(Len(shown) + 1)
      /\ DOMAIN shown = 1..Len(shown) /\ Len(shown) \in Nat
      /\ more[Len(shown) + 1] = post
      /\ \A k \in DOMAIN shown : more[k] = shown[k]
  OBVIOUS
<1> HIDE DEF more
<1>2. Its(more) = Its(shown)
  BY <1>1
<1>3. \A k \in Its(shown) : more[k] = shown[k]
  BY <1>1
<1>4. {more[k].part : k \in Its(more)} = {shown[k].part : k \in Its(shown)}
  BY <1>2, <1>3
<1> HIDE DEF Its
<1>5. /\ {more[k].part : k \in Its(more)} = 1..n
      /\ \A j, k \in Its(more) : j < k => more[j].part < more[k].part
      /\ \A k \in Its(more) : more[k].size = Posted(parts, more[k].part)
  BY <1>2, <1>3, <1>4 DEF Stand, Its
<1> QED BY <1>5 DEF Stand, Its, more

\* The next part of a reply stands with those before it.
LEMMA StandGrows ==
    ASSUME NEW shown \in Seq(Posts), NEW i, NEW parts, NEW n \in Nat,
           NEW f \in 1..(Len(shown) + 1),
           NEW post \in Posts, post.reply = i, post.part = n + 1, post.size = Posted(parts, n + 1),
           Stand(shown, i, parts, n, f)
    PROVE  Stand(Append(shown, post), i, parts, n + 1, f)
<1> DEFINE more == Append(shown, post)
           last == Len(shown) + 1
           Its(s) == {k \in DOMAIN s : k >= f /\ s[k].reply = i}
<1>1. /\ DOMAIN more = 1..last
      /\ DOMAIN shown = 1..Len(shown) /\ Len(shown) \in Nat
      /\ more[last] = post
      /\ \A k \in DOMAIN shown : more[k] = shown[k]
  OBVIOUS
<1> HIDE DEF more
<1>2. Its(more) = Its(shown) \cup {last}
  BY <1>1
<1>3. \A k \in Its(shown) : more[k] = shown[k] /\ k < last /\ k \in Nat
  BY <1>1
<1>4. /\ {shown[k].part : k \in Its(shown)} = 1..n
      /\ \A j, k \in Its(shown) : j < k => shown[j].part < shown[k].part
      /\ \A k \in Its(shown) : shown[k].size = Posted(parts, shown[k].part)
  BY DEF Stand
<1>5. last \in Nat
  BY <1>1
<1> HIDE DEF Its, last
<1>6. {more[k].part : k \in Its(more)} = 1..(n+1)
  <2>1. {more[k].part : k \in Its(more)} = {shown[k].part : k \in Its(shown)} \cup {n + 1}
    BY <1>1, <1>2, <1>3
  <2>2. 1..(n+1) = (1..n) \cup {n + 1}
    OBVIOUS
  <2> QED BY <1>4, <2>1, <2>2
<1>7. ASSUME NEW j \in Its(more), NEW k \in Its(more), j < k
      PROVE  more[j].part < more[k].part
  <2>1. j \in Its(shown)
    BY <1>2, <1>3, <1>5, <1>7
  <2>2. CASE k \in Its(shown)
    BY <1>3, <1>4, <1>7, <2>1, <2>2
  <2>3. CASE k = last
    <3>1. shown[j].part \in 1..n
      BY <1>4, <2>1
    <3>2. more[j].part = shown[j].part /\ more[k].part = n + 1
      BY <1>1, <1>3, <2>1, <2>3
    <3> QED BY <3>1, <3>2
  <2> QED BY <1>2, <2>2, <2>3
<1>8. \A k \in Its(more) : more[k].size = Posted(parts, more[k].part)
  BY <1>1, <1>2, <1>3, <1>4
<1> QED BY <1>6, <1>7, <1>8 DEF Stand, Its, more

\* Of nothing, nothing need stand.
LEMMA NothingStands ==
    ASSUME NEW shown \in Seq(Posts), NEW i, NEW parts
    PROVE  Stand(shown, i, parts, 0, Len(shown) + 1)
<1>1. {k \in DOMAIN shown : k >= Len(shown) + 1 /\ shown[k].reply = i} = {}
  OBVIOUS
<1>2. 1..0 = {}
  OBVIOUS
<1> QED BY <1>1, <1>2 DEF Stand

LEMMA StandIs ==
    ASSUME NEW i, NEW n, NEW f
    PROVE  StandsFrom(i, n, f) = Stand(posts[replies[i].chat], i, replies[i].parts, n, f)
BY DEF StandsFrom, Stand

(* The replies and threads once a reply has begun.                            *)
Begun(t, of) ==
    LET new == Len(replies) + 1
    IN  /\ DOMAIN replies' = DOMAIN replies \cup {new}
        /\ \A i \in DOMAIN replies : replies'[i] = replies[i]
        /\ replies'[new].of = of
        /\ sending'[t].reply = new
        /\ \A u \in Threads : u # t => sending'[u] = sending[u]
        /\ posts' = posts

\* A reply begins: nothing of it stands yet.
LEMMA StartingSends ==
    ASSUME SendInv, NEW t \in Threads, Free(t), NEW of \in Kinds, NEW chat \in Chats,
           NEW text \in Texts, StartsReply(t, of, chat, text)
    PROVE  SendInv' /\ Begun(t, of)
<1> DEFINE new == Len(replies) + 1
           reply == [of |-> of, chat |-> chat, text |-> text, parts |-> Cut(text),
                     outcome |-> "queued"]
<1>1. /\ replies \in Seq(Reply) /\ sending \in [Threads -> Sendings]
      /\ posts \in [Chats -> Seq(Posts)]
  BY DEF SendInv, SendTypes
<1>2. Cut(text) \in Texts
  BY CutKeeps DEF Texts
<1>3. reply \in Reply /\ reply.outcome = "queued" /\ reply.parts = Cut(reply.text)
  BY <1>2 DEF Reply
<1>4. /\ replies' = Append(replies, reply)
      /\ sending' = [sending EXCEPT ![t] = [reply |-> new, try |-> 1, part |-> 1]]
      /\ posts' = posts
  BY DEF StartsReply
<1> HIDE DEF reply
<1>5. /\ replies' \in Seq(Reply)
      /\ Len(replies) \in Nat /\ DOMAIN replies = 1..Len(replies)
      /\ DOMAIN replies' = DOMAIN replies \cup {new} /\ new \notin DOMAIN replies
      /\ replies'[new] = reply
      /\ \A i \in DOMAIN replies : replies'[i] = replies[i]
  BY <1>1, <1>3, <1>4
<1>6. new \in Nat \ {0}
  BY <1>5
<1> HIDE DEF new
<1>7. /\ sending' \in [Threads -> Sendings]
      /\ sending'[t] = [reply |-> new, try |-> 1, part |-> 1]
      /\ \A u \in Threads : u # t => sending'[u] = sending[u]
  BY <1>1, <1>4, <1>6 DEF Sendings
<1>8. SendTypes'
  BY <1>1, <1>4, <1>5, <1>7 DEF SendTypes
<1>9. PartsAreCut'
  BY <1>3, <1>5 DEF SendInv, PartsAreCut
<1>10. \A u \in Threads : u # t => sending'[u].reply # new
  <2> SUFFICES ASSUME NEW u \in Threads, u # t PROVE sending[u].reply # new
    BY <1>7
  <2>1. CASE Free(u)
    BY <1>6, <2>1 DEF Free
  <2>2. CASE ~Free(u)
    BY <1>5, <2>2 DEF SendInv, SendsItsOwn
  <2> QED BY <2>1, <2>2
<1>11. SendsItsOwn'
  <2> SUFFICES ASSUME NEW u \in Threads, sending'[u].reply # 0
               PROVE  /\ sending'[u].reply \in DOMAIN replies'
                      /\ replies'[sending'[u].reply].outcome = "queued"
                      /\ sending'[u].part \in 1..Len(replies'[sending'[u].reply].parts)
                      /\ \A v \in Threads : sending'[v].reply = sending'[u].reply => v = u
    BY DEF SendsItsOwn, Free
  <2>1. CASE u = t
    <3>1. Len(Cut(text)) >= 1
      BY <1>2, EmptySeq DEF Texts
    <3>2. reply.parts = Cut(text)
      BY DEF reply
    <3>3. sending'[u].reply = new /\ sending'[u].part = 1
      BY <1>7, <2>1
    <3>4. Len(Cut(text)) \in Nat
      BY <1>2 DEF Texts
    <3> QED BY <1>3, <1>5, <1>10, <2>1, <3>1, <3>2, <3>3, <3>4
  <2>2. CASE u # t
    <3>1. /\ sending'[u] = sending[u] /\ ~Free(u)
          /\ sending[u].reply \in DOMAIN replies /\ sending[u].reply # new
      BY <1>5, <1>7, <2>2 DEF SendInv, SendsItsOwn, Free
    <3>2. \A v \in Threads : sending'[v].reply = sending[u].reply => v = u
      BY <1>7, <3>1 DEF SendInv, SendsItsOwn
    <3> QED BY <1>5, <3>1, <3>2 DEF SendInv, SendsItsOwn
  <2> QED BY <2>1, <2>2
<1>12. ASSUME NEW i \in DOMAIN replies, NEW n, NEW f, StandsFrom(i, n, f)
       PROVE  StandsFrom(i, n, f)'
  BY <1>4, <1>5, <1>12 DEF StandsFrom
<1>13. SendersStand'
  <2> SUFFICES ASSUME NEW u \in Threads, sending'[u].reply # 0
               PROVE  \E f \in 1..(Len(posts'[replies'[sending'[u].reply].chat]) + 1) :
                          StandsFrom(sending[u].reply, sending[u].part - 1, f)'
    BY DEF SendersStand, Free
  <2>1. CASE u = t
    <3>0. PICK f : f = Len(posts[chat]) + 1
      OBVIOUS
    <3>1. /\ sending'[u].reply = new /\ sending'[u].part - 1 = 0
          /\ replies'[new].chat = chat
      BY <1>5, <1>7, <2>1 DEF reply
    <3>2. posts[chat] \in Seq(Posts)
      BY <1>1
    <3>3. Stand(posts[chat], new, replies'[new].parts, 0, f)
      BY <3>0, <3>2, NothingStands
    <3>4. StandsFrom(sending[u].reply, sending[u].part - 1, f)'
      <4>1. StandsFrom(sending[u].reply, sending[u].part - 1, f)'
               = Stand(posts'[replies'[sending'[u].reply].chat], sending'[u].reply,
                       replies'[sending'[u].reply].parts, sending'[u].part - 1, f)
        BY DEF StandsFrom, Stand
      <4> QED BY <1>4, <3>1, <3>3, <4>1
    <3>5. f \in 1..(Len(posts[chat]) + 1)
      BY <3>0, <3>2
    <3> QED BY <1>4, <3>1, <3>4, <3>5
  <2>2. CASE u # t
    <3>1. /\ sending'[u] = sending[u] /\ ~Free(u)
          /\ sending[u].reply \in DOMAIN replies
      BY <1>7, <2>2 DEF SendInv, SendsItsOwn, Free
    <3>2. PICK i \in DOMAIN replies, n \in Int, f \in 1..(Len(posts[replies[sending[u].reply].chat]) + 1) :
              /\ i = sending[u].reply /\ n = sending[u].part - 1
              /\ StandsFrom(i, n, f)
      <4>1. PICK f \in 1..(Len(posts[replies[sending[u].reply].chat]) + 1) :
                StandsFrom(sending[u].reply, sending[u].part - 1, f)
        BY <3>1 DEF SendInv, SendersStand
      <4>2. sending[u] \in Sendings
        BY <1>1
      <4>3. sending[u].part - 1 \in Int
        BY <4>2 DEF Sendings
      <4> QED BY <3>1, <4>1, <4>3
    <3>3. StandsFrom(i, n, f)'
      BY <1>12, <3>2
    <3> QED BY <1>4, <1>5, <3>1, <3>2, <3>3
  <2> QED BY <2>1, <2>2
<1>14. PostsAreReplies'
  BY <1>4, <1>5 DEF SendInv, PostsAreReplies
<1>15. SentStand'
  <2> SUFFICES ASSUME NEW i \in DOMAIN replies', replies'[i].outcome = "sent"
               PROVE  \E f \in DOMAIN posts'[replies'[i].chat] :
                          StandsFrom(i, Len(replies[i].parts), f)'
    BY DEF SentStand
  <2>1. i \in DOMAIN replies /\ replies'[i] = replies[i]
    BY <1>3, <1>5
  <2>2. PICK n \in Int, f \in DOMAIN posts[replies[i].chat] :
            n = Len(replies[i].parts) /\ StandsFrom(i, n, f)
    <3>1. replies[i].parts \in Texts
      <4>1. replies[i] \in Reply
        BY <1>1, <2>1
      <4> QED BY <4>1 DEF Reply
    <3>2. Len(replies[i].parts) \in Int
      BY <3>1 DEF Texts
    <3> QED BY <2>1, <3>2 DEF SendInv, SentStand
  <2>3. StandsFrom(i, n, f)'
    BY <1>12, <2>1, <2>2
  <2> QED BY <1>4, <2>1, <2>2, <2>3
<1>16. SendInv'
  BY <1>8, <1>9, <1>11, <1>13, <1>14, <1>15 DEF SendInv
<1>17. replies'[new].of = of
  BY <1>5 DEF reply
<1> QED BY <1>4, <1>5, <1>7, <1>16, <1>17 DEF new, Begun

(* What is posted of a part has a length, whatever its heading.               *)
LEMMA PostedIs ==
    ASSUME NEW parts \in Seq(Nat), NEW k \in 1..Len(parts)
    PROVE  Posted(parts, k) \in Nat
<1>1. ASSUME NEW n PROVE Digits(n) \in Nat
  <2> DEFINE tens == {i \in 1..9 : 10^i <= n}
  <2>1. IsFiniteSet(1..9)
    <3>1. 1 \in Int /\ 9 \in Int
      OBVIOUS
    <3> QED BY Zenon, <3>1, FS_Interval
  <2>2. tens \subseteq 1..9
    OBVIOUS
  <2> HIDE DEF tens
  <2>3. Cardinality(tens) \in Nat
    BY <2>1, <2>2, FS_Subset, FS_CardinalityType
  <2> QED BY <2>3 DEF Digits, tens
<1>2. parts[k] \in Nat
  OBVIOUS
<1> QED BY <1>1, <1>2 DEF Posted

\* What a thread at a part of its reply has in hand.
LEMMA InHand ==
    ASSUME SendInv, NEW t \in Threads, ~Free(t)
    PROVE  \E i \in DOMAIN replies, q \in Nat, f \in Nat :
              LET r == replies[i]
              IN  /\ i = sending[t].reply /\ q + 1 = sending[t].part
                  /\ r \in Reply /\ r.outcome = "queued"
                  /\ q + 1 \in 1..Len(r.parts) /\ Posted(r.parts, q + 1) \in Nat
                  /\ Len(r.parts) \in Nat /\ r.chat \in Chats
                  /\ posts[r.chat] \in Seq(Posts)
                  /\ f \in 1..(Len(posts[r.chat]) + 1)
                  /\ Stand(posts[r.chat], i, r.parts, q, f)
<1>1. /\ replies \in Seq(Reply) /\ sending \in [Threads -> Sendings]
      /\ posts \in [Chats -> Seq(Posts)]
  BY DEF SendInv, SendTypes
<1>2. /\ sending[t].reply \in DOMAIN replies
      /\ replies[sending[t].reply].outcome = "queued"
      /\ sending[t].part \in 1..Len(replies[sending[t].reply].parts)
  BY DEF SendInv, SendsItsOwn
<1>3. PICK i \in DOMAIN replies : i = sending[t].reply
  BY <1>2
<1>4. replies[i] \in Reply
  BY <1>1
<1>5. /\ replies[i].parts \in Seq(Nat) /\ Len(replies[i].parts) \in Nat
      /\ replies[i].chat \in Chats
  BY <1>4 DEF Reply, Texts
<1>6. PICK q \in Nat : q = sending[t].part - 1
  BY <1>2, <1>3, <1>5
<1>7. q + 1 = sending[t].part /\ q + 1 \in 1..Len(replies[i].parts)
  BY <1>2, <1>3, <1>5, <1>6
<1>8. Posted(replies[i].parts, q + 1) \in Nat
  BY <1>5, <1>7, PostedIs
<1>9. posts[replies[i].chat] \in Seq(Posts)
  BY <1>1, <1>5
<1>10. PICK f \in 1..(Len(posts[replies[sending[t].reply].chat]) + 1) :
           StandsFrom(sending[t].reply, sending[t].part - 1, f)
  BY DEF SendInv, SendersStand
<1>11. f \in Nat /\ f \in 1..(Len(posts[replies[i].chat]) + 1)
  BY <1>3, <1>9, <1>10
<1>12. Stand(posts[replies[i].chat], i, replies[i].parts, q, f)
  BY <1>3, <1>6, <1>10, StandIs
<1> QED BY <1>2, <1>3, <1>4, <1>5, <1>7, <1>8, <1>9, <1>11, <1>12

\* A post that a thread adds: what stood of other replies still does.
LEMMA Posting ==
    ASSUME SendInv, NEW t \in Threads, ~Free(t), posts' \in {posts, Shown(t)}
    PROVE  /\ posts' \in [Chats -> Seq(Posts)]
           /\ \A c \in Chats : Len(posts[c]) \in Nat /\ Len(posts[c]) <= Len(posts'[c])
           /\ \A c \in Chats : \A k \in DOMAIN posts'[c] :
                  posts'[c][k].reply \in DOMAIN replies
           /\ \A i \in DOMAIN replies, n, f \in Nat :
                  i # sending[t].reply /\ StandsFrom(i, n, f)
                  => Stand(posts'[replies[i].chat], i, replies[i].parts, n, f)
<1>1. PICK own \in DOMAIN replies, q \in Nat, f0 \in Nat :
          LET r == replies[own]
          IN  /\ own = sending[t].reply /\ q + 1 = sending[t].part
              /\ Posted(r.parts, q + 1) \in Nat /\ r.chat \in Chats
  BY InHand
<1>2. posts \in [Chats -> Seq(Posts)] /\ own \in Nat
  BY DEF SendInv, SendTypes
<1>3. CASE posts' = posts
  <2>1. \A c \in Chats : Len(posts[c]) \in Nat
    BY <1>2
  <2> QED BY <1>2, <1>3, <2>1, StandIs DEF SendInv, PostsAreReplies
<1>4. CASE posts' = Shown(t)
  <2> DEFINE chat == replies[own].chat
             post == [reply |-> own, part |-> q + 1, size |-> Posted(replies[own].parts, q + 1)]
  <2>1. posts' = [posts EXCEPT ![chat] = Append(@, post)]
    BY <1>1, <1>4 DEF Shown
  <2>2. post \in Posts /\ chat \in Chats /\ post.reply = own
    BY <1>1, <1>2 DEF Posts
  <2> HIDE DEF post, chat
  <2>3. /\ posts' \in [Chats -> Seq(Posts)]
        /\ posts'[chat] = Append(posts[chat], post)
        /\ \A c \in Chats : c # chat => posts'[c] = posts[c]
    BY <1>2, <2>1, <2>2
  <2>4. /\ posts[chat] \in Seq(Posts)
        /\ DOMAIN posts'[chat] = DOMAIN posts[chat] \cup {Len(posts[chat]) + 1}
        /\ posts'[chat][Len(posts[chat]) + 1] = post
        /\ \A k \in DOMAIN posts[chat] : posts'[chat][k] = posts[chat][k]
    BY <1>2, <2>2, <2>3
  <2>5. ASSUME NEW c \in Chats
        PROVE  Len(posts[c]) \in Nat /\ Len(posts[c]) <= Len(posts'[c])
    <3>1. posts[c] \in Seq(Posts) /\ Len(posts[c]) \in Nat
      BY <1>2
    <3>2. CASE c = chat
      <4>1. Len(posts'[chat]) = Len(posts[chat]) + 1
        BY <2>2, <2>3, <2>4
      <4> QED BY <3>1, <3>2, <4>1
    <3>3. CASE c # chat
      BY <2>3, <3>1, <3>3
    <3> QED BY <3>2, <3>3
  <2>6. ASSUME NEW c \in Chats, NEW k \in DOMAIN posts'[c]
        PROVE  posts'[c][k].reply \in DOMAIN replies
    <3>1. CASE c = chat /\ k \notin DOMAIN posts[c]
      BY <2>2, <2>4, <2>6, <3>1
    <3>2. CASE c = chat /\ k \in DOMAIN posts[c]
      BY <2>4, <3>2 DEF SendInv, PostsAreReplies
    <3>3. CASE c # chat
      BY <2>3, <2>6, <3>3 DEF SendInv, PostsAreReplies
    <3> QED BY <3>1, <3>2, <3>3
  <2>7. ASSUME NEW i \in DOMAIN replies, NEW n \in Nat, NEW f \in Nat,
               i # own, StandsFrom(i, n, f)
        PROVE  Stand(posts'[replies[i].chat], i, replies[i].parts, n, f)
    <3>1. replies[i] \in Reply
      BY <2>7 DEF SendInv, SendTypes
    <3>2. replies[i].chat \in Chats
      BY <3>1 DEF Reply
    <3>3. Stand(posts[replies[i].chat], i, replies[i].parts, n, f)
      BY <2>7, StandIs
    <3>4. CASE replies[i].chat = chat
      <4>1. Stand(Append(posts[chat], post), i, replies[i].parts, n, f)
        BY <2>2, <2>4, <2>7, <3>3, <3>4, StandStays
      <4> QED BY <2>3, <3>4, <4>1
    <3>5. CASE replies[i].chat # chat
      BY <2>3, <3>2, <3>3, <3>5
    <3> QED BY <3>4, <3>5
  <2> QED BY <1>1, <2>3, <2>5, <2>6, <2>7
<1> QED BY <1>3, <1>4

\* The thread goes on with its reply, at a part before which all parts stand.
LEMMA Continuing ==
    ASSUME SendInv, NEW t \in Threads, ~Free(t), posts' \in {posts, Shown(t)},
           replies' = replies, NEW s \in Sendings, sending' = [sending EXCEPT ![t] = s],
           s.reply = sending[t].reply, s.part \in 1..Len(replies[s.reply].parts),
           NEW f \in 1..(Len(posts'[replies[s.reply].chat]) + 1),
           Stand(posts'[replies[s.reply].chat], s.reply, replies[s.reply].parts, s.part - 1, f)
    PROVE  SendInv'
<1>1. /\ replies \in Seq(Reply) /\ sending \in [Threads -> Sendings]
      /\ posts' \in [Chats -> Seq(Posts)]
  BY Posting DEF SendInv, SendTypes
<1>2. sending' \in [Threads -> Sendings]
  BY <1>1
<1>3. sending'[t] = s /\ \A u \in Threads : u # t => sending'[u] = sending[u]
  BY <1>1
<1>4. \A u \in Threads : sending'[u].reply = sending[u].reply
  BY <1>3
<1>5. SendTypes'
  BY <1>1, <1>2 DEF SendTypes
<1>6. PartsAreCut'
  BY DEF SendInv, PartsAreCut
<1>7. SendsItsOwn'
  <2> SUFFICES ASSUME NEW u \in Threads, sending'[u].reply # 0
               PROVE  /\ sending'[u].reply \in DOMAIN replies
                      /\ replies[sending'[u].reply].outcome = "queued"
                      /\ sending'[u].part \in 1..Len(replies[sending'[u].reply].parts)
                      /\ \A v \in Threads : sending'[v].reply = sending'[u].reply => v = u
    BY DEF SendsItsOwn, Free
  <2>1. /\ sending[u].reply \in DOMAIN replies
        /\ replies[sending[u].reply].outcome = "queued"
        /\ sending[u].part \in 1..Len(replies[sending[u].reply].parts)
        /\ \A v \in Threads : sending[v].reply = sending[u].reply => v = u
    BY <1>4 DEF SendInv, SendsItsOwn, Free
  <2> QED BY <1>3, <1>4, <2>1
<1>8. SendersStand'
  <2> SUFFICES ASSUME NEW u \in Threads, sending'[u].reply # 0
               PROVE  \E g \in 1..(Len(posts'[replies[sending'[u].reply].chat]) + 1) :
                          Stand(posts'[replies[sending'[u].reply].chat], sending'[u].reply,
                                replies[sending'[u].reply].parts, sending'[u].part - 1, g)
    <3> SUFFICES ASSUME NEW u \in Threads, sending'[u].reply # 0
                 PROVE  \E g \in 1..(Len(posts'[replies'[sending'[u].reply].chat]) + 1) :
                            StandsFrom(sending[u].reply, sending[u].part - 1, g)'
      BY DEF SendersStand, Free
    <3>1. ASSUME NEW g
          PROVE  StandsFrom(sending[u].reply, sending[u].part - 1, g)'
                 = Stand(posts'[replies'[sending'[u].reply].chat], sending'[u].reply,
                         replies'[sending'[u].reply].parts, sending'[u].part - 1, g)
      BY DEF StandsFrom, Stand
    <3> QED BY <3>1
  <2>1. CASE u = t
    BY <1>3, <2>1
  <2>2. CASE u # t
    <3>1. ~Free(u) /\ sending'[u] = sending[u]
      BY <1>3, <2>2 DEF Free
    <3>2. PICK i \in DOMAIN replies, q \in Nat, g \in Nat :
              LET r == replies[i]
              IN  /\ i = sending[u].reply /\ q + 1 = sending[u].part
                  /\ r.chat \in Chats /\ posts[r.chat] \in Seq(Posts)
                  /\ g \in 1..(Len(posts[r.chat]) + 1)
                  /\ Stand(posts[r.chat], i, r.parts, q, g)
      BY <3>1, InHand
    <3>3. i # sending[t].reply
      BY <2>2, <3>1, <3>2 DEF SendInv, SendsItsOwn
    <3>4. Stand(posts'[replies[i].chat], i, replies[i].parts, q, g)
      BY <3>2, <3>3, Posting, StandIs
    <3>5. g \in 1..(Len(posts'[replies[i].chat]) + 1)
      <4>1. /\ Len(posts[replies[i].chat]) \in Nat
            /\ Len(posts[replies[i].chat]) <= Len(posts'[replies[i].chat])
        BY <3>2, Posting
      <4>2. Len(posts'[replies[i].chat]) \in Nat
        BY <1>1, <3>2
      <4> QED BY <3>2, <4>1, <4>2
    <3>6. sending'[u].reply = i /\ sending'[u].part - 1 = q
      BY <3>1, <3>2
    <3> QED BY <3>4, <3>5, <3>6
  <2> QED BY <2>1, <2>2
<1>9. PostsAreReplies'
  BY Posting DEF PostsAreReplies
<1>10. SentStand'
  <2> SUFFICES ASSUME NEW i \in DOMAIN replies, replies[i].outcome = "sent"
               PROVE  \E g \in DOMAIN posts'[replies[i].chat] :
                          Stand(posts'[replies[i].chat], i, replies[i].parts,
                                Len(replies[i].parts), g)
    <3> SUFFICES ASSUME NEW i \in DOMAIN replies, replies[i].outcome = "sent"
                 PROVE  \E g \in DOMAIN posts'[replies[i].chat] :
                            StandsFrom(i, Len(replies[i].parts), g)'
      BY DEF SentStand
    <3>1. ASSUME NEW g
          PROVE  StandsFrom(i, Len(replies[i].parts), g)'
                 = Stand(posts'[replies'[i].chat], i, replies'[i].parts,
                         Len(replies'[i].parts), g)
      BY DEF StandsFrom, Stand
    <3> QED BY <3>1
  <2>1. replies[i] \in Reply
    BY <1>1
  <2>2. replies[i].chat \in Chats /\ Len(replies[i].parts) \in Nat
    BY <2>1 DEF Reply, Texts
  <2>3. PICK g \in DOMAIN posts[replies[i].chat] : StandsFrom(i, Len(replies[i].parts), g)
    BY DEF SendInv, SentStand
  <2>4. i # sending[t].reply
    BY DEF SendInv, SendsItsOwn
  <2>5. posts[replies[i].chat] \in Seq(Posts)
    BY <2>2 DEF SendInv, SendTypes
  <2>6. g \in Nat
    BY <2>3, <2>5
  <2> QED BY <2>2, <2>3, <2>4, <2>6, Posting
<1> QED BY <1>5, <1>6, <1>7, <1>8, <1>9, <1>10 DEF SendInv

\* The reply is over; it is called sent only when it stands whole.
LEMMA Ending ==
    ASSUME SendInv, NEW t \in Threads, ~Free(t), posts' \in {posts, Shown(t)},
           NEW own \in DOMAIN replies, own = sending[t].reply,
           NEW outcome \in {"sent", "failed"}, EndsReply(t, outcome),
           outcome = "sent" =>
               \E f \in DOMAIN posts'[replies[own].chat] :
                   Stand(posts'[replies[own].chat], own, replies[own].parts,
                         Len(replies[own].parts), f)
    PROVE  SendInv'
<1>1. /\ replies \in Seq(Reply) /\ sending \in [Threads -> Sendings]
      /\ posts' \in [Chats -> Seq(Posts)]
  BY Posting DEF SendInv, SendTypes
<1>2. /\ replies' = [replies EXCEPT ![own].outcome = outcome]
      /\ sending' = [sending EXCEPT ![t] = Nothing]
  BY DEF EndsReply
<1>3. /\ sending' \in [Threads -> Sendings] /\ sending'[t].reply = 0
      /\ \A u \in Threads : u # t => sending'[u] = sending[u]
  BY <1>1, <1>2 DEF Nothing, Sendings
<1>4. DOMAIN replies' = DOMAIN replies
  BY <1>2
<1>5. ASSUME NEW i \in DOMAIN replies
      PROVE  /\ replies'[i] \in Reply
             /\ replies'[i].text = replies[i].text /\ replies'[i].parts = replies[i].parts
             /\ replies'[i].chat = replies[i].chat /\ replies[i].chat \in Chats
             /\ replies'[i].outcome = IF i = own THEN outcome ELSE replies[i].outcome
             /\ Len(replies[i].parts) \in Nat
  <2>1. replies[i] \in Reply
    BY <1>1
  <2>2. replies'[i] = IF i = own THEN [replies[i] EXCEPT !.outcome = outcome] ELSE replies[i]
    BY <1>2
  <2>3. Len(replies[i].parts) \in Nat
    BY <2>1 DEF Reply, Texts
  <2>4. [replies[i] EXCEPT !.outcome = outcome] \in Reply
    BY <2>1 DEF Reply
  <2>5. replies[i].chat \in Chats
    BY <2>1 DEF Reply
  <2>6. DOMAIN replies[i] = {"of", "chat", "text", "parts", "outcome"}
    BY <2>1 DEF Reply
  <2> QED BY <2>1, <2>2, <2>3, <2>4, <2>5, <2>6
<1>6. replies' \in Seq(Reply)
  <2>1. Len(replies) \in Nat /\ DOMAIN replies = 1..Len(replies)
    BY <1>1
  <2>2. replies' \in [1..Len(replies) -> Reply]
    BY <1>2, <1>5, <2>1
  <2> QED BY <2>1, <2>2, SeqDef
<1>7. SendTypes'
  BY <1>1, <1>3, <1>6 DEF SendTypes
<1>8. PartsAreCut'
  BY <1>4, <1>5 DEF SendInv, PartsAreCut
<1>9. \A u \in Threads : u # t /\ sending[u].reply # 0 => sending[u].reply # own
  BY DEF SendInv, SendsItsOwn, Free
<1>10. SendsItsOwn'
  <2> SUFFICES ASSUME NEW u \in Threads, sending'[u].reply # 0
               PROVE  /\ sending'[u].reply \in DOMAIN replies'
                      /\ replies'[sending'[u].reply].outcome = "queued"
                      /\ sending'[u].part \in 1..Len(replies'[sending'[u].reply].parts)
                      /\ \A v \in Threads : sending'[v].reply = sending'[u].reply => v = u
    BY DEF SendsItsOwn, Free
  <2>1. u # t /\ sending'[u] = sending[u] /\ sending[u].reply # own
    BY <1>3, <1>9
  <2>2. /\ sending[u].reply \in DOMAIN replies
        /\ replies[sending[u].reply].outcome = "queued"
        /\ sending[u].part \in 1..Len(replies[sending[u].reply].parts)
        /\ \A v \in Threads : sending[v].reply = sending[u].reply => v = u
    BY <2>1 DEF SendInv, SendsItsOwn, Free
  <2>3. \A v \in Threads : sending'[v].reply = sending[u].reply => v = u
    BY <1>3, <2>1, <2>2
  <2> QED BY <1>4, <1>5, <2>1, <2>2, <2>3
<1>11. SendersStand'
  <2> SUFFICES ASSUME NEW u \in Threads, sending'[u].reply # 0
               PROVE  \E g \in 1..(Len(posts'[replies'[sending'[u].reply].chat]) + 1) :
                          StandsFrom(sending[u].reply, sending[u].part - 1, g)'
    BY DEF SendersStand, Free
  <2>1. u # t /\ ~Free(u) /\ sending'[u] = sending[u]
    BY <1>3 DEF Free
  <2>2. PICK i \in DOMAIN replies, q \in Nat, g \in Nat :
            LET r == replies[i]
            IN  /\ i = sending[u].reply /\ q + 1 = sending[u].part
                /\ r.chat \in Chats /\ posts[r.chat] \in Seq(Posts)
                /\ g \in 1..(Len(posts[r.chat]) + 1)
                /\ Stand(posts[r.chat], i, r.parts, q, g)
    BY <2>1, InHand
  <2>3. Stand(posts'[replies[i].chat], i, replies[i].parts, q, g)
    BY <1>9, <2>1, <2>2, Posting, StandIs DEF Free
  <2>4. g \in 1..(Len(posts'[replies[i].chat]) + 1)
    <3>1. /\ Len(posts[replies[i].chat]) \in Nat
          /\ Len(posts[replies[i].chat]) <= Len(posts'[replies[i].chat])
      BY <2>2, Posting
    <3>2. Len(posts'[replies[i].chat]) \in Nat
      BY <1>1, <2>2
    <3> QED BY <2>2, <3>1, <3>2
  <2>5. StandsFrom(sending[u].reply, sending[u].part - 1, g)'
        = Stand(posts'[replies'[sending'[u].reply].chat], sending'[u].reply,
                replies'[sending'[u].reply].parts, sending'[u].part - 1, g)
    BY DEF StandsFrom, Stand
  <2>6. sending'[u].reply = i /\ sending'[u].part - 1 = q
    BY <2>1, <2>2
  <2> QED BY <1>5, <2>3, <2>4, <2>5, <2>6
<1>12. PostsAreReplies'
  BY <1>4, Posting DEF PostsAreReplies
<1>13. SentStand'
  <2> SUFFICES ASSUME NEW i \in DOMAIN replies, replies'[i].outcome = "sent"
               PROVE  \E g \in DOMAIN posts'[replies'[i].chat] :
                          StandsFrom(i, Len(replies[i].parts), g)'
    BY <1>4 DEF SentStand
  <2>1. ASSUME NEW g
        PROVE  StandsFrom(i, Len(replies[i].parts), g)'
               = Stand(posts'[replies'[i].chat], i, replies'[i].parts,
                       Len(replies'[i].parts), g)
    BY DEF StandsFrom, Stand
  <2>2. CASE i = own
    BY <1>5, <2>1, <2>2
  <2>3. CASE i # own
    <3>1. replies[i].outcome = "sent"
      BY <1>5, <2>3
    <3>2. PICK g \in DOMAIN posts[replies[i].chat] : StandsFrom(i, Len(replies[i].parts), g)
      BY <3>1 DEF SendInv, SentStand
    <3>3. posts[replies[i].chat] \in Seq(Posts)
      BY <1>5 DEF SendInv, SendTypes
    <3>4. /\ Len(posts[replies[i].chat]) <= Len(posts'[replies[i].chat])
          /\ posts'[replies[i].chat] \in Seq(Posts)
      BY <1>1, <1>5, Posting
    <3>5. g \in Nat /\ g \in DOMAIN posts'[replies[i].chat]
      BY <3>2, <3>3, <3>4
    <3>6. Stand(posts'[replies[i].chat], i, replies[i].parts, Len(replies[i].parts), g)
      BY <1>5, <2>3, <3>2, <3>5, Posting
    <3> QED BY <1>5, <2>1, <3>5, <3>6
  <2> QED BY <2>2, <2>3
<1> QED BY <1>7, <1>8, <1>10, <1>11, <1>12, <1>13 DEF SendInv

\* What a step of a sending thread leaves of replies, threads and chats.
SendsOn(t) ==
    /\ DOMAIN replies' = DOMAIN replies
    /\ \A i \in DOMAIN replies : replies'[i].of = replies[i].of
    /\ \A u \in Threads : u # t => sending'[u] = sending[u]
    /\ sending'[t].reply \in {0, sending[t].reply}
    /\ posts' \in {posts, Shown(t)}

LEMMA EndsOn ==
    ASSUME SendInv, NEW t \in Threads, NEW outcome, EndsReply(t, outcome),
           posts' \in {posts, Shown(t)}
    PROVE  SendsOn(t)
<1>1. sending \in [Threads -> Sendings]
  BY DEF SendInv, SendTypes
<1>2. sending'[t].reply = 0 /\ \A u \in Threads : u # t => sending'[u] = sending[u]
  BY <1>1 DEF EndsReply, Nothing
<1>3. /\ DOMAIN replies' = DOMAIN replies
      /\ \A i \in DOMAIN replies : replies'[i].of = replies[i].of
  BY DEF EndsReply
<1> QED BY <1>2, <1>3 DEF SendsOn

LEMMA PartSentKeeps ==
    ASSUME SendInv, NEW t \in Threads, PartSent(t)
    PROVE  SendInv' /\ SendsOn(t)
<1>1. PICK own \in DOMAIN replies, q \in Nat, f \in Nat :
          LET r == replies[own]
          IN  /\ own = sending[t].reply /\ q + 1 = sending[t].part
              /\ q + 1 \in 1..Len(r.parts) /\ Posted(r.parts, q + 1) \in Nat
              /\ Len(r.parts) \in Nat /\ r.chat \in Chats
              /\ posts[r.chat] \in Seq(Posts)
              /\ f \in 1..(Len(posts[r.chat]) + 1)
              /\ Stand(posts[r.chat], own, r.parts, q, f)
  BY InHand DEF PartSent
<1> DEFINE r == replies[own]
           shown == posts[r.chat]
           post == [reply |-> own, part |-> q + 1, size |-> Posted(r.parts, q + 1)]
<1>2. ~Free(t) /\ posts' = Shown(t) /\ sending[t] \in Sendings
      /\ sending \in [Threads -> Sendings]
  BY DEF PartSent, SendInv, SendTypes
<1>3. posts \in [Chats -> Seq(Posts)] /\ own \in Nat
  BY DEF SendInv, SendTypes
<1>4. posts'[r.chat] = Append(shown, post)
  BY <1>1, <1>2, <1>3 DEF Shown
<1>5. post \in Posts /\ post.reply = own /\ post.part = q + 1 /\ post.size = Posted(r.parts, q + 1)
  BY <1>1, <1>3 DEF Posts
<1> HIDE DEF post
<1>6. Stand(posts'[r.chat], own, r.parts, q + 1, f)
  <2>1. Stand(Append(shown, post), own, r.parts, q + 1, f)
    BY <1>1, <1>5, StandGrows
  <2> QED BY <1>4, <2>1
<1>7. Len(posts'[r.chat]) = Len(shown) + 1 /\ Len(shown) \in Nat
      /\ DOMAIN posts'[r.chat] = 1..(Len(shown) + 1)
  BY <1>1, <1>4, <1>5
<1>8. CASE sending[t].part = Len(r.parts)
  <2>1. EndsReply(t, "sent")
    BY <1>1, <1>8 DEF PartSent
  <2>2. f \in DOMAIN posts'[r.chat] /\ q + 1 = Len(r.parts)
    BY <1>1, <1>7, <1>8
  <2> HIDE DEF r, shown
  <2>3. SendInv'
    BY <1>1, <1>2, <1>6, <2>1, <2>2, Ending DEF r
  <2> QED BY <1>2, <2>1, <2>3, EndsOn
<1>9. CASE sending[t].part # Len(r.parts)
  <2>1. /\ sending' = [sending EXCEPT ![t].part = @ + 1] /\ replies' = replies
    BY <1>1, <1>9 DEF PartSent
  <2>0. PICK try \in Nat : try = sending[t].try
    BY <1>2 DEF Sendings
  <2> DEFINE s == [reply |-> own, try |-> try, part |-> q + 2]
  <2>2. sending' = [sending EXCEPT ![t] = s]
    <3>1. sending[t] = [reply |-> own, try |-> try, part |-> q + 1]
      BY <1>1, <1>2, <2>0 DEF Sendings
    <3>2. [sending[t] EXCEPT !.part = @ + 1] = s
      BY <3>1
    <3> QED BY <1>2, <2>1, <3>2
  <2>3. s \in Sendings /\ s.reply = own /\ s.part = q + 2 /\ s.part - 1 = q + 1
    BY <1>1, <1>3 DEF Sendings
  <2> HIDE DEF s
  <2>4. s.part \in 1..Len(r.parts) /\ f \in 1..(Len(posts'[r.chat]) + 1)
    <3> DEFINE n == Len(r.parts)
               before == Len(shown)
               after == Len(posts'[r.chat])
    <3>1. /\ q + 1 = sending[t].part /\ q + 1 # n /\ q + 1 \in 1..n /\ q \in Nat
          /\ n \in Nat
      BY <1>1, <1>9
    <3>2. after = before + 1 /\ before \in Nat /\ f \in 1..(before + 1)
      BY <1>1, <1>7
    <3> HIDE DEF n, before, after
    <3>3. q + 2 \in 1..n
      BY <3>1
    <3>4. f \in 1..(after + 1)
      BY <3>2
    <3> QED BY <2>3, <3>3, <3>4 DEF n, after
  <2>5. SendInv'
    <3>1. /\ s.reply = sending[t].reply /\ s.part \in 1..Len(replies[s.reply].parts)
          /\ f \in 1..(Len(posts'[replies[s.reply].chat]) + 1)
          /\ Stand(posts'[replies[s.reply].chat], s.reply, replies[s.reply].parts,
                   s.part - 1, f)
      BY <1>1, <1>6, <2>3, <2>4
    <3> HIDE DEF r, shown
    <3> QED BY <1>2, <2>1, <2>2, <2>3, <3>1, Continuing
  <2>6. SendsOn(t)
    BY <1>1, <1>2, <2>1, <2>2, <2>3 DEF SendsOn
  <2> QED BY <2>5, <2>6
<1> QED BY <1>8, <1>9

LEMMA PartFailsKeeps ==
    ASSUME SendInv, NEW t \in Threads, PartFails(t)
    PROVE  SendInv' /\ SendsOn(t)
<1>1. ~Free(t) /\ posts' \in {posts, Shown(t)}
  BY DEF PartFails
<1>2. PICK own \in DOMAIN replies :
          /\ own = sending[t].reply /\ replies[own].chat \in Chats
          /\ Len(replies[own].parts) \in Nat /\ Len(replies[own].parts) >= 1
  BY <1>1, InHand
<1>3. sending \in [Threads -> Sendings] /\ sending[t] \in Sendings
  BY DEF SendInv, SendTypes
<1>4. CASE EndsReply(t, "failed")
  <2>1. SendInv'
    BY <1>1, <1>2, <1>4, Ending
  <2> QED BY <1>1, <1>4, <2>1, EndsOn
<1>5. CASE TriesAgain(t)
  <2>0. PICK try \in Nat : try = sending[t].try
    BY <1>3 DEF Sendings
  <2> DEFINE s == [reply |-> own, try |-> try + 1, part |-> 1]
             shown == posts'[replies[own].chat]
  <2>1. sending' = [sending EXCEPT ![t] = s] /\ replies' = replies
    <3>1. sending[t] = [reply |-> own, try |-> try, part |-> sending[t].part]
      BY <1>2, <1>3, <2>0 DEF Sendings
    <3>2. sending[t].try + 1 = try + 1
      BY <2>0
    <3>3. [sending[t] EXCEPT !.try = try + 1, !.part = 1] = s
      <4>1. [sending[t] EXCEPT !.try = try + 1]
            = [reply |-> own, try |-> try + 1, part |-> sending[t].part]
        BY <3>1
      <4> DEFINE next == try + 1
      <4> HIDE DEF next
      <4>2. [[reply |-> own, try |-> next, part |-> sending[t].part] EXCEPT !.part = 1]
            = [reply |-> own, try |-> next, part |-> 1]
        OBVIOUS
      <4> QED BY <4>1, <4>2 DEF next
    <3>4. sending' = [sending EXCEPT ![t] = [sending[t] EXCEPT !.try = try + 1, !.part = 1]]
      BY <1>3, <1>5, <3>2 DEF TriesAgain
    <3> QED BY <1>5, <3>3, <3>4 DEF TriesAgain
  <2>2. s \in Sendings /\ s.reply = own /\ s.part = 1 /\ s.part - 1 = 0
    <3>1. own \in Nat
      BY DEF SendInv, SendTypes
    <3> QED BY <3>1 DEF Sendings
  <2> HIDE DEF s
  <2>3. shown \in Seq(Posts)
    BY <1>1, <1>2, Posting
  <2>4. PICK f : f = Len(shown) + 1
    OBVIOUS
  <2>5. f \in 1..(Len(shown) + 1) /\ Stand(shown, own, replies[own].parts, 0, f)
    BY <2>3, <2>4, NothingStands
  <2>6. SendInv'
    <3>1. /\ s.reply = sending[t].reply /\ s.part \in 1..Len(replies[s.reply].parts)
          /\ f \in 1..(Len(posts'[replies[s.reply].chat]) + 1)
          /\ Stand(posts'[replies[s.reply].chat], s.reply, replies[s.reply].parts,
                   s.part - 1, f)
      BY <1>2, <2>2, <2>5
    <3> HIDE DEF shown
    <3> QED BY <1>1, <2>1, <2>2, <3>1, Continuing
  <2>7. SendsOn(t)
    BY <1>1, <1>2, <1>3, <2>1, <2>2 DEF SendsOn
  <2> QED BY <2>6, <2>7
<1> QED BY <1>4, <1>5 DEF PartFails

-----------------------------------------------------------------------------
(* The threads of a job and its answer. *)

Answered == {"mirror", "media", "done"}

(* A thread that is not on sends nothing, and the job joins both threads      *)
(* before it answers; the reader only if waiting for the agent did not fail.  *)
ThreadsEnd ==
    /\ ~beating => Free("heartbeat")
    /\ ~readerOn => Free("reader")
    /\ stage \in {"start", "spawn", "reader", "answer"} \cup Answered => ~beating
    /\ stage \in {"start", "spawn", "answer"} \cup Answered => pollFailed \/ ~readerOn

(* The answer is begun once, and no event of the job's own is sent after it.  *)
AnswerIsNext ==
    /\ \A i \in DOMAIN replies : replies[i].of = "answer" => stage \in Answered
    /\ stage = "mirror" => \E i \in DOMAIN replies : replies[i].of = "answer"
    /\ stage \in Answered => Free("job") \/ replies[sending["job"].reply].of \notin Events

ReplyInv == SendInv /\ ThreadsEnd /\ AnswerIsNext /\ AnswerComesLast

\* While an event is sent there is no answer, unless waiting for the agent failed.
LEMMA EventsComeFirst ==
    ASSUME ThreadsEnd, AnswerIsNext, ~pollFailed, NEW t \in Threads, ~Free(t),
           replies[sending[t].reply].of \in Events
    PROVE  \A i \in DOMAIN replies : replies[i].of # "answer"
BY DEF ThreadsEnd, AnswerIsNext, Threads, Answered

LEMMA NothingSent ==
    ASSUME SendInv, UNCHANGED <<replies, sending, posts>>
    PROVE  SendInv'
<1>1. SendTypes'
  BY DEF SendInv, SendTypes
<1>2. PartsAreCut' /\ SendsItsOwn' /\ PostsAreReplies'
  BY DEF SendInv, PartsAreCut, SendsItsOwn, PostsAreReplies, Free
<1>3. SendersStand'
  <2>1. ASSUME NEW t \in Threads, NEW f
        PROVE  StandsFrom(sending[t].reply, sending[t].part - 1, f)'
               = StandsFrom(sending[t].reply, sending[t].part - 1, f)
    BY DEF StandsFrom
  <2> QED BY <2>1 DEF SendInv, SendersStand, Free
<1>4. SentStand'
  <2>1. ASSUME NEW i, NEW f
        PROVE  StandsFrom(i, Len(replies[i].parts), f)'
               = StandsFrom(i, Len(replies[i].parts), f)
    BY DEF StandsFrom
  <2> QED BY <2>1 DEF SendInv, SentStand
<1> QED BY <1>1, <1>2, <1>3, <1>4 DEF SendInv

\* An answer that is last stays last when nothing is posted.
LEMMA NothingPosted ==
    ASSUME SendInv, AnswerComesLast, posts' = posts, pollFailed => pollFailed',
           \A i \in DOMAIN replies : replies'[i].of = replies[i].of
    PROVE  AnswerComesLast'
BY DEF AnswerComesLast, SendInv, PostsAreReplies, Chats

LEMMA EmitsKeeps ==
    ASSUME SendInv, NEW t \in Threads, Free(t), NEW event \in Events, Emits(t, event)
    PROVE  /\ SendInv'
           /\ UNCHANGED <<replies, sending, posts>> \/ Begun(t, event)
<1>1. CASE StartsReply(t, event, "work", <<1>>)
  <2>1. <<1>> \in Texts /\ event \in Kinds /\ "work" \in Chats
    <3>1. <<1>> \in Seq(Nat) /\ <<1>> # <<>>
      OBVIOUS
    <3> QED BY <3>1 DEF Texts, Kinds, Chats
  <2> QED BY <1>1, <2>1, StartingSends
<1>2. CASE UNCHANGED sendVars
  BY <1>2, NothingSent DEF sendVars
<1> QED BY <1>1, <1>2 DEF Emits

\* The threads' steps with their replies.
LEMMA SendingKeeps ==
    ASSUME ReplyInv, NEW t \in Threads, PartSent(t) \/ PartFails(t)
    PROVE  ReplyInv'
<1>1. SendInv' /\ SendsOn(t)
  BY PartSentKeeps, PartFailsKeeps DEF ReplyInv
<1>2. /\ ~Free(t)
      /\ UNCHANGED <<stage, beating, readerOn, pollFailed>>
  BY DEF PartSent, PartFails, jobVars
<1>3. ThreadsEnd'
  BY <1>1, <1>2 DEF ReplyInv, ThreadsEnd, SendsOn, Free, Threads
<1>4. AnswerIsNext'
  <2>1. sending["job"].reply = 0 \/ sending["job"].reply \in DOMAIN replies
    BY DEF ReplyInv, SendInv, SendsItsOwn, Free, Threads
  <2>2. sending'["job"].reply \in {0, sending["job"].reply}
    BY <1>1 DEF SendsOn, Threads
  <2> QED BY <1>1, <1>2, <2>1, <2>2 DEF ReplyInv, AnswerIsNext, SendsOn, Free
<1>5. AnswerComesLast'
  <2>1. CASE posts' = posts
    BY <1>1, <1>2, <2>1, NothingPosted DEF ReplyInv, SendsOn
  <2>2. CASE posts' = Shown(t) /\ ~pollFailed
    <3>1. PICK own \in DOMAIN replies, q \in Nat, f \in Nat :
              own = sending[t].reply /\ replies[own].chat \in Chats
      BY <1>2, InHand DEF ReplyInv
    <3>2. posts \in [Chats -> Seq(Posts)]
      BY DEF ReplyInv, SendInv, SendTypes
    <3> DEFINE post == [reply |-> own, part |-> sending[t].part,
                        size |-> Posted(replies[own].parts, sending[t].part)]
               chat == replies[own].chat
    <3>3. posts' = [posts EXCEPT ![chat] = Append(@, post)]
      BY <2>2, <3>1 DEF Shown
    <3>4. post.reply = own
      OBVIOUS
    <3> HIDE DEF post, chat
    <3>5. chat # "work" => posts'["work"] = posts["work"]
      BY <3>2, <3>3 DEF Chats
    <3>6. chat = "work" =>
              /\ DOMAIN posts'["work"] = 1..(Len(posts["work"]) + 1)
              /\ DOMAIN posts["work"] = 1..Len(posts["work"]) /\ Len(posts["work"]) \in Nat
              /\ posts'["work"][Len(posts["work"]) + 1] = post
              /\ \A k \in DOMAIN posts["work"] : posts'["work"][k] = posts["work"][k]
      BY <3>2, <3>3 DEF Chats
    <3>7. \A k \in DOMAIN posts["work"] : posts["work"][k].reply \in DOMAIN replies
      BY DEF ReplyInv, SendInv, PostsAreReplies, Chats
    <3>8. replies[own].of \in Events =>
              \A i \in DOMAIN replies : replies[i].of # "answer"
      BY <1>2, <2>2, <3>1, EventsComeFirst DEF ReplyInv
    <3>9. \A i \in DOMAIN replies : replies'[i].of = replies[i].of
      BY <1>1 DEF SendsOn
    <3>10. ASSUME NEW a \in DOMAIN posts'["work"], NEW b \in DOMAIN posts'["work"],
                  replies'[posts'["work"][a].reply].of = "answer",
                  replies'[posts'["work"][b].reply].of \in Events
           PROVE  b < a
      <4>1. CASE chat # "work"
        BY <2>2, <3>5, <3>7, <3>9, <3>10, <4>1 DEF ReplyInv, AnswerComesLast
      <4>2. CASE chat = "work" /\ b = Len(posts["work"]) + 1
        <5>1. replies[own].of \in Events
          BY <3>1, <3>4, <3>6, <3>9, <3>10, <4>2
        <5>2. posts'["work"][a].reply \in DOMAIN replies
          BY <3>1, <3>4, <3>6, <3>7, <4>2
        <5> QED BY <3>8, <3>9, <3>10, <5>1, <5>2
      <4>3. CASE chat = "work" /\ b \in DOMAIN posts["work"] /\ a = Len(posts["work"]) + 1
        BY <3>6, <4>3
      <4>4. CASE chat = "work" /\ b \in DOMAIN posts["work"] /\ a \in DOMAIN posts["work"]
        BY <2>2, <3>6, <3>7, <3>9, <3>10, <4>4 DEF ReplyInv, AnswerComesLast
      <4> QED BY <3>6, <4>1, <4>2, <4>3, <4>4
    <3> QED BY <3>10 DEF AnswerComesLast
  <2>3. CASE pollFailed
    BY <1>2, <2>3 DEF AnswerComesLast
  <2> QED BY <1>1, <2>1, <2>2, <2>3 DEF SendsOn
<1> QED BY <1>1, <1>3, <1>4, <1>5 DEF ReplyInv

\* An event, sent or not, is no answer, and posts nothing yet.
LEMMA EventKeeps ==
    ASSUME ReplyInv, NEW t \in Threads, Free(t), NEW event \in Events, Emits(t, event),
           pollFailed => pollFailed', ThreadsEnd',
           stage \notin Answered \/ (stage' = stage /\ t # "job"),
           stage' \in Answered => stage \in Answered
    PROVE  ReplyInv'
<1>1. SendInv' /\ (UNCHANGED <<replies, sending, posts>> \/ Begun(t, event))
  BY EmitsKeeps DEF ReplyInv
<1>2. event # "answer"
  BY DEF Events, ReaderEvents
<1>3. sending["job"].reply = 0 \/ sending["job"].reply \in DOMAIN replies
  BY DEF ReplyInv, SendInv, SendsItsOwn, Free, Threads
<1>4. AnswerIsNext'
  <2>1. CASE UNCHANGED <<replies, sending, posts>>
    BY <2>1 DEF ReplyInv, AnswerIsNext, Free, Answered
  <2>2. CASE Begun(t, event)
    <3>1. \A i \in DOMAIN replies' : replies'[i].of = "answer" => stage' \in Answered
      BY <1>2, <2>2 DEF ReplyInv, AnswerIsNext, Begun
    <3>2. stage' = "mirror" => \E i \in DOMAIN replies' : replies'[i].of = "answer"
      BY <2>2 DEF ReplyInv, AnswerIsNext, Begun, Answered
    <3>3. ASSUME stage' \in Answered
          PROVE  Free("job")' \/ replies'[sending'["job"].reply].of \notin Events
      <4>1. stage \in Answered /\ t # "job"
        BY <3>3
      <4>2. sending'["job"] = sending["job"]
        BY <2>2, <4>1 DEF Begun, Threads
      <4> QED BY <1>3, <2>2, <4>1, <4>2 DEF ReplyInv, AnswerIsNext, Begun, Free
    <3> QED BY <3>1, <3>2, <3>3 DEF AnswerIsNext
  <2> QED BY <1>1, <2>1, <2>2
<1>5. AnswerComesLast'
  BY <1>1, NothingPosted DEF ReplyInv, Begun
<1> QED BY <1>1, <1>4, <1>5 DEF ReplyInv

\* A step that sends nothing.
LEMMA QuietKeeps ==
    ASSUME ReplyInv, UNCHANGED <<replies, sending, posts>>, pollFailed => pollFailed',
           ThreadsEnd', stage \in Answered <=> stage' \in Answered,
           stage' = "mirror" => stage = "mirror"
    PROVE  ReplyInv'
<1>1. SendInv' /\ AnswerComesLast'
  BY NothingSent, NothingPosted DEF ReplyInv
<1>2. AnswerIsNext'
  BY DEF ReplyInv, AnswerIsNext, Free, Answered
<1> QED BY <1>1, <1>2 DEF ReplyInv

\* An answer, its mirror or a warning begins while the job has answered.
LEMMA AnswerBegins ==
    ASSUME ReplyInv, Free("job"), NEW of \in Kinds \ Events, NEW chat \in Chats,
           NEW text \in Texts, StartsReply("job", of, chat, text),
           UNCHANGED <<beating, readerOn, pollFailed>>,
           stage \in {"answer"} \cup Answered, stage' \in Answered,
           stage' = "mirror" => of = "answer"
    PROVE  ReplyInv'
<1>1. SendInv' /\ Begun("job", of) /\ "job" \in Threads
  BY StartingSends DEF ReplyInv, Threads
<1>2. ThreadsEnd'
  BY <1>1 DEF ReplyInv, ThreadsEnd, Begun, Free, Threads
<1>3. AnswerIsNext'
  BY <1>1 DEF ReplyInv, AnswerIsNext, Begun, Free
<1>4. AnswerComesLast'
  BY <1>1, NothingPosted DEF ReplyInv, Begun
<1> QED BY <1>1, <1>2, <1>3, <1>4 DEF ReplyInv

LEMMA MirrorText ==
    ASSUME ReplyInv, stage = "mirror"
    PROVE  <<1, 0>> \o replies[CHOOSE i \in DOMAIN replies : replies[i].of = "answer"].text \in Texts
<1> DEFINE i == CHOOSE i \in DOMAIN replies : replies[i].of = "answer"
<1>1. i \in DOMAIN replies
  BY DEF ReplyInv, AnswerIsNext
<1> HIDE DEF i
<1>2. replies[i] \in Reply
  BY <1>1 DEF ReplyInv, SendInv, SendTypes
<1>3. replies[i].text \in Seq(Nat)
  BY <1>2 DEF Reply, Texts
<1>4. <<1, 0>> \in Seq(Nat) /\ Len(<<1, 0>>) = 2
  OBVIOUS
<1>5. /\ <<1, 0>> \o replies[i].text \in Seq(Nat)
      /\ Len(<<1, 0>> \o replies[i].text) = 2 + Len(replies[i].text)
  BY <1>3, <1>4
<1>6. Len(replies[i].text) \in Nat
  BY <1>3
<1>7. <<1, 0>> \o replies[i].text # <<>>
  BY <1>5, <1>6
<1> QED BY <1>5, <1>7 DEF Texts, i

LEMMA ReplyStep == ReplyInv /\ [ReplyNext]_replyVars => ReplyInv'
<1> SUFFICES ASSUME ReplyInv, [ReplyNext]_replyVars
             PROVE  ReplyInv'
  OBVIOUS
<1> USE DEF Answered
<1>t. "job" \in Threads /\ "reader" \in Threads /\ "heartbeat" \in Threads
  BY DEF Threads
<1>e. /\ ReaderEvents \subseteq Events
      /\ {"started", "still running", "retrying", "spawn failed"} \subseteq Events
  BY DEF Events
<1>1. ASSUME NEW t \in Threads, PartSent(t) \/ PartFails(t)
      PROVE  ReplyInv'
  BY <1>1, SendingKeeps
<1>2. ASSUME NEW event \in ReaderEvents, ReaderEvent(event)
      PROVE  ReplyInv'
  <2>1. /\ Free("reader") /\ Emits("reader", event) /\ readerOn
        /\ UNCHANGED <<stage, beating, readerOn, pollFailed>>
    BY <1>2 DEF ReaderEvent, jobVars
  <2>2. UNCHANGED <<replies, sending, posts>> \/ Begun("reader", event)
    BY <1>e, <1>t, <2>1, EmitsKeeps DEF ReplyInv
  <2>3. ThreadsEnd'
    BY <1>t, <2>1, <2>2 DEF ReplyInv, ThreadsEnd, Begun, Free
  <2> QED BY <1>e, <1>t, <2>1, <2>3, EventKeeps
<1>3. CASE Heartbeat
  <2>1. /\ Free("heartbeat") /\ Emits("heartbeat", "still running") /\ beating
        /\ UNCHANGED <<stage, beating, readerOn, pollFailed>>
    BY <1>3 DEF Heartbeat, jobVars
  <2>2. UNCHANGED <<replies, sending, posts>> \/ Begun("heartbeat", "still running")
    BY <1>e, <1>t, <2>1, EmitsKeeps DEF ReplyInv
  <2>3. ThreadsEnd'
    BY <1>t, <2>1, <2>2 DEF ReplyInv, ThreadsEnd, Begun, Free
  <2> QED BY <1>e, <1>t, <2>1, <2>3, EventKeeps
<1>4. CASE IntervalPasses
  <2>1. UNCHANGED <<stage, beating, readerOn, pollFailed, replies, sending, posts>>
    BY <1>4 DEF IntervalPasses, jobVars, sendVars
  <2>2. ThreadsEnd'
    BY <2>1 DEF ReplyInv, ThreadsEnd, Free
  <2> QED BY <2>1, <2>2, QuietKeeps
<1>5. CASE Starts
  <2>1. /\ Free("job") /\ Emits("job", "started") /\ stage = "start" /\ stage' = "spawn"
        /\ UNCHANGED <<beating, readerOn, pollFailed>>
    BY <1>5 DEF Starts, JobThread, MoveOn
  <2>2. UNCHANGED <<replies, sending, posts>> \/ Begun("job", "started")
    BY <1>e, <1>t, <2>1, EmitsKeeps DEF ReplyInv
  <2>3. ThreadsEnd'
    BY <1>t, <2>1, <2>2 DEF ReplyInv, ThreadsEnd, Begun, Free
  <2> QED BY <1>e, <1>t, <2>1, <2>3, EventKeeps
<1>6. CASE Spawns
  <2>1. /\ stage = "spawn" /\ stage' = "running" /\ readerOn' /\ beating'
        /\ UNCHANGED <<pollFailed, replies, sending, posts>>
    BY <1>6 DEF Spawns, MoveOn, sendVars
  <2>2. ThreadsEnd'
    BY <2>1 DEF ReplyInv, ThreadsEnd, Free
  <2> QED BY <2>1, <2>2, QuietKeeps
<1>7. CASE SpawnFails
  <2>1. /\ Free("job") /\ Emits("job", "spawn failed") /\ stage = "spawn" /\ stage' = "answer"
        /\ UNCHANGED <<beating, readerOn, pollFailed>>
    BY <1>7 DEF SpawnFails, JobThread, MoveOn
  <2>2. UNCHANGED <<replies, sending, posts>> \/ Begun("job", "spawn failed")
    BY <1>e, <1>t, <2>1, EmitsKeeps DEF ReplyInv
  <2>3. ThreadsEnd'
    BY <1>t, <2>1, <2>2 DEF ReplyInv, ThreadsEnd, Begun, Free
  <2> QED BY <1>e, <1>t, <2>1, <2>3, EventKeeps
<1>8. CASE AgentEnds \/ PollFails
  <2>1. /\ stage = "running" /\ stage' = "heartbeat" /\ (pollFailed => pollFailed')
        /\ UNCHANGED <<beating, readerOn, replies, sending, posts>>
    BY <1>8 DEF AgentEnds, PollFails, MoveOn, progressVars, sendVars
  <2>2. ThreadsEnd'
    BY <2>1 DEF ReplyInv, ThreadsEnd, Free
  <2> QED BY <2>1, <2>2, QuietKeeps
<1>9. CASE HeartbeatJoined
  <2>1. /\ stage = "heartbeat" /\ stage' = IF pollFailed THEN "answer" ELSE "reader"
        /\ Free("heartbeat") /\ ~beating'
        /\ UNCHANGED <<readerOn, pollFailed, replies, sending, posts>>
    BY <1>9 DEF HeartbeatJoined, MoveOn, sendVars
  <2>2. ThreadsEnd'
    BY <2>1 DEF ReplyInv, ThreadsEnd, Free
  <2> QED BY <2>1, <2>2, QuietKeeps
<1>10. CASE ReaderJoined
  <2>1. Free("job") /\ Free("reader") /\ ~readerOn'
    BY <1>10 DEF ReaderJoined, JobThread
  <2>2. CASE Retries
    <3>1. /\ Emits("job", "retrying") /\ stage = "reader" /\ stage' = "spawn"
          /\ UNCHANGED <<beating, pollFailed>>
      BY <2>2 DEF Retries, MoveOn
    <3>2. UNCHANGED <<replies, sending, posts>> \/ Begun("job", "retrying")
      BY <1>e, <1>t, <2>1, <3>1, EmitsKeeps DEF ReplyInv
    <3>3. ThreadsEnd'
      BY <1>t, <2>1, <3>1, <3>2 DEF ReplyInv, ThreadsEnd, Begun, Free
    <3> QED BY <1>e, <1>t, <2>1, <3>1, <3>3, EventKeeps
  <2>3. CASE \E success \in BOOLEAN : Finishes(success)
    <3>1. /\ stage = "reader" /\ stage' = "answer"
          /\ UNCHANGED <<beating, pollFailed, replies, sending, posts>>
      BY <2>3 DEF Finishes, MoveOn, sendVars
    <3>2. ThreadsEnd'
      BY <2>1, <3>1 DEF ReplyInv, ThreadsEnd, Free
    <3> QED BY <3>1, <3>2, QuietKeeps
  <2> QED BY <1>10, <2>2, <2>3 DEF ReaderJoined
<1>11. ASSUME NEW text \in Text, SendsAnswer(text)
       PROVE  ReplyInv'
  <2>1. text \in Texts /\ "answer" \in Kinds \ Events /\ "work" \in Chats
    BY ReplyAssumption DEF Texts, Kinds, Events, ReaderEvents, Chats
  <2>2. /\ Free("job") /\ StartsReply("job", "answer", "work", text)
        /\ stage = "answer" /\ stage' = "mirror"
        /\ UNCHANGED <<beating, readerOn, pollFailed>>
    BY <1>11 DEF SendsAnswer, JobThread, MoveOn, progressVars
  <2> QED BY <2>1, <2>2, AnswerBegins
<1>12. ASSUME NEW elsewhere \in BOOLEAN, Mirrors(elsewhere)
       PROVE  ReplyInv'
  <2>1. /\ Free("job") /\ stage = "mirror" /\ stage' \in {"media", "done"}
        /\ UNCHANGED <<beating, readerOn, pollFailed>>
    BY <1>12 DEF Mirrors, JobThread, MoveOn, progressVars
  <2>2. CASE elsewhere
    <3>1. PICK text, of :
              /\ text = <<1, 0>> \o
                     replies[CHOOSE i \in DOMAIN replies : replies[i].of = "answer"].text
              /\ of = IF AnswerSent THEN "mirror of sent" ELSE "mirror of failed"
      OBVIOUS
    <3>2. StartsReply("job", of, "source", text)
      BY <1>12, <2>2, <3>1 DEF Mirrors
    <3>3. text \in Texts
      BY <2>1, <3>1, MirrorText
    <3>4. of \in Kinds \ Events /\ "source" \in Chats
      BY <3>1 DEF Kinds, Events, ReaderEvents, Chats
    <3> QED BY <2>1, <3>2, <3>3, <3>4, AnswerBegins
  <2>3. CASE ~elsewhere
    <3>1. UNCHANGED <<replies, sending, posts>>
      BY <1>12, <2>3 DEF Mirrors, sendVars
    <3>2. ThreadsEnd'
      BY <2>1, <3>1 DEF ReplyInv, ThreadsEnd, Free
    <3> QED BY <2>1, <3>1, <3>2, QuietKeeps
  <2> QED BY <2>2, <2>3
<1>13. CASE Uploads
  <2>1. /\ Free("job") /\ stage = "media" /\ stage' \in {"media", "done"}
        /\ UNCHANGED <<beating, readerOn, pollFailed>>
    BY <1>13 DEF Uploads, JobThread, MoveOn, progressVars
  <2>2. CASE StartsReply("job", "warning", "work", <<1>>)
    <3>1. <<1>> \in Seq(Nat) /\ <<1>> # <<>>
      OBVIOUS
    <3>2. <<1>> \in Texts /\ "warning" \in Kinds \ Events /\ "work" \in Chats
      BY <3>1 DEF Texts, Kinds, Events, ReaderEvents, Chats
    <3> QED BY <2>1, <2>2, <3>2, AnswerBegins
  <2>3. CASE UNCHANGED sendVars
    <3>1. UNCHANGED <<replies, sending, posts>>
      BY <2>3 DEF sendVars
    <3>2. ThreadsEnd'
      BY <2>1, <3>1 DEF ReplyInv, ThreadsEnd, Free
    <3> QED BY <2>1, <3>1, <3>2, QuietKeeps
  <2> QED BY <1>13, <2>2, <2>3 DEF Uploads
<1>14. CASE WireBreaks \/ UNCHANGED replyVars
  <2>1. UNCHANGED <<stage, beating, readerOn, pollFailed, replies, sending, posts>>
    BY <1>14 DEF WireBreaks, replyVars, jobVars, progressVars, sendVars
  <2>2. ThreadsEnd'
    BY <2>1 DEF ReplyInv, ThreadsEnd, Free
  <2> QED BY <2>1, <2>2, QuietKeeps
<1> QED BY <1>1, <1>2, <1>3, <1>4, <1>5, <1>6, <1>7, <1>8, <1>9, <1>10, <1>11, <1>12, <1>13,
           <1>14 DEF ReplyNext

LEMMA ReplyStart == ReplyInit => ReplyInv
<1> SUFFICES ASSUME ReplyInit PROVE ReplyInv
  OBVIOUS
<1>1. /\ replies = <<>> /\ posts = [c \in Chats |-> <<>>]
      /\ sending = [t \in Threads |-> Nothing] /\ stage = "start"
      /\ ~readerOn /\ ~beating
  BY DEF ReplyInit
<1>2. DOMAIN replies = {} /\ replies \in Seq(Reply) /\ <<>> \in Seq(Posts)
  BY <1>1
<1>3. \A t \in Threads : Free(t) /\ sending[t] \in Sendings
  BY <1>1 DEF Free, Nothing, Sendings
<1>4. SendTypes
  BY <1>1, <1>2, <1>3 DEF SendTypes
<1>5. \A c \in Chats : DOMAIN posts[c] = {}
  BY <1>1
<1>6. SendInv
  BY <1>2, <1>3, <1>4, <1>5
     DEF SendInv, PartsAreCut, SendsItsOwn, SendersStand, PostsAreReplies, SentStand
<1>7. ThreadsEnd /\ AnswerIsNext /\ AnswerComesLast
  BY <1>1, <1>2, <1>3, <1>5 DEF ThreadsEnd, AnswerIsNext, AnswerComesLast, Answered, Threads, Chats
<1> QED BY <1>6, <1>7 DEF ReplyInv

\* The inductive invariant of the replies.
THEOREM ReplyInvariant == ReplySpec => []ReplyInv
BY ReplyStart, ReplyStep, PTL DEF ReplySpec

\* send_reply_recorded and its retries: a reply the journal calls sent stands
\* in its chat whole, part after part under its heading; its parts add up to its
\* text and, without their headings, none is longer than a message and a line end.
THEOREM SentRepliesAreWhole == ReplySpec => []SentIsWhole
<1>1. ReplyInv => SentIsWhole
  <2> SUFFICES ASSUME ReplyInv, NEW i \in DOMAIN replies, replies[i].outcome = "sent"
               PROVE  /\ \E f \in DOMAIN posts[replies[i].chat] :
                             StandsFrom(i, Len(replies[i].parts), f)
                      /\ Total(replies[i].parts) = Size(replies[i].text)
                      /\ \A k \in DOMAIN replies[i].parts :
                             replies[i].parts[k] <= CharLimit + 1
    BY DEF SentIsWhole
  <2>1. replies[i] \in Reply /\ replies[i].parts = Cut(replies[i].text)
    BY DEF ReplyInv, SendInv, SendTypes, PartsAreCut
  <2>2. replies[i].text \in Seq(Nat) \ {<<>>}
    BY <2>1 DEF Reply, Texts
  <2>3. /\ Total(replies[i].parts) = Size(replies[i].text)
        /\ \A k \in DOMAIN replies[i].parts : replies[i].parts[k] <= CharLimit + 1
    BY <2>1, <2>2, CutKeeps
  <2>4. \E f \in DOMAIN posts[replies[i].chat] : StandsFrom(i, Len(replies[i].parts), f)
    BY DEF ReplyInv, SendInv, SentStand
  <2> QED BY <2>3, <2>4
<1> QED BY <1>1, ReplyInvariant, PTL

\* wait_for_child and its joins: no progress is shown after the answer, unless
\* waiting for the agent failed.
THEOREM AnswerIsLast == ReplySpec => []AnswerComesLast
<1>1. ReplyInv => AnswerComesLast
  BY DEF ReplyInv
<1> QED BY <1>1, ReplyInvariant, PTL
=============================================================================
