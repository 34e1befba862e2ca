-------------------------- MODULE ServerDiskProofs --------------------------
(****************************************************************************)
(* What the server keeps through crashes, restarts and failing calls, for   *)
(* any number of assets, names, ids, faults and crashes: the counters go on *)
(* (CountersGoOn), assets are kept (AssetsAreKept), and every file is       *)
(* replaced as StableStore promises (ReplacesWhole).                        *)
(****************************************************************************)
EXTENDS ServerDisk, TLAPS

Whatever == Asset \cup Name \cup Snapshot
Counters == [Counter -> Nat]

TypeOK ==
    /\ target \in [File -> Whatever \cup {Absent, Torn, Cut}]
    /\ temp   \in [File -> Whatever \cup {Absent, Torn, Cut}]
    /\ phase \in {"down", "up", "stopping"}
    /\ world \in Counters /\ issued \in Counters
    /\ DOMAIN records \subseteq Asset /\ rooted \in BOOLEAN
    /\ job \in Replacement \cup {None}
    /\ saved \in Snapshot \cup {None}
    /\ stored \subseteq Asset /\ spoiled \subseteq File /\ lapse \in BOOLEAN

\* What a replacement is for: the world as it is in memory, or an asset that is
\* not held yet, its bytes before its name. What it has in the temporary file is
\* what it means to write unless a call failed, and it goes on to the target only
\* after the temporary file.
Replacing ==
    /\ phase = "down" => job = None /\ ~rooted
    /\ phase = "stopping" => job # None /\ job.file = World
    /\ job # None =>
          /\ job.file = World => job.value = Capture
          /\ job.file # World => rooted
          /\ \A a \in Asset : job.file \in {Bin(a), Meta(a)} => a \notin DOMAIN records /\ job.name \in Name
          /\ \A a \in Asset : job.file = Bin(a) => job.value = a
          /\ \A a \in Asset : job.file = Meta(a) => job.value = job.name
          /\ job.at \in {"rename", "remove", "again"} =>
                temp[job.file] = job.value \/ (temp[job.file] \in {Torn, Cut} /\ job.hit)
          /\ job.at = "remove" => job.hit

BytesKept(a)   == target[Bin(a)] = a \/ Bin(a) \in spoiled
NameKept(a, n) == target[Meta(a)] = n \/ Meta(a) \in spoiled

\* An asset stored keeps bytes and a name, an asset held its own name, and an
\* asset whose name is being saved has its bytes.
AssetsKept ==
    /\ \A a \in stored : BytesKept(a) /\ \E n \in Name : NameKept(a, n)
    /\ rooted => \A a \in DOMAIN records : BytesKept(a) /\ NameKept(a, records[a])
    /\ job # None => \A a \in Asset : job.file = Meta(a) => BytesKept(a)

AtLeast(u, v) == \A k \in Counter : u[k] >= v[k]

\* The world last saved is in its file and behind the one in memory; and as long
\* as nothing was forgotten, memory or, between two processes, the file has
\* everything ever issued.
CountersKept ==
    /\ saved # None => saved.known /\ (target[World] = saved \/ World \in spoiled)
    /\ phase # "down" /\ saved # None => AtLeast(world, saved.next) \/ World \in spoiled
    /\ phase # "down" /\ ~lapse => world = issued
    /\ phase = "down" /\ ~lapse /\ Loads(target[World]) => target[World].next = issued
    /\ AtLeast(issued, Fresh)

IInv == TypeOK /\ Replacing /\ AssetsKept /\ CountersKept

-----------------------------------------------------------------------------
(* Files *)

LEMMA FilesApart ==
    /\ World \in File
    /\ \A a \in Asset : Bin(a) \in File /\ Meta(a) \in File
    /\ \A a \in Asset : World # Bin(a) /\ World # Meta(a)
    /\ \A a, b \in Asset : Bin(a) # Meta(b)
    /\ \A a, b \in Asset : (Bin(a) = Bin(b) => a = b) /\ (Meta(a) = Meta(b) => a = b)
    /\ \A a \in Asset : Bin(a)[2] = a /\ Meta(a)[2] = a
    /\ \A f \in File : f = World \/ \E a \in Asset : f = Bin(a) \/ f = Meta(a)
BY DEF File, World, Bin, Meta

LEMMA FreshCounters == Fresh \in Counters
BY DEF Fresh, Counters, Counter

LEMMA SignsApart ==
    /\ Absent # Torn /\ Cut \notin {Absent, Torn}
    /\ \A v \in Whatever : v # Torn /\ v # Cut /\ v # Absent /\ v # None
    /\ \A c \in {Absent, Torn, Cut} : ~Loads(c)
    /\ None \notin Replacement
<1>1. {None, Absent, Torn, Cut} \cap Whatever = {}
  BY SignAssumption DEF Whatever
<1>2. \A c : Loads(c) => c \in Whatever
  BY DEF Loads, Whatever, Snapshot
<1> QED BY <1>1, <1>2, SignAssumption

LEMMA JobFields ==
    ASSUME NEW j \in Replacement
    PROVE  /\ j.file \in File /\ j.value \in Whatever /\ j.name \in Name \cup {None}
           /\ j.hit \in BOOLEAN
           /\ j.at \in {"open", "write", "drop", "rename", "remove", "again"}
           /\ j # None
BY SignsApart DEF Replacement, Whatever

LEMMA BeginsOpen ==
    ASSUME NEW path \in File, NEW v \in Whatever, NEW n \in Name \cup {None}
    PROVE  /\ Begin(path, v, n) \in Replacement /\ Begin(path, v, n) # None
           /\ Begin(path, v, n).file = path /\ Begin(path, v, n).value = v
           /\ Begin(path, v, n).name = n
<1>1. Begin(path, v, n) \in Replacement
  BY DEF Begin, Replacement, Whatever
<1> QED BY <1>1, SignsApart DEF Begin

\* A call after which the replacement goes on.
Continues ==
    /\ job # None /\ job' \in Replacement
    /\ job'.file = job.file /\ job'.value = job.value /\ job'.name = job.name
    /\ job'.at \in {"rename", "remove", "again"} =>
          temp'[job.file] = job.value \/ (temp'[job.file] \in {Torn, Cut} /\ job'.hit)
    /\ job'.at = "remove" => job'.hit
    /\ temp' \in [File -> Whatever \cup {Absent, Torn, Cut}]
    /\ UNCHANGED <<target, memoryVars, historyVars>>

LEMMA NextCall ==
    ASSUME NEW j \in Replacement, NEW s \in {"write", "drop", "rename", "remove", "again"},
           NEW h \in BOOLEAN
    PROVE  /\ [j EXCEPT !.at = s, !.hit = h] \in Replacement
           /\ [j EXCEPT !.at = s] \in Replacement
BY DEF Replacement

LEMMA Continuing ==
    ASSUME TypeOK, Replacing, job # None,
           \/ job.at = "open" /\ ~Fails /\ Open
           \/ Write
           \/ job.at = "rename" /\ Refused("remove")
           \/ job.at = "again" /\ Refused("drop")
    PROVE  Continues
<1>1. job \in Replacement
  BY DEF TypeOK
<1>2. job.file \in File /\ job.value \in Whatever
  BY <1>1, JobFields
<1>3. CASE job.at = "open" /\ ~Fails /\ Open
  <2>1. job' = [job EXCEPT !.at = "write"] /\ temp' = [temp EXCEPT ![job.file] = Torn]
        /\ UNCHANGED <<target, memoryVars, historyVars>>
    BY <1>3 DEF Open, Truncates, historyVars
  <2>2. job' \in Replacement
    BY <1>1, <2>1, NextCall
  <2>3. job'.file = job.file /\ job'.value = job.value /\ job'.name = job.name
        /\ job'.at = "write" /\ job'.hit = job.hit
    BY <1>1, <2>1 DEF Replacement
  <2> QED BY <1>2, <2>1, <2>2, <2>3 DEF Continues, TypeOK
<1>4. CASE Write
  <2>1. PICK c \in Whatever \cup {Torn, Cut}, s \in {"drop", "rename"}, h \in BOOLEAN :
           /\ Written(c, s, h)
           /\ s # "drop" => c = job.value \/ (c \in {Torn, Cut} /\ h)
           /\ h <=> c \in {Torn, Cut}
    <3>1. CASE Works /\ Written(job.value, "rename", FALSE)
      <4>1. job.value \in Whatever /\ job.value \notin {Torn, Cut}
        BY <1>2, SignsApart
      <4> QED BY <3>1, <4>1
    <3>2. CASE \E c \in CutShort(job.file) : Written(c, "drop", TRUE) \/ Written(c, "rename", TRUE)
      BY <3>2 DEF CutShort
    <3> QED BY <1>4, <3>1, <3>2 DEF Write, AfterWrite
  <2>2. job' = [job EXCEPT !.at = s, !.hit = h] /\ temp' = [temp EXCEPT ![job.file] = c]
    BY <2>1 DEF Written
  <2>3. job' \in Replacement
    BY <1>1, <2>2, NextCall
  <2>4. job'.file = job.file /\ job'.value = job.value /\ job'.name = job.name
        /\ job'.at = s /\ job'.hit = h
    BY <1>1, <2>2 DEF Replacement
  <2> QED BY <1>2, <1>4, <2>1, <2>2, <2>3, <2>4 DEF Continues, TypeOK, Write
<1>5. CASE job.at \in {"rename", "again"} /\ \E s \in {"remove", "drop"} : Refused(s)
  <2>1. PICK s \in {"remove", "drop"} : Refused(s)
    BY <1>5
  <2>2. job' = [job EXCEPT !.at = s, !.hit = TRUE]
        /\ UNCHANGED <<target, temp, memoryVars, historyVars>>
    BY <2>1 DEF Refused, diskVars
  <2>3. job' \in Replacement
    BY <1>1, <2>2, NextCall
  <2>4. job'.file = job.file /\ job'.value = job.value /\ job'.name = job.name
        /\ job'.at = s /\ job'.hit = TRUE
    BY <1>1, <2>2 DEF Replacement
  <2> QED BY <1>5, <2>2, <2>3, <2>4 DEF Continues, TypeOK, Replacing
<1> QED BY <1>3, <1>4, <1>5

\* A move to the target: it has what was written for it, or is spoiled.
LEMMA MovedTarget ==
    ASSUME TypeOK, Replacing, job # None, job.at \in {"rename", "again"}, Moved
    PROVE  /\ target' \in [File -> Whatever \cup {Absent, Torn, Cut}]
           /\ temp' \in [File -> Whatever \cup {Absent, Torn, Cut}]
           /\ spoiled' \subseteq File
           /\ \A f \in File \ {job.file} : target'[f] = target[f] /\ (f \in spoiled' <=> f \in spoiled)
           /\ \/ target'[job.file] = job.value /\ job.file \notin spoiled'
              \/ target'[job.file] \in {Torn, Cut} /\ job.file \in spoiled' /\ job.hit
<1>1. job.file \in File /\ job.value \in Whatever
  BY JobFields DEF TypeOK
<1>2. job.value \notin {Torn, Cut}
  BY <1>1, SignsApart
<1> QED BY <1>1, <1>2 DEF Moved, Replacing, TypeOK
-----------------------------------------------------------------------------
(* The steps of a replacement *)

LEMMA ContinuesSafe ==
    ASSUME IInv, Continues
    PROVE  IInv'
<1>1. TypeOK /\ Replacing /\ AssetsKept /\ CountersKept
  BY DEF IInv
<1>2. TypeOK'
  BY <1>1 DEF Continues, TypeOK, memoryVars, historyVars
<1>3. job' # None /\ job' \in Replacement
  BY SignsApart DEF Continues
<1>4. Replacing'
  BY <1>1, <1>3 DEF Continues, Replacing, memoryVars, historyVars, Capture
<1>5. AssetsKept'
  BY <1>1, <1>3 DEF Continues, AssetsKept, BytesKept, NameKept, memoryVars, historyVars
<1>6. CountersKept'
  BY <1>1, <1>3 DEF Continues, CountersKept, memoryVars, historyVars
<1> QED BY <1>2, <1>4, <1>5, <1>6 DEF IInv

\* A replacement that fails leaves the file, and between two processes what was
\* given out since may be forgotten.
LEMMA FailsSafe ==
    ASSUME IInv, job # None, Fails, UNCHANGED <<target, spoiled>>,
           temp' \in [File -> Whatever \cup {Absent, Torn, Cut}]
    PROVE  IInv'
<1>1. TypeOK /\ Replacing /\ AssetsKept /\ CountersKept
  BY DEF IInv
<1>2. job' = None /\ UNCHANGED <<saved, stored, issued>>
      /\ \/ phase = "stopping" /\ Ends /\ lapse' = TRUE
         \/ phase # "stopping" /\ UNCHANGED memoryVars /\ lapse' = lapse
  BY <1>1 DEF Fails, Returns, TypeOK
<1>3. CASE phase = "stopping" /\ Ends /\ lapse' = TRUE
  <2>1. phase' = "down" /\ world' \in Counters /\ records' = NoRecords /\ rooted' = FALSE
    BY <1>3, FreshCounters DEF Ends
  <2>2. TypeOK'
    BY <1>1, <1>2, <1>3, <2>1 DEF TypeOK, NoRecords
  <2>3. Replacing'
    BY <1>2, <2>1 DEF Replacing
  <2>4. AssetsKept'
    BY <1>1, <1>2, <2>1 DEF AssetsKept, BytesKept, NameKept
  <2>5. CountersKept'
    BY <1>1, <1>2, <1>3, <2>1 DEF CountersKept
  <2> QED BY <2>2, <2>3, <2>4, <2>5 DEF IInv
<1>4. CASE phase # "stopping" /\ UNCHANGED memoryVars /\ lapse' = lapse
  <2>1. UNCHANGED <<phase, world, records, rooted>>
    BY <1>4 DEF memoryVars
  <2>2. TypeOK'
    BY <1>1, <1>2, <1>4, <2>1 DEF TypeOK
  <2>3. Replacing'
    BY <1>1, <1>2, <1>4, <2>1 DEF Replacing
  <2>4. AssetsKept'
    BY <1>1, <1>2, <2>1 DEF AssetsKept, BytesKept, NameKept
  <2>5. CountersKept'
    BY <1>1, <1>2, <1>4, <2>1 DEF CountersKept
  <2> QED BY <2>2, <2>3, <2>4, <2>5 DEF IInv
<1> QED BY <1>2, <1>3, <1>4

LEMMA RemoveSafe ==
    ASSUME IInv, RemoveTarget
    PROVE  IInv'
<1> DEFINE f == job.file
<1>1. TypeOK /\ Replacing /\ AssetsKept /\ CountersKept
  BY DEF IInv
<1>2. job \in Replacement /\ f \in File /\ job # None /\ job.at = "remove"
  BY <1>1, JobFields DEF TypeOK, RemoveTarget
<1>3. /\ job' = [job EXCEPT !.at = "again"]
      /\ UNCHANGED <<temp, phase, world, records, rooted, saved, stored, issued, lapse>>
  BY DEF RemoveTarget, memoryVars
<1>4. job' \in Replacement /\ job' # None
  BY <1>2, <1>3, NextCall, JobFields
<1>5. job'.file = f /\ job'.value = job.value /\ job'.name = job.name /\ job'.hit = job.hit
      /\ job'.at = "again"
  BY <1>2, <1>3 DEF Replacement
<1>6. /\ target' \in [File -> Whatever \cup {Absent, Torn, Cut}] /\ spoiled' \subseteq File
      /\ \A g \in File : target'[g] = target[g] \/ (target'[g] = Absent /\ g \in spoiled')
      /\ \A g \in spoiled : g \in spoiled'
  BY <1>1, <1>2 DEF RemoveTarget, TypeOK
<1>7. TypeOK'
  BY <1>1, <1>3, <1>4, <1>6 DEF TypeOK
<1>8. Replacing'
  BY <1>1, <1>2, <1>3, <1>4, <1>5 DEF Replacing, Capture
<1>9. AssetsKept'
  <2>1. \A a \in Asset : Bin(a) \in File /\ Meta(a) \in File
    BY FilesApart
  <2>2. \A a \in Asset : BytesKept(a) => BytesKept(a)'
    BY <2>1, <1>6 DEF BytesKept
  <2>3. \A a \in Asset : \A n : NameKept(a, n) => NameKept(a, n)'
    BY <2>1, <1>6 DEF NameKept
  <2> QED BY <1>1, <1>2, <1>3, <1>4, <1>5, <2>2, <2>3 DEF AssetsKept, TypeOK
<1>10. CountersKept'
  BY <1>1, <1>3, <1>6, FilesApart, SignsApart DEF CountersKept
<1> QED BY <1>7, <1>8, <1>9, <1>10 DEF IInv
LEMMA MovedSafe ==
    ASSUME IInv, job # None, job.at \in {"rename", "again"}, Moved
    PROVE  IInv'
<1>0. PICK f : f = job.file
  OBVIOUS
<1>1. TypeOK /\ Replacing /\ AssetsKept /\ CountersKept
  BY DEF IInv
<1>2. job \in Replacement /\ f \in File /\ job.value \in Whatever /\ phase # "down"
  BY <1>0, <1>1, JobFields DEF TypeOK, Replacing
<1>3. /\ target' \in [File -> Whatever \cup {Absent, Torn, Cut}]
      /\ temp' \in [File -> Whatever \cup {Absent, Torn, Cut}]
      /\ spoiled' \subseteq File
      /\ \A g \in File \ {f} : target'[g] = target[g] /\ (g \in spoiled' <=> g \in spoiled)
      /\ \/ target'[f] = job.value /\ f \notin spoiled'
         \/ target'[f] \in {Torn, Cut} /\ f \in spoiled'
  BY <1>0, <1>1, MovedTarget
<1>4. Done
  BY DEF Moved
<1>5. CASE f = World
  <2>1. /\ Returns /\ saved' = job.value /\ UNCHANGED <<stored, issued, lapse>>
        /\ job.value = Capture
    BY <1>0, <1>1, <1>2, <1>4, <1>5, FilesApart DEF Done, Replacing
  <2>2. \/ phase = "stopping" /\ Ends
        \/ phase = "up" /\ UNCHANGED <<phase, world, records, rooted>>
    BY <1>1, <1>2, <2>1 DEF Returns, memoryVars, TypeOK
  <2>3. job' = None /\ phase' \in {"up", "down"} /\ (phase' = "down" => ~rooted')
    BY <2>1, <2>2 DEF Returns, Ends
  <2>4. Capture \in Snapshot /\ Capture.known /\ Capture.next = world
    BY <1>1 DEF Capture, TypeOK, Counters, Snapshot
  <2>5. TypeOK'
    <3>1. world' \in Counters /\ DOMAIN records' \subseteq Asset /\ rooted' \in BOOLEAN
      BY <1>1, <2>2, FreshCounters DEF Ends, TypeOK, NoRecords
    <3> QED BY <1>1, <1>3, <2>1, <2>3, <2>4, <3>1 DEF TypeOK
  <2>6. Replacing'
    BY <2>3 DEF Replacing
  <2>7. AssetsKept'
    <3>1. \A a \in Asset : BytesKept(a) => BytesKept(a)'
      BY <1>3, <1>5, FilesApart DEF BytesKept
    <3>2. \A a \in Asset : \A n : NameKept(a, n) => NameKept(a, n)'
      BY <1>3, <1>5, FilesApart DEF NameKept
    <3>3. rooted' => rooted /\ records' = records
      BY <2>2 DEF Ends
    <3> QED BY <1>1, <2>1, <2>3, <3>1, <3>2, <3>3 DEF AssetsKept, TypeOK
  <2>8. CountersKept'
    <3>1. target'[World] = saved' \/ World \in spoiled'
      BY <1>3, <1>5, <2>1
    <3>2. phase' # "down" => AtLeast(world', saved'.next)
      BY <1>1, <2>1, <2>2, <2>4 DEF Ends, AtLeast, TypeOK, Counters
    <3>3. phase' # "down" /\ ~lapse => world' = issued'
      BY <1>1, <1>2, <2>1, <2>2 DEF Ends, CountersKept
    <3>4. ~lapse /\ Loads(target'[World]) => target'[World].next = issued'
      BY <1>1, <1>2, <1>3, <1>5, <2>1, <2>4, SignsApart DEF CountersKept
    <3> QED BY <1>1, <2>1, <2>4, <3>1, <3>2, <3>3, <3>4 DEF CountersKept, AtLeast
  <2> QED BY <2>5, <2>6, <2>7, <2>8 DEF IInv
<1>6. ASSUME NEW a \in Asset, f = Bin(a) PROVE IInv'
  <2>1. job.name \in Name /\ job.value = a /\ rooted /\ a \notin DOMAIN records /\ phase = "up"
    BY <1>0, <1>1, <1>2, <1>6, FilesApart DEF Replacing, TypeOK
  <2>2. job' = Begin(Meta(a), job.name, job.name)
        /\ UNCHANGED <<phase, world, records, rooted, saved, stored, issued, lapse>>
    BY <1>0, <1>4, <1>6, FilesApart DEF Done, memoryVars
  <2>3. job' \in Replacement /\ job' # None /\ job'.file = Meta(a) /\ job'.value = job.name
        /\ job'.name = job.name /\ job'.at = "open"
    <3>1. Meta(a) \in File /\ job.name \in Whatever /\ job.name \in Name \cup {None}
      BY <2>1, FilesApart DEF Whatever
    <3>2. job'.at = "open"
      BY <2>2 DEF Begin
    <3> QED BY <2>2, <3>1, <3>2, BeginsOpen
  <2>4. TypeOK'
    BY <1>1, <1>3, <2>2, <2>3 DEF TypeOK
  <2>5. Replacing'
    BY <1>1, <2>1, <2>2, <2>3, FilesApart DEF Replacing
  <2>6. AssetsKept'
    <3>1. BytesKept(a)'
      BY <1>3, <1>6, <2>1 DEF BytesKept
    <3>2. \A b \in Asset : BytesKept(b) => BytesKept(b)'
      BY <1>3, <1>6, <3>1, FilesApart DEF BytesKept
    <3>3. \A b \in Asset : \A n : NameKept(b, n) => NameKept(b, n)'
      BY <1>3, <1>6, FilesApart DEF NameKept
    <3> QED BY <1>1, <2>2, <2>3, <3>1, <3>2, <3>3, FilesApart DEF AssetsKept, TypeOK
  <2>7. CountersKept'
    <3>1. target'[World] = target[World] /\ (World \in spoiled' <=> World \in spoiled)
      BY <1>3, <1>6, FilesApart
    <3> QED BY <1>1, <2>2, <3>1 DEF CountersKept
  <2> QED BY <2>4, <2>5, <2>6, <2>7 DEF IInv
<1>7. ASSUME NEW a \in Asset, f = Meta(a) PROVE IInv'
  <2>0. PICK m \in Name : m = job.name
    BY <1>0, <1>1, <1>2, <1>7 DEF Replacing
  <2>1. job.value = m /\ a \notin DOMAIN records /\ phase = "up"
    BY <1>0, <1>1, <1>2, <1>7, <2>0, FilesApart DEF Replacing, TypeOK
  <2>2. /\ job' = None /\ records' = Remember(records, a, m)
        /\ stored' = stored \cup {a}
        /\ UNCHANGED <<phase, world, rooted, saved, issued, lapse>>
    BY <1>0, <1>4, <1>7, <2>0, FilesApart DEF Done
  <2>3. DOMAIN records' = DOMAIN records \cup {a} /\ records'[a] = m
        /\ \A b \in DOMAIN records : b # a /\ records'[b] = records[b]
    BY <2>1, <2>2 DEF Remember
  <2>4. TypeOK'
    BY <1>1, <1>3, <2>2, <2>3 DEF TypeOK
  <2>5. Replacing'
    BY <2>1, <2>2 DEF Replacing
  <2>6. AssetsKept'
    <3>1. BytesKept(a)
      BY <1>0, <1>1, <1>2, <1>7, SignsApart DEF AssetsKept
    <3>2. \A b \in Asset : BytesKept(b) => BytesKept(b)'
      BY <1>3, <1>7, FilesApart DEF BytesKept
    <3>3. NameKept(a, m)'
      BY <1>3, <1>7, <2>1 DEF NameKept
    <3>4. \A b \in Asset \ {a} : \A n : NameKept(b, n) => NameKept(b, n)'
      BY <1>3, <1>7, FilesApart DEF NameKept
    <3>5. ASSUME NEW b \in stored' PROVE BytesKept(b)' /\ \E n \in Name : NameKept(b, n)'
      <4>1. CASE b = a
        BY <2>0, <3>1, <3>2, <3>3, <4>1
      <4>2. CASE b # a
        BY <1>1, <2>2, <3>2, <3>4, <3>5, <4>2 DEF AssetsKept, TypeOK
      <4> QED BY <4>1, <4>2
    <3>6. ASSUME rooted', NEW b \in DOMAIN records'
          PROVE  BytesKept(b)' /\ \A n : n = records'[b] => NameKept(b, n)'
      <4>1. CASE b = a
        BY <2>3, <3>1, <3>2, <3>3, <4>1
      <4>2. CASE b # a
        BY <1>1, <2>2, <2>3, <3>2, <3>4, <3>6, <4>2 DEF AssetsKept, TypeOK
      <4> QED BY <4>1, <4>2
    <3> QED BY <2>2, <3>5, <3>6 DEF AssetsKept, BytesKept, NameKept
  <2>7. CountersKept'
    <3>1. target'[World] = target[World] /\ (World \in spoiled' <=> World \in spoiled)
      BY <1>3, <1>7, FilesApart
    <3> QED BY <1>1, <2>2, <3>1 DEF CountersKept
  <2> QED BY <2>4, <2>5, <2>6, <2>7 DEF IInv
<1> QED BY <1>2, <1>5, <1>6, <1>7, FilesApart
LEMMA ReplaceSafe ==
    ASSUME IInv, Replace
    PROVE  IInv'
<1>1. TypeOK /\ Replacing
  BY DEF IInv
<1>2. CASE Open
  <2>1. job # None /\ job.at = "open"
    BY <1>2 DEF Open
  <2>2. CASE Fails
    <3>1. UNCHANGED spoiled
      BY <1>2 DEF Open
    <3>2. temp' \in [File -> Whatever \cup {Absent, Torn, Cut}] /\ UNCHANGED target
      BY <1>1, <1>2, <2>1 DEF Open, Truncates, TypeOK, diskVars
    <3> QED BY <2>1, <2>2, <3>1, <3>2, FailsSafe
  <2>3. CASE ~Fails
    BY <1>1, <1>2, <2>1, <2>3, Continuing, ContinuesSafe
  <2> QED BY <2>2, <2>3
<1>3. CASE Write
  <2>1. job # None
    BY <1>3 DEF Write
  <2> QED BY <1>1, <1>3, <2>1, Continuing, ContinuesSafe
<1>4. CASE Drop
  <2>1. /\ job # None /\ Fails /\ UNCHANGED <<target, spoiled>>
        /\ temp' \in [File -> Whatever \cup {Absent, Torn, Cut}]
    BY <1>1, <1>4 DEF Drop, TypeOK
  <2> QED BY <2>1, FailsSafe
<1>5. CASE Rename
  BY <1>1, <1>5, Continuing, ContinuesSafe, MovedSafe DEF Rename
<1>6. CASE RemoveTarget
  BY <1>6, RemoveSafe
<1>7. CASE RenameAgain
  BY <1>1, <1>7, Continuing, ContinuesSafe, MovedSafe DEF RenameAgain
<1> QED BY <1>2, <1>3, <1>4, <1>5, <1>6, <1>7 DEF Replace

-----------------------------------------------------------------------------
(* The other steps *)

LEMMA StartSafe ==
    ASSUME IInv, Start
    PROVE  IInv'
<1>1. TypeOK /\ Replacing /\ AssetsKept /\ CountersKept
  BY DEF IInv
<1>2. PICK worldRead \in BOOLEAN, rootMade \in BOOLEAN, unread \in SUBSET Asset :
        /\ world' = IF worldRead /\ Loads(target[World])
                    THEN Resume(target[World].next) ELSE Fresh
        /\ rooted' = rootMade
        /\ records' = [a \in {a \in Asset \ unread : rootMade /\ Found(a)} |-> target[Meta(a)]]
        /\ spoiled' = spoiled \cup {Bin(a) : a \in unread}
                              \cup (IF worldRead THEN {} ELSE {World})
        /\ lapse' = (lapse \/ (~(worldRead /\ Loads(target[World])) /\ issued # Fresh))
  BY DEF Start
<1>3. /\ phase = "down" /\ phase' = "up" /\ job = None /\ job' = None
      /\ UNCHANGED <<target, temp, saved, stored, issued>>
  BY <1>1 DEF Start, Replacing, diskVars
<1>4. Loads(target[World]) => target[World].next \in Counters
  BY DEF Loads, Counters
<1>5. ASSUME NEW n \in Counters
      PROVE  Resume(n) \in Counters /\ AtLeast(Resume(n), n) /\ (AtLeast(n, Fresh) => Resume(n) = n)
  BY <1>5, FreshCounters DEF Resume, Counters, AtLeast
<1>6. \A g \in spoiled : g \in spoiled'
  BY <1>2
<1>7. TypeOK'
  <2>1. world' \in Counters
    BY <1>2, <1>4, <1>5, FreshCounters
  <2>2. spoiled' \subseteq File
    BY <1>1, <1>2, FilesApart DEF TypeOK
  <2>3. DOMAIN records' \subseteq Asset
    BY <1>2
  <2> QED BY <1>1, <1>2, <1>3, <2>1, <2>2, <2>3 DEF TypeOK
<1>8. Replacing'
  BY <1>3 DEF Replacing
<1>9. AssetsKept'
  <2>1. \A a \in Asset : BytesKept(a) => BytesKept(a)'
    BY <1>3, <1>6 DEF BytesKept
  <2>2. \A a \in Asset : \A n : NameKept(a, n) => NameKept(a, n)'
    BY <1>3, <1>6 DEF NameKept
  <2>3. \A a \in DOMAIN records' : target'[Bin(a)] = a /\ target'[Meta(a)] = records'[a]
    BY <1>2, <1>3 DEF Found
  <2> QED BY <1>1, <1>3, <2>1, <2>2, <2>3 DEF AssetsKept, BytesKept, NameKept, TypeOK
<1>10. CountersKept'
  <2>1. ASSUME saved' # None PROVE AtLeast(world', saved'.next) \/ World \in spoiled'
    <3>1. CASE World \in spoiled'
      BY <3>1
    <3>2. CASE World \notin spoiled'
      <4>1. worldRead /\ target[World] = saved /\ saved.known /\ saved \in Snapshot
        BY <1>1, <1>2, <1>3, <2>1, <3>2 DEF CountersKept, TypeOK
      <4>2. Loads(target[World])
        BY <4>1 DEF Loads, Snapshot
      <4> QED BY <1>2, <1>3, <1>4, <1>5, <4>1, <4>2
    <3> QED BY <3>1, <3>2
  <2>2. ASSUME ~lapse' PROVE world' = issued'
    <3>1. CASE worldRead /\ Loads(target[World])
      BY <1>1, <1>2, <1>3, <1>4, <1>5, <2>2, <3>1 DEF CountersKept
    <3>2. CASE ~(worldRead /\ Loads(target[World]))
      BY <1>2, <1>3, <2>2, <3>2
    <3> QED BY <3>1, <3>2
  <2>3. saved' # None => saved'.known /\ (target'[World] = saved' \/ World \in spoiled')
    BY <1>1, <1>3, <1>6 DEF CountersKept
  <2> QED BY <1>1, <1>3, <2>1, <2>2, <2>3 DEF CountersKept
<1> QED BY <1>7, <1>8, <1>9, <1>10 DEF IInv
LEMMA IssueSafe ==
    ASSUME IInv, NEW ks, Issue(ks)
    PROVE  IInv'
<1>1. TypeOK /\ Replacing /\ AssetsKept /\ CountersKept
  BY DEF IInv
<1>2. /\ phase = "up" /\ job = None
      /\ UNCHANGED <<target, temp, phase, records, rooted, job, saved, stored, spoiled, lapse>>
      /\ world' = [k \in Counter |-> IF k \in ks THEN world[k] + 1 ELSE world[k]]
      /\ issued' = [k \in Counter |-> IF world'[k] > issued[k] THEN world'[k] ELSE issued[k]]
  BY DEF Issue, Idle, diskVars
<1>3. world \in Counters /\ issued \in Counters /\ Fresh \in Counters
  BY <1>1, FreshCounters DEF TypeOK
<1>4. world' \in Counters /\ issued' \in Counters /\ AtLeast(world', world) /\ AtLeast(issued', issued)
  BY <1>2, <1>3 DEF Counters, AtLeast
<1>5. TypeOK'
  BY <1>1, <1>2, <1>4 DEF TypeOK
<1>6. Replacing'
  BY <1>1, <1>2 DEF Replacing
<1>7. AssetsKept'
  BY <1>1, <1>2 DEF AssetsKept, BytesKept, NameKept
<1>8. CountersKept'
  <2>1. ASSUME saved # None PROVE AtLeast(world', saved.next) \/ World \in spoiled
    <3>1. saved.next \in Counters
      BY <1>1, <2>1 DEF TypeOK, Snapshot, Counters
    <3>2. AtLeast(world, saved.next) \/ World \in spoiled
      BY <1>1, <1>2, <2>1 DEF CountersKept
    <3> QED BY <1>3, <1>4, <3>1, <3>2 DEF AtLeast, Counters
  <2>2. ASSUME ~lapse PROVE world' = issued'
    <3>1. world = issued
      BY <1>1, <1>2, <2>2 DEF CountersKept
    <3> QED BY <1>2, <1>3, <1>4, <3>1 DEF Counters, AtLeast
  <2>3. AtLeast(issued', Fresh)
    BY <1>1, <1>3, <1>4 DEF CountersKept, AtLeast, Counters
  <2>4. (AtLeast(issued, Fresh))'
    BY <2>3 DEF AtLeast, Fresh
  <2> QED BY <1>1, <1>2, <2>1, <2>2, <2>4 DEF CountersKept, AtLeast
<1> QED BY <1>5, <1>6, <1>7, <1>8 DEF IInv

\* The world's replacement begins, in the loop or on the way out.
LEMMA WorldSaveSafe ==
    ASSUME IInv, Idle, phase' \in {"up", "stopping"}, job' = Begin(World, Capture, None),
           UNCHANGED <<diskVars, world, records, rooted, historyVars>>
    PROVE  IInv'
<1>1. TypeOK /\ Replacing /\ AssetsKept /\ CountersKept /\ phase = "up"
  BY DEF IInv, Idle
<1>2. UNCHANGED <<target, temp, world, records, rooted, saved, stored, spoiled, issued, lapse>>
  BY DEF diskVars, historyVars
<1>3. Capture \in Whatever
  BY <1>1 DEF Capture, Whatever, Snapshot, TypeOK, Counters
<1>4. job' \in Replacement /\ job' # None /\ job'.file = World /\ job'.value = Capture
  BY <1>3, BeginsOpen, FilesApart
<1>5. job'.at = "open" /\ Capture' = Capture
  BY <1>2 DEF Begin, Capture
<1>6. TypeOK'
  BY <1>1, <1>2, <1>4 DEF TypeOK
<1>7. Replacing'
  BY <1>1, <1>2, <1>4, <1>5, FilesApart DEF Replacing
<1>8. AssetsKept'
  BY <1>1, <1>2, <1>4, FilesApart DEF AssetsKept, BytesKept, NameKept
<1>9. CountersKept'
  BY <1>1, <1>2, <1>4 DEF CountersKept
<1> QED BY <1>6, <1>7, <1>8, <1>9 DEF IInv

LEMMA SaveSafe ==
    ASSUME IInv, NEW a \in Asset, NEW n \in Name, Save(a, n)
    PROVE  IInv'
<1>1. TypeOK /\ Replacing /\ AssetsKept /\ CountersKept
  BY DEF IInv
<1>2. /\ phase = "up" /\ job = None /\ a \notin DOMAIN records
      /\ UNCHANGED <<target, temp, phase, world, rooted, saved, stored, spoiled, issued, lapse>>
  BY DEF Save, Idle, diskVars, historyVars
<1>3. CASE rooted
  <2>1. job' = Begin(Bin(a), a, n) /\ records' = records
    BY <1>3 DEF Save
  <2>2. Bin(a) \in File /\ a \in Whatever /\ n \in Name \cup {None}
    BY FilesApart DEF Whatever
  <2>3. job' \in Replacement /\ job' # None /\ job'.file = Bin(a) /\ job'.value = a /\ job'.name = n
    BY <2>1, <2>2, BeginsOpen
  <2>4. job'.at = "open"
    BY <2>1 DEF Begin
  <2>5. TypeOK'
    BY <1>1, <1>2, <2>1, <2>3 DEF TypeOK
  <2>6. Replacing'
    BY <1>1, <1>2, <1>3, <2>1, <2>3, <2>4, FilesApart DEF Replacing
  <2>7. AssetsKept'
    BY <1>1, <1>2, <2>1, <2>3, FilesApart DEF AssetsKept, BytesKept, NameKept
  <2>8. CountersKept'
    BY <1>1, <1>2 DEF CountersKept
  <2> QED BY <2>5, <2>6, <2>7, <2>8 DEF IInv
<1>4. CASE ~rooted
  <2>1. DOMAIN records' = DOMAIN records \cup {a} /\ job' = None
    BY <1>2, <1>4 DEF Save, Remember
  <2>2. TypeOK'
    BY <1>1, <1>2, <2>1 DEF TypeOK
  <2>3. Replacing'
    BY <1>1, <1>2, <2>1 DEF Replacing
  <2>4. AssetsKept'
    BY <1>1, <1>2, <1>4, <2>1 DEF AssetsKept, BytesKept, NameKept
  <2>5. CountersKept'
    BY <1>1, <1>2 DEF CountersKept
  <2> QED BY <2>2, <2>3, <2>4, <2>5 DEF IInv
<1> QED BY <1>3, <1>4

LEMMA CrashSafe ==
    ASSUME IInv, Crash
    PROVE  IInv'
<1>1. TypeOK /\ Replacing /\ AssetsKept /\ CountersKept
  BY DEF IInv
<1>2. /\ phase # "down" /\ phase' = "down" /\ job' = None
      /\ world' = Fresh /\ records' = NoRecords /\ rooted' = FALSE
      /\ lapse' = (lapse \/ target[World] # Capture)
      /\ UNCHANGED <<target, temp, saved, stored, spoiled, issued>>
  BY DEF Crash, Ends, diskVars
<1>3. TypeOK'
  BY <1>1, <1>2, FreshCounters DEF TypeOK, NoRecords
<1>4. Replacing'
  BY <1>2 DEF Replacing
<1>5. AssetsKept'
  BY <1>1, <1>2 DEF AssetsKept, BytesKept, NameKept
<1>6. CountersKept'
  <2>1. ASSUME ~lapse' PROVE target'[World].next = issued'
    <3>1. ~lapse /\ target'[World] = Capture /\ world = issued
      BY <1>1, <1>2, <2>1 DEF CountersKept, TypeOK
    <3> QED BY <1>2, <3>1 DEF Capture
  <2> QED BY <1>1, <1>2, <2>1 DEF CountersKept
<1> QED BY <1>3, <1>4, <1>5, <1>6 DEF IInv

LEMMA Starts == Init => IInv
<1> SUFFICES ASSUME Init PROVE IInv
  OBVIOUS
<1>1. PICK w \in {Absent} \cup {[next |-> Fresh, known |-> FALSE]} :
        target = [f \in File |-> IF f = World THEN w ELSE Absent]
  BY DEF Init
<1>2. w \in Whatever \cup {Absent} /\ ~Loads(w)
  <2>1. CASE w = Absent
    BY <2>1, SignsApart
  <2>2. CASE w = [next |-> Fresh, known |-> FALSE]
    BY <2>2, FreshCounters DEF Whatever, Snapshot, Counters, Loads
  <2> QED BY <1>1, <2>1, <2>2
<1>3. TypeOK
  BY <1>1, <1>2, FreshCounters DEF Init, TypeOK, NoRecords
<1>4. Replacing
  BY DEF Init, Replacing
<1>5. AssetsKept
  BY DEF Init, AssetsKept
<1>6. CountersKept
  BY <1>1, <1>2, FilesApart, FreshCounters DEF Init, CountersKept, AtLeast, Counters
<1> QED BY <1>3, <1>4, <1>5, <1>6 DEF IInv

LEMMA Inductive == IInv /\ [Next]_vars => IInv'
<1> SUFFICES ASSUME IInv, [Next]_vars PROVE IInv'
  OBVIOUS
<1>1. CASE UNCHANGED vars
  <2>1. UNCHANGED <<target, temp, phase, world, records, rooted, job, saved, stored, spoiled,
                    issued, lapse>>
    BY <1>1 DEF vars, diskVars, memoryVars, historyVars
  <2> QED BY <2>1 DEF IInv, TypeOK, Replacing, Capture, AssetsKept, BytesKept, NameKept,
                      CountersKept, AtLeast, Loads
<1>2. CASE Autosave
  BY <1>2, WorldSaveSafe DEF Autosave, memoryVars, Idle
<1>3. CASE Stop
  BY <1>3, WorldSaveSafe DEF Stop
<1> QED BY <1>1, <1>2, <1>3, StartSafe, IssueSafe, SaveSafe, ReplaceSafe, CrashSafe
           DEF Next, Accept, Stamp

-----------------------------------------------------------------------------
\* A restarted server never gives out an id below the counters of the world last
\* saved, whatever was interrupted or failed since, and gives none out twice as
\* long as every exit saved (applyPersistedWorld, persistWorldNow), for any number
\* of ids, faults and crashes.
THEOREM CountersGoOnForever == Spec => []CountersGoOn
<1>1. IInv => CountersGoOn
  BY DEF IInv, CountersKept, CountersGoOn, AtLeast
<1> QED BY <1>1, Starts, Inductive, PTL DEF Spec

\* What a server tells the uploaders it has is on disk under the same name, and
\* what it once stored every later process finds, however many later uploads of
\* the same bytes were cut short (writeToDisk, scanRootDir), for any number of
\* assets, names, faults and crashes.
THEOREM AssetsAreFound == Spec => AssetsAreKept
<1>1. IInv => HeldIsOnDisk
  BY DEF IInv, AssetsKept, BytesKept, NameKept, HeldIsOnDisk, AssetSpoiled
<1>2. IInv /\ [Next]_vars =>
        [phase = "down" /\ rooted' =>
            \A a \in stored : a \in DOMAIN records' \/ AssetSpoiled(a)']_vars
  <2> SUFFICES ASSUME IInv, [Next]_vars, phase = "down", rooted', NEW a \in stored,
                      ~AssetSpoiled(a)'
               PROVE  a \in DOMAIN records'
    OBVIOUS
  <2>1. Start
    BY DEF Next, Accept, Stamp, Issue, Idle, Save, Autosave, Stop, Crash, Replace, Open, Write,
           Drop, Rename, RemoveTarget, RenameAgain, IInv, Replacing, vars, memoryVars
  <2>2. PICK rootMade \in BOOLEAN, unread \in SUBSET Asset :
          /\ rooted' = rootMade
          /\ records' = [x \in {x \in Asset \ unread : rootMade /\ Found(x)} |-> target[Meta(x)]]
          /\ \A g \in spoiled \cup {Bin(x) : x \in unread} : g \in spoiled'
    BY <2>1 DEF Start
  <2>3. a \in Asset /\ BytesKept(a) /\ \E n \in Name : NameKept(a, n)
    BY DEF IInv, AssetsKept, TypeOK
  <2>4. Bin(a) \notin spoiled' /\ Meta(a) \notin spoiled'
    BY DEF AssetSpoiled
  <2>5. a \notin unread /\ Bin(a) \notin spoiled /\ Meta(a) \notin spoiled
    BY <2>2, <2>4
  <2> QED BY <2>2, <2>3, <2>5 DEF BytesKept, NameKept, Found
<1> QED BY <1>1, <1>2, Starts, Inductive, PTL DEF Spec, AssetsAreKept, StoredIsFound
-----------------------------------------------------------------------------
(* Every file is replaced as StableStore promises *)

Kept == [f \in File |-> Whole(target[f])]
Wanted == IF job = None THEN None
          ELSE [name |-> job.file, value |-> job.value, hit |-> job.hit]

\* The step is one of the store's.
Simulates == [Store!StNext]_<<Kept, Wanted>>

LEMMA WantedIs ==
    ASSUME TypeOK
    PROVE  /\ job = None => Wanted = None
           /\ job # None => /\ Wanted \in Store!Replacements
                            /\ Wanted.name = job.file /\ Wanted.value = job.value
                            /\ Wanted.hit = job.hit
<1>1. CASE job = None
  BY <1>1 DEF Wanted
<1>2. CASE job # None
  <2>1. job \in Replacement
    BY <1>2 DEF TypeOK
  <2>2. job.file \in File /\ job.value \in Whatever /\ job.hit \in BOOLEAN
    BY <2>1, JobFields
  <2> QED BY <1>2, <2>2 DEF Wanted, Store!Replacements, Whatever
<1> QED BY <1>1, <1>2

\* While a replacement is under way, a step that leaves the files, replaces its
\* own, or loses it after a failure is the store's.
LEMMA WorkSimulates ==
    ASSUME TypeOK, TypeOK', job # None,
           \/ Kept' = Kept
           \/ Kept' = [Kept EXCEPT ![job.file] = job.value]
           \/ job.hit /\ Kept' = [Kept EXCEPT ![job.file] = None]
    PROVE  Simulates
<1>1. Wanted \in Store!Replacements /\ Wanted.name = job.file /\ Wanted.value = job.value
      /\ Wanted.hit = job.hit
  BY WantedIs
<1>2. Wanted' \in Store!Replacements \cup {None}
  <2>1. CASE job' = None
    BY <2>1 DEF Wanted
  <2>2. CASE job' # None
    <3>1. job' \in Replacement
      BY <2>2 DEF TypeOK
    <3>2. job'.file \in File /\ job'.value \in Whatever /\ job'.hit \in BOOLEAN
      BY <3>1, JobFields
    <3> QED BY <2>2, <3>2 DEF Wanted, Store!Replacements, Whatever
  <2> QED BY <2>1, <2>2
<1> QED BY <1>1, <1>2 DEF Simulates, Store!StNext, Store!Work, Kept, Wanted
LEMMA StillSimulates ==
    ASSUME TypeOK, TypeOK', UNCHANGED target
    PROVE  Simulates
<1>1. Kept' = Kept
  BY DEF Kept, Whole
<1>2. CASE job # None
  BY <1>1, <1>2, WorkSimulates
<1>3. CASE job = None
  <2>1. Wanted = None
    BY <1>3, WantedIs
  <2>2. Wanted' \in Store!Replacements \cup {None}
    <3>1. CASE job' = None
      BY <3>1 DEF Wanted
    <3>2. CASE job' # None
      <4>1. job' \in Replacement
        BY <3>2 DEF TypeOK
      <4>2. job'.file \in File /\ job'.value \in Whatever /\ job'.hit \in BOOLEAN
        BY <4>1, JobFields
      <4> QED BY <3>2, <4>2 DEF Wanted, Store!Replacements, Whatever
    <3> QED BY <3>1, <3>2
  <2> QED BY <1>1, <2>1, <2>2 DEF Simulates, Store!StNext, Store!Ask, Kept, Wanted
<1> QED BY <1>2, <1>3

LEMMA MovedSimulates ==
    ASSUME IInv, IInv', job # None, job.at \in {"rename", "again"}, Moved
    PROVE  Simulates
<1>1. TypeOK /\ TypeOK' /\ Replacing
  BY DEF IInv
<1>2. PICK f \in File, v \in Whatever : f = job.file /\ v = job.value
  BY <1>1, JobFields DEF TypeOK
<1>3. /\ \A g \in File \ {f} : target'[g] = target[g]
      /\ target'[f] = v \/ (target'[f] \in {Torn, Cut} /\ job.hit)
  BY <1>1, <1>2, MovedTarget
<1>4. Kept' = [Kept EXCEPT ![f] = Whole(target'[f])]
  BY <1>2, <1>3 DEF Kept, Whole
<1>5. Whole(v) = v /\ Whole(Torn) = None /\ Whole(Cut) = None
  BY <1>2, SignsApart DEF Whole
<1>6. Kept' = [Kept EXCEPT ![f] = v] \/ (job.hit /\ Kept' = [Kept EXCEPT ![f] = None])
  BY <1>3, <1>4, <1>5
<1> QED BY <1>1, <1>2, <1>6, WorkSimulates

LEMMA RemoveSimulates ==
    ASSUME IInv, IInv', RemoveTarget
    PROVE  Simulates
<1>1. TypeOK /\ TypeOK' /\ Replacing /\ job # None /\ job.at = "remove"
  BY DEF IInv, RemoveTarget
<1>2. PICK f \in File : f = job.file
  BY <1>1, JobFields DEF TypeOK
<1>3. CASE UNCHANGED target
  BY <1>1, <1>3, StillSimulates
<1>4. CASE target' = [target EXCEPT ![f] = Absent]
  <2>1. \A g \in File : target'[g] = IF g = f THEN Absent ELSE target[g]
    BY <1>1, <1>4 DEF TypeOK
  <2>2. Kept' = [Kept EXCEPT ![f] = None]
    BY <1>2, <2>1 DEF Kept, Whole
  <2>3. job.hit
    BY <1>1 DEF Replacing
  <2> QED BY <1>1, <1>2, <2>2, <2>3, WorkSimulates
<1> QED BY <1>2, <1>3, <1>4 DEF RemoveTarget

LEMMA StepSimulates ==
    ASSUME IInv, IInv', [Next]_vars
    PROVE  Simulates
<1>1. CASE RemoveTarget
  BY <1>1, RemoveSimulates
<1>2. CASE (Rename \/ RenameAgain) /\ Moved
  BY <1>2, MovedSimulates DEF Rename, RenameAgain
<1>3. CASE ~RemoveTarget /\ ~((Rename \/ RenameAgain) /\ Moved)
  <2>1. UNCHANGED target
    BY <1>3 DEF Next, Start, Accept, Stamp, Issue, Save, Autosave, Stop, Crash, Replace, Open,
                Truncates, Write, Drop, Rename, RenameAgain, Refused, vars, diskVars
  <2> QED BY <2>1, StillSimulates DEF IInv
<1> QED BY <1>1, <1>2, <1>3

\* Whatever fails and whenever the process dies, a file holds what it held or what
\* its replacement was to write, and is lost only to a replacement hit by a
\* failure (saveWorldToFile, writeBinaryFile, writeMetaFile), for any number of
\* files, values, faults and crashes.
THEOREM ReplacementsAreWhole == Spec => ReplacesWhole
<1>1. Init => Store!StInit
  <2> SUFFICES ASSUME Init PROVE Store!StInit
    OBVIOUS
  <2>1. TypeOK /\ job = None
    BY Starts DEF IInv, Init
  <2>2. \A f \in File : Whole(target[f]) \in Whatever \cup {None}
    BY <2>1 DEF TypeOK, Whole
  <2> QED BY <2>1, <2>2 DEF Store!StInit, Whatever
<1>2. IInv /\ IInv' /\ [Next]_vars => [Store!StNext]_<<Kept, Wanted>>
  BY StepSimulates DEF Simulates
<1> QED BY <1>1, <1>2, Starts, Inductive, PTL DEF Spec, ReplacesWhole, Store!StSpec, Kept, Wanted
=============================================================================
