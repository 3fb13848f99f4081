------------------------------ MODULE Collect ------------------------------
(***************************************************************************)
(* The way of one spec's files from the host into the archive and from the *)
(* archive to the parsers: plugins register filters, the datasource makes  *)
(* a provider of each file (spec_factory.py), the persister has each of    *)
(* them loaded, cleaned (cleaner/), written and listed in the spec's       *)
(* metadata (serde.py), and the analysis hydrates and filters them again.  *)
(*                                                                         *)
(* A line is what the cleaner can tell of it: the keys it contains, those  *)
(* its text shows once it is obfuscated (a replaced address, host name or  *)
(* keyword may take keys away and bring others), whether a pattern redacts *)
(* it, and the addresses in it, which are numbers: 0 is 127.0.0.1, StartIp *)
(* is 10.230.230.1.  Addresses stand for all that is obfuscated, and are   *)
(* atoms: one is no part of the text of another.  The cleaner and its      *)
(* database of addresses are one for all files; with a parallel run        *)
(* strategy the threads of the pool clean files at the same time, as the   *)
(* "obfuscate" that would prevent it (collect.py:259) is reset by the      *)
(* configuration (client/config.py:714).                                   *)
(***************************************************************************)
EXTENDS Filters, Sequences, FiniteSetsExt

CONSTANTS
  Plugin,         \* what plugins add: a datasource, a key and a number of lines
  Impl, Point,    \* the datasource and the registry point it implements
  File,           \* the files it may find
  Content,        \* the contents they may have
  Workers,        \* the threads that clean files
  StartIp,
  max_files       \* of glob_file

Address == Nat
Line == [keys : SUBSET Key, shown : SUBSET Key, redacted : BOOLEAN, ips : Seq(Address)]

ASSUME CollectAssumption ==
  /\ Point \in Datasource /\ Impl \in Datasource
  /\ Downstream[Point] = {Point} /\ Downstream[Impl] = {Impl, Point}
  /\ Plugin \subseteq Datasource \X Key \X (1 .. MAX_MATCH)
  /\ Content \subseteq Seq(Line)
  /\ IsFiniteSet(File) /\ Workers \in Nat /\ StartIp \in Nat \ {0} /\ max_files \in Nat

VARIABLES
  filterable,   \* the registry point is declared so
  content,      \* File -> its lines on the host
  filters,      \* the filters the providers were made with
  spec,         \* of the spec: whether it has providers, then its metadata
  provided,     \* the files it has providers of
  pc,           \* File -> where its provider is
  pos,          \* File -> the line it is about; lines are taken last to first
  allowlist,    \* File -> how many lines each key may still match
  kept,         \* File -> the lines that were kept
  text,         \* File -> the addresses its lines have now
  ips,          \* File -> the addresses still to replace in the line
  ip, new_ip,   \* File -> the one at hand, and what it is replaced with
  db,           \* _ip_db: obfuscated address -> the original
  seen          \* File -> the lines the parsers get

provider == <<filterable, content, filters, spec, provided>>
obfuscation == <<text, ips, ip, new_ip, db>>
vars == <<filterVars, provider, pc, pos, allowlist, kept, obfuscation, seen>>

Addresses(line) == {line.ips[i] : i \in DOMAIN line.ips}
Goto(e, label) == pc' = [pc EXCEPT ![e] = label]

-----------------------------------------------------------------------------
(* Plugins are loaded; glob_file makes the providers.                      *)

Register ==
  /\ spec = "new"
  /\ filterable
  /\ \/ \E p \in Plugin : AddFilter(p[1], p[2], p[3])
     \/ \E c \in Datasource : GetFilters(c)
  /\ UNCHANGED <<provider, pc, pos, allowlist, kept, obfuscation, seen>>

\* Of the files that exist, may be collected and can be read.  Without any, with
\* too many or with no filters there is no result.
MakeProviders ==
  /\ spec = "new"
  /\ \E f \in Filter : Answer(Impl, f) /\ filters' = f
  /\ provided' \in SUBSET File
  /\ spec' = IF provided' = {} \/ Cardinality(provided') > max_files
                  \/ (filterable /\ Keys(filters') = {})
               THEN "none" ELSE "made"
  /\ UNCHANGED <<filterable, content, pc, pos, allowlist, kept, obfuscation, seen>>

-----------------------------------------------------------------------------
(* Loading and filtering, a line at a time.                                *)

Working(e) == pc[e] \notin {"new", "failed", "written"}

\* grep leaves the lines that contain a key.
Loaded(e) == { i \in DOMAIN content[e] :
                 Keys(filters) # {} => content[e][i].keys \cap Keys(filters) # {} }

Load(e) ==
  /\ spec = "made" /\ e \in provided /\ pc[e] = "new"
  /\ Cardinality({d \in File : Working(d)}) < Workers
  /\ \/ Loaded(e) # {} /\ Goto(e, "line")
     \/ Goto(e, "failed")
  /\ pos' = [pos EXCEPT ![e] = Len(content[e])]
  /\ allowlist' = [allowlist EXCEPT ![e] = filters]
  /\ text' = [text EXCEPT ![e] = [i \in DOMAIN content[e] |-> content[e][i].ips]]
  /\ UNCHANGED <<filterVars, provider, kept, ips, ip, new_ip, db, seen>>

Current(e) == content[e][pos[e]]

\* Mutant of Charge: nobody pays.
ChargeNothing(e, k) == UNCHANGED allowlist

\* The first live key that is found pays; which one is first is arbitrary.
Charge(e, k) == allowlist' = [allowlist EXCEPT ![e][k] = @ - 1]

\* Mutants of Live: a key is spent one line too early, or never.
LiveTwice(e) == {k \in Current(e).keys : allowlist[e][k] > 1}
LiveAlways(e) == Current(e).keys

Live(e) == Current(e).keys \cap Keys(allowlist[e])

\* Redaction first, then the allowlist.
Discarded(e) ==
  Current(e).redacted \/ pos[e] \notin Loaded(e) \/ (filterable /\ Live(e) = {})

\* Mutant of Discard: the line is looked at again.
DiscardStays(e) ==
  /\ pc[e] = "line" /\ pos[e] > 0 /\ Discarded(e)
  /\ UNCHANGED vars

Discard(e) ==
  /\ pc[e] = "line" /\ pos[e] > 0 /\ Discarded(e)
  /\ pos' = [pos EXCEPT ![e] = @ - 1]
  /\ UNCHANGED <<filterVars, provider, pc, allowlist, kept, obfuscation, seen>>

Keep(e) ==
  /\ pc[e] = "line" /\ pos[e] > 0 /\ ~Discarded(e)
  /\ IF filterable THEN \E k \in Live(e) : Charge(e, k) ELSE UNCHANGED allowlist
  /\ ips' = [ips EXCEPT ![e] = Addresses(Current(e)) \ {0}]
  /\ Goto(e, "obfuscate")
  /\ UNCHANGED <<filterVars, provider, pos, kept, text, ip, new_ip, db, seen>>

-----------------------------------------------------------------------------
(* Obfuscation: IPv4.parse_line and _ip2db, an address at a time.          *)

Originals == {db[n] : n \in DOMAIN db}

Replace(e, old, new) ==
  /\ text' = [text EXCEPT ![e][pos[e]] = [j \in DOMAIN @ |-> IF @[j] = old THEN new ELSE @[j]]]
  /\ ips' = [ips EXCEPT ![e] = @ \ {old}]

Find(e) ==
  /\ pc[e] = "obfuscate"
  /\ \E old \in ips[e] :
       /\ \E new \in DOMAIN db : db[new] = old /\ Replace(e, old, new)
  /\ UNCHANGED <<filterVars, provider, pc, pos, allowlist, kept, ip, new_ip, db, seen>>

\* Mutant of NotFound: the database is not searched.
NotSearched(e) ==
  /\ pc[e] = "obfuscate"
  /\ \E old \in ips[e] : ip' = [ip EXCEPT ![e] = old]
  /\ Goto(e, "allocate")
  /\ UNCHANGED <<filterVars, provider, pos, allowlist, kept, text, ips, new_ip, db, seen>>

NotFound(e) ==
  /\ pc[e] = "obfuscate"
  /\ \E old \in ips[e] \ Originals : ip' = [ip EXCEPT ![e] = old]
  /\ Goto(e, "allocate")
  /\ UNCHANGED <<filterVars, provider, pos, allowlist, kept, text, ips, new_ip, db, seen>>

\* Mutant of NextIp: one address is given out twice.
SameIp == IF DOMAIN db = {} THEN StartIp ELSE Max(DOMAIN db)

NextIp == IF DOMAIN db = {} THEN StartIp ELSE Max(DOMAIN db) + 1

Allocate(e) ==
  /\ pc[e] = "allocate"
  /\ new_ip' = [new_ip EXCEPT ![e] = NextIp]
  /\ Goto(e, "insert")
  /\ UNCHANGED <<filterVars, provider, pos, allowlist, kept, text, ips, ip, db, seen>>

Insert(e) ==
  /\ pc[e] = "insert"
  /\ db' = [n \in DOMAIN db \cup {new_ip[e]} |-> IF n = new_ip[e] THEN ip[e] ELSE db[n]]
  /\ Replace(e, ip[e], new_ip[e])
  /\ Goto(e, "obfuscate")
  /\ UNCHANGED <<filterVars, provider, pos, allowlist, kept, ip, new_ip, seen>>

\* Mutant of LineDone: some addresses are left.
LineLeft(e) ==
  /\ pc[e] = "obfuscate"
  /\ kept' = [kept EXCEPT ![e] = @ \cup {pos[e]}]
  /\ pos' = [pos EXCEPT ![e] = @ - 1]
  /\ Goto(e, "line")
  /\ UNCHANGED <<filterVars, provider, allowlist, obfuscation, seen>>

LineDone(e) ==
  /\ pc[e] = "obfuscate" /\ ips[e] = {}
  /\ kept' = [kept EXCEPT ![e] = @ \cup {pos[e]}]
  /\ pos' = [pos EXCEPT ![e] = @ - 1]
  /\ Goto(e, "line")
  /\ UNCHANGED <<filterVars, provider, allowlist, obfuscation, seen>>

-----------------------------------------------------------------------------
(* Writing, and the metadata.                                              *)

\* A file that cleaning left empty is not written, or writing fails.
Write(e) ==
  /\ pc[e] = "line" /\ pos[e] = 0
  /\ \/ kept[e] # {} /\ Goto(e, "written")
     \/ Goto(e, "failed")
  /\ UNCHANGED <<filterVars, provider, pos, allowlist, kept, obfuscation, seen>>

Written == {e \in provided : pc[e] = "written"}

\* The metadata lists the files that were written and the errors of the others.
Dehydrate ==
  /\ spec = "made" /\ \A e \in provided : pc[e] \in {"written", "failed"}
  /\ spec' \in {"listed", "unlisted"}
  /\ UNCHANGED <<filterVars, filterable, content, filters, provided, pc, pos, allowlist,
                 kept, obfuscation, seen>>

-----------------------------------------------------------------------------
(* The analysis: hydrate, and filter_content with the point's filters.     *)

\* Mutant of Hydrate: the allowlist the cleaner used up is used again.
HydrateUsed ==
  /\ spec = "listed" /\ Written # {}
  /\ \E f \in Filter : Answer(Point, f)
  /\ pos' = [e \in File |-> Len(content[e])]
  /\ spec' \in {"hydrated", "none"}
  /\ UNCHANGED <<filterable, content, filters, provided, pc, allowlist, kept, obfuscation, seen>>

\* A file that cannot be read loses all of them.  The plugins of the analysis
\* are those of the host.
Hydrate ==
  /\ spec = "listed" /\ Written # {}
  /\ \E f \in Filter : Answer(Point, f) /\ allowlist' = [e \in File |-> f]
  /\ pos' = [e \in File |-> Len(content[e])]
  /\ spec' \in {"hydrated", "none"}
  /\ UNCHANGED <<filterable, content, filters, provided, pc, kept, obfuscation, seen>>

\* Now the keys are looked for in the text that was written.
LiveShown(e) == Current(e).shown \cap Keys(allowlist[e])

\* Without filters a file is not filtered.
Unfiltered == Keys(CACHE[Point]) = {}

FilterLine(e) ==
  /\ spec = "hydrated" /\ e \in Written /\ pos[e] > 0
  /\ pos' = [pos EXCEPT ![e] = @ - 1]
  /\ IF pos[e] \in kept[e] /\ (Unfiltered \/ LiveShown(e) # {})
       THEN /\ seen' = [seen EXCEPT ![e] = @ \cup {pos[e]}]
            /\ IF Unfiltered THEN UNCHANGED allowlist ELSE \E k \in LiveShown(e) : Charge(e, k)
       ELSE UNCHANGED <<seen, allowlist>>
  /\ UNCHANGED <<filterVars, provider, pc, kept, obfuscation>>

-----------------------------------------------------------------------------
Work(e) ==
  Load(e) \/ Discard(e) \/ Keep(e) \/ Find(e) \/ NotFound(e) \/ Allocate(e)
    \/ Insert(e) \/ LineDone(e) \/ Write(e)

Next ==
  \/ Register \/ MakeProviders \/ Dehydrate \/ Hydrate
  \/ \E e \in File : Work(e) \/ FilterLine(e)

Init ==
  /\ FiltersInit
  /\ filterable \in BOOLEAN
  /\ content \in [File -> Content]
  /\ filters = NoFilters /\ spec = "new" /\ provided = {}
  /\ pc = [e \in File |-> "new"] /\ pos = [e \in File |-> 0]
  /\ allowlist = [e \in File |-> NoFilters]
  /\ kept = [e \in File |-> {}] /\ text = [e \in File |-> << >>]
  /\ ips = [e \in File |-> {}]
  /\ ip = [e \in File |-> 0] /\ new_ip = [e \in File |-> 0]
  /\ db = << >>
  /\ seen = [e \in File |-> {}]

Spec == Init /\ [][Next]_vars

\* The collection goes on as long as there is a file to work on.
FairSpec == Spec /\ WF_vars(\E e \in File : Work(e)) /\ WF_vars(Dehydrate)

-----------------------------------------------------------------------------
(* Properties.                                                             *)

TypeOK ==
  /\ FiltersTypeOK
  /\ filterable \in BOOLEAN /\ content \in [File -> Content]
  /\ filters \in Filter /\ provided \subseteq File
  /\ spec \in {"new", "none", "made", "listed", "unlisted", "hydrated"}
  /\ pc \in [File -> {"new", "line", "obfuscate", "allocate", "insert", "written", "failed"}]
  /\ pos \in [File -> Nat]
  /\ \A e \in File : pos[e] <= Len(content[e])
  /\ allowlist \in [File -> Filter]
  /\ kept \in [File -> SUBSET Nat] /\ seen \in [File -> SUBSET Nat]
  /\ text \in [File -> Seq(Seq(Address))]
  /\ ips \in [File -> SUBSET Address]
  /\ ip \in [File -> Address] /\ new_ip \in [File -> Address]
  /\ DOMAIN db \subseteq Nat /\ Originals \subseteq Address

Having(e, k) == { i \in DOMAIN content[e] : k \in content[e][i].keys /\ ~content[e][i].redacted }
Last(lines, m) == { i \in lines : Cardinality({ j \in lines : j > i }) < m }

\* A plugin that filters a file gets the last lines it asked for, as many as it
\* asked for, whichever other key pays for a line that contains several: the
\* cleaner drops none of them, and redacted lines do not count.
NeededLinesKept ==
  \A e \in provided : filterable /\ pc[e] = "written" =>
    \A k \in Key : Last(Having(e, k), filters[k]) \subseteq kept[e]

\* What is collected has no redacted line and is bounded by what plugins asked for:
\* each line stands for a key it contains, and no key has more lines than its number.
NothingUnwanted ==
  \A e \in provided :
    /\ \A i \in kept[e] : ~content[e][i].redacted
    /\ filterable => \E charged \in [kept[e] -> Key] :
         /\ \A i \in kept[e] : charged[i] \in content[e][i].keys
         /\ \A k \in Key : Cardinality({i \in kept[e] : charged[i] = k}) <= filters[k]

\* Obfuscation has brought the key into no line of the file that was kept.
NotBroughtIn(e, k) == \A i \in kept[e] : k \in content[e][i].shown => k \in content[e][i].keys

\* Filtering the archive again loses none of the lines that were collected for a
\* filter and still show it, although keys may pay for other lines than they did on
\* the host: unless obfuscation brought the key into other lines, which then count.
AnalysisSeesNeeded ==
  \A e \in provided : spec = "hydrated" /\ pc[e] = "written" /\ pos[e] = 0 /\ filterable =>
    \A k \in Keys(filters) :
      CACHE[Point][k] = filters[k] /\ NotBroughtIn(e, k) =>
        {i \in Last(Having(e, k), filters[k]) : k \in content[e][i].shown} \subseteq seen[e]

\* An address has one replacement.
OneToOne == \A m, n \in DOMAIN db : db[m] = db[n] => m = n

\* The report of the cleaner (its database) tells, of every address written,
\* which one was on the host, as long as the host's line has none from the range
\* addresses are replaced with.
Reversible ==
  \A e \in provided : \A i \in kept[e] :
    (\A a \in Addresses(content[e][i]) : a < StartIp) =>
      \A j \in DOMAIN content[e][i].ips :
        LET old == content[e][i].ips[j]  new == text[e][i][j] IN
          IF old = 0 THEN new = 0 ELSE new \in DOMAIN db /\ db[new] = old

\* No address is written as it was on the host, unless it is 127.0.0.1 or also
\* a replacement.
NoOriginalLeft ==
  \A e \in provided : \A i \in kept[e] : \A j \in DOMAIN text[e][i] :
    text[e][i][j] \in DOMAIN db \cup {0}

\* Every collection that was begun ends with its metadata.
CollectionEnds == spec = "made" ~> spec # "made"
=============================================================================
