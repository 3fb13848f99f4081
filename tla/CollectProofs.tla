--------------------------- MODULE CollectProofs ---------------------------
(***************************************************************************)
(* Proofs about the way of a file into the archive, for any plugins, files *)
(* and lines: the types, what the filters keep, and, with one thread, that *)
(* addresses are replaced one to one and can be traced back.               *)
(***************************************************************************)
EXTENDS Collect, FiniteSetTheorems, TLAPS

-----------------------------------------------------------------------------
(* The filters.                                                            *)

FiltersInv == FiltersTypeOK /\ OwnFiltersCurrent

\* A filter that is added is a filter of its component, whose answer is forgotten.
LEMMA AddFilterKeeps ==
  ASSUME FiltersInv, NEW c \in Datasource, NEW k \in Key, NEW m \in 1 .. MAX_MATCH,
         AddFilter(c, k, m)
  PROVE  FiltersInv'
<1>1. /\ FILTERS' = [FILTERS EXCEPT ![c][k] = Larger(@, m)]
      /\ cached' = cached \ {c} /\ CACHE' = CACHE
  BY DEF AddFilter
<1>2. FILTERS[c] \in Filter /\ FILTERS[c][k] \in 0 .. MAX_MATCH
  BY DEF FiltersInv, FiltersTypeOK, Filter
<1>3. Larger(FILTERS[c][k], m) \in 0 .. MAX_MATCH
  BY <1>2, FiltersAssumption DEF Larger
<1>4. [FILTERS[c] EXCEPT ![k] = Larger(FILTERS[c][k], m)] \in Filter
  BY <1>2, <1>3 DEF Filter
<1>5. FILTERS' \in [Datasource -> Filter]
  BY <1>1, <1>4 DEF FiltersInv, FiltersTypeOK
<1>6. \A d \in cached' : d # c /\ FILTERS'[d] = FILTERS[d]
  BY <1>1 DEF FiltersInv, FiltersTypeOK
<1>7. OwnFiltersCurrent'
  BY <1>1, <1>6 DEF FiltersInv, OwnFiltersCurrent, Keys
<1>. QED BY <1>1, <1>5, <1>7 DEF FiltersInv, FiltersTypeOK

\* An answer is a filter, is remembered, and has the component's own filters.
LEMMA AnswerKeeps ==
  ASSUME FiltersInv, NEW c \in Datasource, NEW f \in Filter, Answer(c, f)
  PROVE  FiltersInv' /\ CACHE'[c] = f
<1>1. CASE c \in cached
  BY <1>1 DEF Answer, filterVars, FiltersInv, FiltersTypeOK, OwnFiltersCurrent
<1>2. CASE c \notin cached
  <2>1. /\ f \in Answers(c) /\ FILTERS' = FILTERS
        /\ CACHE' = [CACHE EXCEPT ![c] = f] /\ cached' = cached \cup {c}
    BY <1>2 DEF Answer
  <2>2. CACHE' \in [Datasource -> Filter] /\ CACHE'[c] = f
        /\ \A d \in Datasource : d # c => CACHE'[d] = CACHE[d]
    BY <2>1 DEF FiltersInv, FiltersTypeOK
  <2>3. ASSUME NEW k \in Key, FILTERS[c][k] > 0
        PROVE  f[k] > 0
    <3>1. c \in {d \in Downstream[c] : FILTERS[d][k] > 0}
      BY <2>3, FiltersAssumption
    <3>2. PICK d \in {d \in Downstream[c] : FILTERS[d][k] > 0} : f[k] = FILTERS[d][k]
      BY <2>1, <3>1 DEF Answers
    <3>. QED BY <3>2
  <2>4. Keys(FILTERS[c]) \subseteq Keys(f)
    BY <2>3 DEF Keys
  <2>5. ASSUME NEW d \in cached'
        PROVE  Keys(FILTERS'[d]) \subseteq Keys(CACHE'[d])
    <3>1. CASE d = c
      BY <3>1, <2>1, <2>2, <2>4
    <3>2. CASE d # c
      <4>1. d \in cached /\ d \in Datasource
        BY <3>2, <2>1 DEF FiltersInv, FiltersTypeOK
      <4>2. CACHE'[d] = CACHE[d] /\ FILTERS'[d] = FILTERS[d]
        BY <3>2, <4>1, <2>1, <2>2
      <4>. QED BY <4>1, <4>2 DEF FiltersInv, OwnFiltersCurrent
    <3>. QED BY <3>1, <3>2
  <2>6. OwnFiltersCurrent'
    BY <2>5 DEF OwnFiltersCurrent
  <2>. QED BY <2>1, <2>2, <2>6 DEF FiltersInv, FiltersTypeOK
<1>. QED BY <1>1, <1>2

-----------------------------------------------------------------------------
(* Types and places.                                                       *)

\* What has been decided of a file is behind the line it is about; its text has
\* the shape of its content.
Place(e) ==
  /\ pc[e] # "new" => e \in provided /\ spec # "new"
  /\ Working(e) => spec = "made"
  /\ pc[e] \in {"obfuscate", "allocate", "insert"} => pos[e] # 0
  /\ kept[e] \subseteq DOMAIN content[e]
  /\ Working(e) => \A i \in kept[e] : i > pos[e]
  /\ pc[e] = "new" => kept[e] = {}
  /\ pc[e] # "new" =>
       /\ DOMAIN text[e] = DOMAIN content[e]
       /\ \A i \in DOMAIN content[e] : DOMAIN text[e][i] = DOMAIN content[e][i].ips

\* Replacements are given out one after the other, without gaps.
DbInv ==
  \E n \in Nat :
    /\ DOMAIN db = StartIp .. StartIp + n - 1
    /\ \A e \in File : pc[e] = "insert" => new_ip[e] \in StartIp .. StartIp + n

TypeInv == FiltersInv /\ TypeOK /\ (\A e \in File : Place(e)) /\ DbInv

\* What is known of the lines of a file.
LEMMA Lines ==
  ASSUME TypeOK, NEW e \in File
  PROVE  /\ content[e] \in Seq(Line) /\ Len(content[e]) \in Nat
         /\ DOMAIN content[e] = 1 .. Len(content[e])
         /\ pos[e] \in 0 .. Len(content[e])
         /\ \A i \in DOMAIN content[e] :
              /\ content[e][i].keys \subseteq Key /\ content[e][i].shown \subseteq Key
              /\ content[e][i].redacted \in BOOLEAN
              /\ content[e][i].ips \in Seq(Nat)
              /\ \A j \in DOMAIN content[e][i].ips : content[e][i].ips[j] \in Nat
<1>1. content[e] \in Seq(Line)
  BY CollectAssumption DEF TypeOK
<1>2. DOMAIN content[e] = 1 .. Len(content[e]) /\ Len(content[e]) \in Nat
  BY <1>1
<1>3. pos[e] \in 0 .. Len(content[e])
  BY <1>2 DEF TypeOK
<1>4. ASSUME NEW i \in DOMAIN content[e]
      PROVE  /\ content[e][i].keys \subseteq Key /\ content[e][i].shown \subseteq Key
             /\ content[e][i].redacted \in BOOLEAN
             /\ content[e][i].ips \in Seq(Nat)
             /\ \A j \in DOMAIN content[e][i].ips : content[e][i].ips[j] \in Nat
  <2>1. content[e][i] \in Line
    BY <1>1
  <2>2. /\ content[e][i].keys \subseteq Key /\ content[e][i].shown \subseteq Key
        /\ content[e][i].redacted \in BOOLEAN
        /\ content[e][i].ips \in Seq(Nat)
    BY <2>1 DEF Line, Address
  <2>. QED BY <2>2
<1>. QED BY <1>1, <1>2, <1>3, <1>4

\* An address that is replaced changes nothing but the line at hand, and not its
\* shape.
LEMMA ReplaceTypes ==
  ASSUME TypeOK, NEW e \in File, pos[e] \in DOMAIN text[e],
         NEW old \in Address, NEW new \in Address, Replace(e, old, new)
  PROVE  /\ text' \in [File -> Seq(Seq(Address))] /\ ips' \in [File -> SUBSET Address]
         /\ \A f \in File : f # e => text'[f] = text[f] /\ ips'[f] = ips[f]
         /\ ips'[e] = ips[e] \ {old}
         /\ DOMAIN text'[e] = DOMAIN text[e]
         /\ \A i \in DOMAIN text[e] : i # pos[e] => text'[e][i] = text[e][i]
         /\ text'[e][pos[e]] = [j \in DOMAIN text[e][pos[e]] |->
                                  IF text[e][pos[e]][j] = old THEN new ELSE text[e][pos[e]][j]]
         /\ \A i \in DOMAIN text[e] : DOMAIN text'[e][i] = DOMAIN text[e][i]
<1>. DEFINE i == pos[e]
            line == [j \in DOMAIN text[e][i] |-> IF text[e][i][j] = old THEN new ELSE text[e][i][j]]
<1>1. text[e] \in Seq(Seq(Address)) /\ text[e][i] \in Seq(Address)
  BY DEF TypeOK
<1>2. line \in Seq(Address)
  <2>1. DOMAIN text[e][i] = 1 .. Len(text[e][i]) /\ Len(text[e][i]) \in Nat
        /\ \A j \in DOMAIN text[e][i] : text[e][i][j] \in Address
    BY <1>1
  <2>2. line \in [1 .. Len(text[e][i]) -> Address]
    BY <2>1
  <2>. QED BY <2>1, <2>2
<1>3. text' = [text EXCEPT ![e] = [text[e] EXCEPT ![i] = line]]
  BY DEF Replace, TypeOK
<1>. HIDE DEF line
<1>4. [text[e] EXCEPT ![i] = line] \in Seq(Seq(Address))
  BY <1>1, <1>2
<1>5. /\ text' \in [File -> Seq(Seq(Address))]
      /\ \A f \in File : f # e => text'[f] = text[f]
      /\ text'[e] = [text[e] EXCEPT ![i] = line]
  BY <1>3, <1>4 DEF TypeOK
<1>6. /\ DOMAIN text'[e] = DOMAIN text[e] /\ text'[e][i] = line
      /\ \A m \in DOMAIN text[e] : m # i => text'[e][m] = text[e][m]
  BY <1>5, <1>1
<1>7. /\ ips' \in [File -> SUBSET Address] /\ ips'[e] = ips[e] \ {old}
      /\ \A f \in File : f # e => ips'[f] = ips[f]
  BY DEF Replace, TypeOK
<1>8. DOMAIN line = DOMAIN text[e][i]
  BY DEF line
<1>9. \A m \in DOMAIN text[e] : DOMAIN text'[e][m] = DOMAIN text[e][m]
  BY <1>6, <1>8
<1>10. line = [j \in DOMAIN text[e][i] |-> IF text[e][i][j] = old THEN new ELSE text[e][i][j]]
  BY DEF line
<1>. QED BY <1>5, <1>6, <1>7, <1>9, <1>10

PlaceOf == {"new", "line", "obfuscate", "allocate", "insert", "written", "failed"}

\* A step of one file leaves the others and what they share but for the database.
LEMMA FileStep ==
  ASSUME TypeInv, NEW e \in File, NEW l \in PlaceOf, Goto(e, l),
         UNCHANGED <<filterVars, provider, seen>>,
         pos' \in [File -> Nat], pos'[e] <= Len(content[e]),
         allowlist' \in [File -> Filter], kept' \in [File -> SUBSET Nat],
         text' \in [File -> Seq(Seq(Address))], ips' \in [File -> SUBSET Address],
         ip' \in [File -> Address], new_ip' \in [File -> Address],
         DOMAIN db' \subseteq Nat, Originals' \subseteq Address, DbInv',
         \A f \in File : f # e =>
           pos'[f] = pos[f] /\ kept'[f] = kept[f] /\ text'[f] = text[f],
         Place(e)'
  PROVE  TypeInv'
<1>1. /\ UNCHANGED <<FILTERS, CACHE, cached, filterable, content, filters, spec, provided, seen>>
  BY DEF filterVars, provider
<1>2. /\ pc' \in [File -> PlaceOf] /\ pc'[e] = l
      /\ \A f \in File : f # e => pc'[f] = pc[f]
  BY DEF TypeInv, TypeOK, PlaceOf, Goto
<1>3. FiltersInv'
  BY <1>1 DEF TypeInv, FiltersInv, FiltersTypeOK, OwnFiltersCurrent
<1>4. \A f \in File : pos'[f] <= Len(content'[f])
  BY <1>1 DEF TypeInv, TypeOK
<1>5. TypeOK'
  BY <1>1, <1>2, <1>3, <1>4 DEF TypeInv, TypeOK, PlaceOf, FiltersInv
<1>6. ASSUME NEW f \in File
      PROVE  Place(f)'
  <2>1. CASE f = e
    BY <2>1
  <2>2. CASE f # e
    <3>1. /\ pc'[f] = pc[f] /\ pos'[f] = pos[f] /\ kept'[f] = kept[f] /\ text'[f] = text[f]
      BY <1>2, <2>2
    <3>2. Place(f)
      BY DEF TypeInv
    <3>. QED BY <1>1, <3>1, <3>2 DEF Place, Working
  <2>. QED BY <2>1, <2>2
<1>. QED BY <1>3, <1>5, <1>6 DEF TypeInv

\* The database is untouched, and nothing is given out.
LEMMA DbSame ==
  ASSUME TypeInv, NEW e \in File, NEW l \in PlaceOf \ {"insert"}, Goto(e, l),
         UNCHANGED <<db, new_ip>>
  PROVE  DbInv' /\ DOMAIN db' \subseteq Nat /\ Originals' \subseteq Address
<1>1. \A f \in File : pc'[f] = "insert" => pc[f] = "insert"
  BY DEF Goto, TypeInv, TypeOK
<1>2. DbInv'
  BY <1>1 DEF TypeInv, DbInv
<1>. QED BY <1>2 DEF TypeInv, TypeOK, Originals

\* A file that is staying where it is.
LEMMA Stays ==
  ASSUME TypeInv, NEW e \in File, UNCHANGED pc
  PROVE  Goto(e, pc[e]) /\ pc[e] \in PlaceOf
BY DEF Goto, TypeInv, TypeOK, PlaceOf

LEMMA LoadKeeps ==
  ASSUME TypeInv, NEW e \in File, Load(e)
  PROVE  TypeInv'
<1>1. PICK l \in {"line", "failed"} : Goto(e, l)
  BY DEF Load
<1>2. /\ UNCHANGED <<filterVars, provider, seen, kept, ips, ip, new_ip, db>>
      /\ pos' = [pos EXCEPT ![e] = Len(content[e])]
      /\ allowlist' = [allowlist EXCEPT ![e] = filters]
      /\ text' = [text EXCEPT ![e] = [i \in DOMAIN content[e] |-> content[e][i].ips]]
      /\ spec = "made" /\ e \in provided /\ pc[e] = "new"
  BY DEF Load
<1>3. l \in PlaceOf \ {"insert"}
  BY DEF PlaceOf
<1>4. DbInv' /\ DOMAIN db' \subseteq Nat /\ Originals' \subseteq Address
  BY <1>1, <1>2, <1>3, DbSame
<1>5. Len(content[e]) \in Nat /\ DOMAIN content[e] = 1 .. Len(content[e])
      /\ \A i \in DOMAIN content[e] : content[e][i].ips \in Seq(Address)
  BY Lines DEF TypeInv, Address
<1>6. [i \in DOMAIN content[e] |-> content[e][i].ips] \in Seq(Seq(Address))
  BY <1>5
<1>7. /\ pos' \in [File -> Nat] /\ pos'[e] = Len(content[e])
      /\ allowlist' \in [File -> Filter]
      /\ text' \in [File -> Seq(Seq(Address))]
      /\ text'[e] = [i \in DOMAIN content[e] |-> content[e][i].ips]
      /\ \A f \in File : f # e => pos'[f] = pos[f] /\ text'[f] = text[f]
  BY <1>2, <1>5, <1>6 DEF TypeInv, TypeOK
<1>8. UNCHANGED <<spec, provided, content>> /\ kept'[e] = {} /\ pc'[e] = l
  <2>1. Place(e)
    BY DEF TypeInv
  <2>2. kept[e] = {}
    BY <1>2, <2>1 DEF Place
  <2>3. pc'[e] = l
    BY <1>1 DEF Goto, TypeInv, TypeOK
  <2>. QED BY <1>2, <2>2, <2>3 DEF provider
<1>9. Place(e)'
  BY <1>2, <1>7, <1>8 DEF Place, Working
<1>10. /\ kept' \in [File -> SUBSET Nat] /\ ips' \in [File -> SUBSET Address]
       /\ ip' \in [File -> Address] /\ new_ip' \in [File -> Address]
       /\ UNCHANGED <<filterVars, provider, seen>> /\ \A f \in File : kept'[f] = kept[f]
  BY <1>2 DEF TypeInv, TypeOK
<1>11. pos'[e] <= Len(content[e]) /\ l \in PlaceOf
  BY <1>3, <1>5, <1>7
<1>. QED BY <1>1, <1>4, <1>7, <1>9, <1>10, <1>11, FileStep

LEMMA DiscardKeeps ==
  ASSUME TypeInv, NEW e \in File, Discard(e)
  PROVE  TypeInv'
<1>1. /\ pc[e] = "line" /\ pos[e] > 0 /\ pos' = [pos EXCEPT ![e] = @ - 1]
      /\ UNCHANGED <<filterVars, provider, seen, pc, allowlist, kept, text, ips, ip, new_ip, db>>
  BY DEF Discard, obfuscation
<1>2. Goto(e, "line") /\ "line" \in PlaceOf \ {"insert"}
  BY <1>1, Stays DEF PlaceOf
<1>3. DbInv' /\ DOMAIN db' \subseteq Nat /\ Originals' \subseteq Address
  BY <1>1, <1>2, DbSame
<1>4. /\ pos' \in [File -> Nat] /\ pos'[e] = pos[e] - 1 /\ pos'[e] <= Len(content[e])
      /\ \A f \in File : f # e => pos'[f] = pos[f]
  BY <1>1, Lines DEF TypeInv, TypeOK
<1>5. Place(e) /\ kept[e] \subseteq Nat /\ pos[e] \in Nat
  BY DEF TypeInv, TypeOK
<1>6. Place(e)'
  BY <1>1, <1>4, <1>5 DEF Place, Working, provider
<1>. QED BY <1>1, <1>2, <1>3, <1>4, <1>6, FileStep DEF TypeInv, TypeOK

\* A live key pays.
LEMMA ChargeTypes ==
  ASSUME TypeInv, NEW e \in File, NEW k \in Key, allowlist[e][k] > 0, Charge(e, k)
  PROVE  /\ allowlist' \in [File -> Filter] /\ allowlist'[e][k] = allowlist[e][k] - 1
         /\ \A m \in Key : m # k => allowlist'[e][m] = allowlist[e][m]
         /\ \A f \in File : f # e => allowlist'[f] = allowlist[f]
<1>1. allowlist[e] \in [Key -> 0 .. MAX_MATCH] /\ MAX_MATCH \in Nat
  BY FiltersAssumption DEF TypeInv, TypeOK, Filter
<1>2. allowlist' = [allowlist EXCEPT ![e] = [allowlist[e] EXCEPT ![k] = allowlist[e][k] - 1]]
  BY DEF Charge, TypeInv, TypeOK
<1>3. [allowlist[e] EXCEPT ![k] = allowlist[e][k] - 1] \in [Key -> 0 .. MAX_MATCH]
  BY <1>1
<1>. QED BY <1>1, <1>2, <1>3 DEF TypeInv, TypeOK, Filter

LEMMA KeepKeeps ==
  ASSUME TypeInv, NEW e \in File, Keep(e)
  PROVE  TypeInv'
<1>1. /\ pc[e] = "line" /\ pos[e] > 0 /\ ~Discarded(e) /\ Goto(e, "obfuscate")
      /\ ips' = [ips EXCEPT ![e] = Addresses(Current(e)) \ {0}]
      /\ UNCHANGED <<filterVars, provider, seen, pos, kept, text, ip, new_ip, db>>
  BY DEF Keep
<1>2. "obfuscate" \in PlaceOf \ {"insert"}
  BY DEF PlaceOf
<1>3. DbInv' /\ DOMAIN db' \subseteq Nat /\ Originals' \subseteq Address
  BY <1>1, <1>2, DbSame
<1>4. pos[e] \in DOMAIN content[e] /\ pos[e] <= Len(content[e])
  BY <1>1, Lines DEF TypeInv
<1>5. Addresses(Current(e)) \subseteq Address
  BY <1>4, Lines DEF TypeInv, Addresses, Current, Address
<1>6. ips' \in [File -> SUBSET Address]
  BY <1>1, <1>5 DEF TypeInv, TypeOK
<1>7. allowlist' \in [File -> Filter]
  <2>1. ASSUME NEW k \in Live(e), Charge(e, k)
        PROVE  allowlist' \in [File -> Filter]
    <3>1. k \in Key /\ allowlist[e][k] > 0
      BY DEF Live, Keys
    <3>. QED BY <2>1, <3>1, ChargeTypes
  <2>. QED BY <2>1 DEF Keep, TypeInv, TypeOK
<1>8. Place(e) /\ pc'[e] = "obfuscate" /\ UNCHANGED <<spec, provided, content>>
  BY <1>1 DEF TypeInv, TypeOK, Goto, provider
<1>9. Place(e)'
  BY <1>1, <1>8 DEF Place, Working
<1>. QED BY <1>1, <1>2, <1>3, <1>4, <1>6, <1>7, <1>9, FileStep DEF TypeInv, TypeOK

\* A file whose text is changed in the line at hand keeps its place.
LEMMA TextPlace ==
  ASSUME TypeInv, NEW e \in File, pos[e] \in DOMAIN text[e],
         UNCHANGED <<provider, pos, kept>>, pc[e] # "new",
         pc'[e] \in {"obfuscate", "allocate", "insert"}, Working(e), pos[e] # 0,
         DOMAIN text'[e] = DOMAIN text[e],
         \A i \in DOMAIN text[e] : DOMAIN text'[e][i] = DOMAIN text[e][i]
  PROVE  Place(e)'
<1>1. Place(e) /\ UNCHANGED <<spec, provided, content>>
  BY DEF TypeInv, provider
<1>. QED BY <1>1 DEF Place, Working

\* A file that is being obfuscated is about one of its lines.
LEMMA AtLine ==
  ASSUME TypeInv, NEW e \in File, pc[e] \in {"obfuscate", "allocate", "insert"}
  PROVE  /\ pos[e] \in DOMAIN text[e] /\ pos[e] \in DOMAIN content[e] /\ pos[e] # 0
         /\ pos[e] \in Nat /\ pos[e] <= Len(content[e]) /\ Working(e) /\ pc[e] # "new"
         /\ e \in provided /\ spec = "made"
<1>1. Place(e)
  BY DEF TypeInv
<1>. QED BY <1>1, Lines DEF Place, Working, TypeInv

LEMMA FindKeeps ==
  ASSUME TypeInv, NEW e \in File, Find(e)
  PROVE  TypeInv'
<1>1. PICK old \in ips[e], new \in DOMAIN db : db[new] = old /\ Replace(e, old, new)
  BY DEF Find
<1>2. /\ UNCHANGED <<filterVars, provider, seen, pc, pos, allowlist, kept, ip, new_ip, db>>
      /\ pc[e] = "obfuscate"
  BY DEF Find
<1>3. old \in Address /\ new \in Address
  BY DEF TypeInv, TypeOK, Address
<1>4. Goto(e, "obfuscate") /\ "obfuscate" \in PlaceOf \ {"insert"}
  BY <1>2, Stays DEF PlaceOf
<1>5. DbInv' /\ DOMAIN db' \subseteq Nat /\ Originals' \subseteq Address
  BY <1>2, <1>4, DbSame
<1>6. /\ text' \in [File -> Seq(Seq(Address))] /\ ips' \in [File -> SUBSET Address]
      /\ \A f \in File : f # e => text'[f] = text[f]
      /\ DOMAIN text'[e] = DOMAIN text[e]
      /\ \A i \in DOMAIN text[e] : DOMAIN text'[e][i] = DOMAIN text[e][i]
  BY <1>1, <1>2, <1>3, AtLine, ReplaceTypes DEF TypeInv
<1>7. Place(e)'
  BY <1>2, <1>6, AtLine, TextPlace
<1>8. pos[e] <= Len(content[e])
  BY <1>2, AtLine
<1>. QED BY <1>2, <1>4, <1>5, <1>6, <1>7, <1>8, FileStep DEF TypeInv, TypeOK

LEMMA NotFoundKeeps ==
  ASSUME TypeInv, NEW e \in File, NotFound(e)
  PROVE  TypeInv'
<1>1. /\ UNCHANGED <<filterVars, provider, seen, pos, allowlist, kept, text, ips, new_ip, db>>
      /\ pc[e] = "obfuscate" /\ Goto(e, "allocate")
      /\ \E old \in ips[e] \ Originals : ip' = [ip EXCEPT ![e] = old]
  BY DEF NotFound
<1>2. ip' \in [File -> Address] /\ "allocate" \in PlaceOf \ {"insert"} /\ pc'[e] = "allocate"
  BY <1>1 DEF PlaceOf, TypeInv, TypeOK, Goto
<1>3. DbInv' /\ DOMAIN db' \subseteq Nat /\ Originals' \subseteq Address
  BY <1>1, <1>2, DbSame
<1>4. Place(e)' /\ pos[e] <= Len(content[e])
  BY <1>1, <1>2, AtLine, TextPlace
<1>. QED BY <1>1, <1>2, <1>3, <1>4, FileStep DEF TypeInv, TypeOK

\* The next replacement continues the ones given out.
LEMMA NextIpType ==
  ASSUME NEW n \in Nat, DOMAIN db = StartIp .. StartIp + n - 1
  PROVE  NextIp = StartIp + n
<1>1. StartIp \in Nat \ {0}
  BY CollectAssumption
<1>2. CASE n = 0
  BY <1>1, <1>2 DEF NextIp
<1>3. CASE n # 0
  <2>. DEFINE last == StartIp + n - 1
  <2>1. last \in DOMAIN db /\ \A m \in DOMAIN db : last >= m
    BY <1>1, <1>3
  <2>2. ASSUME NEW x \in DOMAIN db, \A m \in DOMAIN db : x >= m
        PROVE  x = last
    <3>1. x >= last /\ last >= x /\ x \in Int /\ last \in Int
      BY <1>1, <2>1, <2>2
    <3>. QED BY <3>1
  <2>3. Max(DOMAIN db) = last
    BY <2>1, <2>2 DEF Max
  <2>. QED BY <1>1, <2>1, <2>3 DEF NextIp
<1>. QED BY <1>2, <1>3

LEMMA AllocateKeeps ==
  ASSUME TypeInv, NEW e \in File, Allocate(e)
  PROVE  TypeInv'
<1>1. /\ UNCHANGED <<filterVars, provider, seen, pos, allowlist, kept, text, ips, ip, db>>
      /\ pc[e] = "allocate" /\ Goto(e, "insert") /\ new_ip' = [new_ip EXCEPT ![e] = NextIp]
  BY DEF Allocate
<1>2. PICK n \in Nat : /\ DOMAIN db = StartIp .. StartIp + n - 1
                       /\ \A f \in File : pc[f] = "insert" => new_ip[f] \in StartIp .. StartIp + n
  BY DEF TypeInv, DbInv
<1>3. NextIp = StartIp + n /\ StartIp \in Nat /\ NextIp \in Address
  BY <1>2, NextIpType, CollectAssumption DEF Address
<1>4. /\ new_ip' \in [File -> Address] /\ "insert" \in PlaceOf /\ pc'[e] = "insert"
      /\ new_ip'[e] = NextIp
      /\ \A f \in File : f # e => new_ip'[f] = new_ip[f] /\ pc'[f] = pc[f]
  BY <1>1, <1>3 DEF PlaceOf, TypeInv, TypeOK, Goto
<1>5. ASSUME NEW f \in File, pc'[f] = "insert"
      PROVE  new_ip'[f] \in StartIp .. StartIp + n
  <2>1. CASE f = e
    BY <2>1, <1>3, <1>4
  <2>2. CASE f # e
    BY <2>2, <1>2, <1>4, <1>5
  <2>. QED BY <2>1, <2>2
<1>6. DbInv' /\ DOMAIN db' \subseteq Nat /\ Originals' \subseteq Address
  BY <1>1, <1>2, <1>5 DEF DbInv, TypeInv, TypeOK, Originals
<1>7. Place(e)' /\ pos[e] <= Len(content[e])
  BY <1>1, <1>4, AtLine, TextPlace
<1>. QED BY <1>1, <1>4, <1>6, <1>7, FileStep DEF TypeInv, TypeOK

LEMMA InsertKeeps ==
  ASSUME TypeInv, NEW e \in File, Insert(e)
  PROVE  TypeInv'
<1>1. /\ UNCHANGED <<filterVars, provider, seen, pos, allowlist, kept, ip, new_ip>>
      /\ pc[e] = "insert" /\ Goto(e, "obfuscate") /\ Replace(e, ip[e], new_ip[e])
      /\ db' = [n \in DOMAIN db \cup {new_ip[e]} |-> IF n = new_ip[e] THEN ip[e] ELSE db[n]]
  BY DEF Insert
<1>2. PICK n \in Nat : /\ DOMAIN db = StartIp .. StartIp + n - 1
                       /\ \A f \in File : pc[f] = "insert" => new_ip[f] \in StartIp .. StartIp + n
  BY DEF TypeInv, DbInv
<1>3. ip[e] \in Address /\ new_ip[e] \in Address /\ StartIp \in Nat
  BY CollectAssumption DEF TypeInv, TypeOK
<1>4. "obfuscate" \in PlaceOf /\ pc'[e] = "obfuscate" /\ \A f \in File : f # e => pc'[f] = pc[f]
  BY <1>1 DEF PlaceOf, TypeInv, TypeOK, Goto
<1>5. /\ text' \in [File -> Seq(Seq(Address))] /\ ips' \in [File -> SUBSET Address]
      /\ \A f \in File : f # e => text'[f] = text[f]
      /\ DOMAIN text'[e] = DOMAIN text[e]
      /\ \A i \in DOMAIN text[e] : DOMAIN text'[e][i] = DOMAIN text[e][i]
  <2>1. TypeOK /\ pos[e] \in DOMAIN text[e] /\ pos' = pos
    BY <1>1, AtLine DEF TypeInv
  <2>. QED BY <1>1, <1>3, <2>1, ReplaceTypes
<1>6. DOMAIN db' \subseteq Nat /\ Originals' \subseteq Address
  BY <1>1, <1>3 DEF TypeInv, TypeOK, Originals, Address
<1>7. DbInv'
  <2>1. new_ip[e] \in StartIp .. StartIp + n
    BY <1>1, <1>2
  <2>2. \A f \in File : pc'[f] = "insert" => new_ip'[f] \in StartIp .. StartIp + n
    BY <1>1, <1>2, <1>4
  <2>3. CASE new_ip[e] = StartIp + n
    <3>1. DOMAIN db' = StartIp .. StartIp + (n + 1) - 1
      BY <1>1, <1>2, <1>3, <2>3
    <3>2. \A f \in File : pc'[f] = "insert" => new_ip'[f] \in StartIp .. StartIp + (n + 1)
      BY <1>3, <2>2
    <3>. QED BY <3>1, <3>2 DEF DbInv
  <2>4. CASE new_ip[e] # StartIp + n
    <3>1. DOMAIN db' = StartIp .. StartIp + n - 1
      BY <1>1, <1>2, <1>3, <2>1, <2>4
    <3>. QED BY <3>1, <2>2 DEF DbInv
  <2>. QED BY <2>3, <2>4
<1>8. Place(e)' /\ pos[e] <= Len(content[e])
  BY <1>1, <1>4, <1>5, AtLine, TextPlace
<1>. QED BY <1>1, <1>4, <1>5, <1>6, <1>7, <1>8, FileStep DEF TypeInv, TypeOK

LEMMA LineDoneKeeps ==
  ASSUME TypeInv, NEW e \in File, LineDone(e)
  PROVE  TypeInv'
<1>1. /\ UNCHANGED <<filterVars, provider, seen, allowlist, text, ips, ip, new_ip, db>>
      /\ pc[e] = "obfuscate" /\ Goto(e, "line")
      /\ kept' = [kept EXCEPT ![e] = @ \cup {pos[e]}] /\ pos' = [pos EXCEPT ![e] = @ - 1]
  BY DEF LineDone, obfuscation
<1>2. "line" \in PlaceOf \ {"insert"} /\ pc'[e] = "line"
  BY <1>1 DEF PlaceOf, TypeInv, TypeOK, Goto
<1>3. DbInv' /\ DOMAIN db' \subseteq Nat /\ Originals' \subseteq Address
  BY <1>1, <1>2, DbSame
<1>4. /\ pos[e] \in DOMAIN content[e] /\ pos[e] # 0 /\ pos[e] \in Nat /\ pos[e] <= Len(content[e])
      /\ Len(content[e]) \in Nat
  BY <1>1, AtLine, Lines DEF TypeInv
<1>5. /\ pos' \in [File -> Nat] /\ pos'[e] = pos[e] - 1 /\ pos'[e] <= Len(content[e])
      /\ kept' \in [File -> SUBSET Nat] /\ kept'[e] = kept[e] \cup {pos[e]}
      /\ \A f \in File : f # e => pos'[f] = pos[f] /\ kept'[f] = kept[f]
  BY <1>1, <1>4 DEF TypeInv, TypeOK
<1>6. Place(e) /\ kept[e] \subseteq Nat /\ UNCHANGED <<spec, provided, content>>
  BY <1>1 DEF TypeInv, TypeOK, provider
<1>7. Place(e)'
  BY <1>1, <1>2, <1>4, <1>5, <1>6 DEF Place, Working
<1>8. /\ allowlist' \in [File -> Filter] /\ text' \in [File -> Seq(Seq(Address))]
      /\ ips' \in [File -> SUBSET Address] /\ ip' \in [File -> Address]
      /\ new_ip' \in [File -> Address] /\ \A f \in File : text'[f] = text[f]
  BY <1>1 DEF TypeInv, TypeOK
<1>9. "line" \in PlaceOf /\ UNCHANGED <<filterVars, provider, seen>>
  BY <1>1, <1>2
<1>. QED BY <1>1, <1>3, <1>5, <1>7, <1>8, <1>9, FileStep

LEMMA WriteKeeps ==
  ASSUME TypeInv, NEW e \in File, Write(e)
  PROVE  TypeInv'
<1>1. PICK l \in {"written", "failed"} : Goto(e, l)
  BY DEF Write
<1>2. /\ UNCHANGED <<filterVars, provider, seen, pos, allowlist, kept, text, ips, ip, new_ip, db>>
      /\ pc[e] = "line"
  BY DEF Write, obfuscation
<1>3. l \in PlaceOf \ {"insert"} /\ pc'[e] = l
  BY <1>1 DEF PlaceOf, TypeInv, TypeOK, Goto
<1>4. DbInv' /\ DOMAIN db' \subseteq Nat /\ Originals' \subseteq Address
  BY <1>1, <1>2, <1>3, DbSame
<1>5. Place(e) /\ UNCHANGED <<spec, provided, content>> /\ pos[e] <= Len(content[e])
  BY <1>2 DEF TypeInv, TypeOK, provider
<1>6. Place(e)'
  BY <1>2, <1>3, <1>5 DEF Place, Working
<1>. QED BY <1>1, <1>2, <1>3, <1>4, <1>5, <1>6, FileStep DEF TypeInv, TypeOK

\* Every step of a file on the host.
LEMMA WorkKeeps ==
  ASSUME TypeInv, NEW e \in File, Work(e)
  PROVE  TypeInv'
BY LoadKeeps, DiscardKeeps, KeepKeeps, FindKeeps, NotFoundKeeps, AllocateKeeps, InsertKeeps,
   LineDoneKeeps, WriteKeeps DEF Work

\* No file is worked on before the providers are made and after the metadata is
\* written.
LEMMA AtRest ==
  ASSUME TypeInv, NEW e \in File, spec # "made"
  PROVE  pc[e] \in {"new", "written", "failed"} /\ (spec = "new" => pc[e] = "new")
<1>1. Place(e)
  BY DEF TypeInv
<1>. QED BY <1>1 DEF Place, Working

\* Steps that change neither a file's place nor the database.
LEMMA SystemStep ==
  ASSUME TypeInv, UNCHANGED <<filterable, content, pc, kept, obfuscation>>,
         FiltersInv', filters' \in Filter, provided' \subseteq File,
         spec' \in {"new", "none", "made", "listed", "unlisted", "hydrated"},
         pos' \in [File -> Nat], \A e \in File : pos'[e] <= Len(content[e]),
         allowlist' \in [File -> Filter], seen' \in [File -> SUBSET Nat],
         \A e \in File : \/ pc[e] = "new"
                         \/ pc[e] \in {"written", "failed"} /\ e \in provided' /\ spec' # "new"
                         \/ UNCHANGED <<provided, spec, pos>>
  PROVE  TypeInv'
<1>1. UNCHANGED <<filterable, content, pc, kept, text, ips, ip, new_ip, db>>
  BY DEF obfuscation
<1>2. TypeOK'
  BY <1>1 DEF TypeInv, TypeOK, FiltersInv, Originals
<1>3. DbInv'
  BY <1>1 DEF TypeInv, DbInv
<1>4. ASSUME NEW e \in File
      PROVE  Place(e)'
  <2>1. Place(e)
    BY DEF TypeInv
  <2>. QED BY <1>1, <2>1 DEF Place, Working
<1>. QED BY <1>2, <1>3, <1>4 DEF TypeInv

LEMMA RegisterKeeps ==
  ASSUME TypeInv, Register
  PROVE  TypeInv'
<1>1. UNCHANGED <<provider, pc, pos, allowlist, kept, obfuscation, seen>>
  BY DEF Register
<1>2. FiltersInv'
  <2>1. ASSUME NEW p \in Plugin, AddFilter(p[1], p[2], p[3])
        PROVE  FiltersInv'
    <3>1. p[1] \in Datasource /\ p[2] \in Key /\ p[3] \in 1 .. MAX_MATCH
      BY CollectAssumption
    <3>. QED BY <2>1, <3>1, AddFilterKeeps DEF TypeInv
  <2>2. ASSUME NEW c \in Datasource, GetFilters(c)
        PROVE  FiltersInv'
    BY <2>2, AnswerKeeps DEF GetFilters, TypeInv
  <2>. QED BY <2>1, <2>2 DEF Register
<1>. QED BY <1>1, <1>2, SystemStep DEF TypeInv, TypeOK, provider

LEMMA MakeProvidersKeeps ==
  ASSUME TypeInv, MakeProviders
  PROVE  TypeInv'
<1>1. /\ spec = "new" /\ provided' \subseteq File /\ spec' \in {"none", "made"}
      /\ UNCHANGED <<filterable, content, pc, pos, allowlist, kept, obfuscation, seen>>
  BY DEF MakeProviders
<1>2. PICK f \in Filter : Answer(Impl, f) /\ filters' = f
  BY DEF MakeProviders
<1>3. FiltersInv'
  BY <1>2, AnswerKeeps, CollectAssumption DEF TypeInv
<1>4. \A e \in File : pc[e] = "new"
  BY <1>1, AtRest
<1>. QED BY <1>1, <1>2, <1>3, <1>4, SystemStep DEF TypeInv, TypeOK

LEMMA DehydrateKeeps ==
  ASSUME TypeInv, Dehydrate
  PROVE  TypeInv'
<1>1. /\ \A e \in provided : pc[e] \in {"written", "failed"}
      /\ spec' \in {"listed", "unlisted"}
      /\ UNCHANGED <<filterVars, filterable, content, filters, provided, pc, pos, allowlist,
                     kept, obfuscation, seen>>
  BY DEF Dehydrate
<1>2. FiltersInv'
  BY <1>1 DEF filterVars, TypeInv, FiltersInv, FiltersTypeOK, OwnFiltersCurrent
<1>3. \A e \in File : pc[e] = "new" \/ (pc[e] \in {"written", "failed"} /\ e \in provided)
  BY <1>1 DEF TypeInv, Place
<1>. QED BY <1>1, <1>2, <1>3, SystemStep DEF TypeInv, TypeOK

LEMMA HydrateKeeps ==
  ASSUME TypeInv, Hydrate
  PROVE  TypeInv'
<1>1. /\ spec = "listed" /\ spec' \in {"hydrated", "none"}
      /\ pos' = [e \in File |-> Len(content[e])]
      /\ UNCHANGED <<filterable, content, filters, provided, pc, kept, obfuscation, seen>>
  BY DEF Hydrate
<1>2. PICK f \in Filter : Answer(Point, f) /\ allowlist' = [e \in File |-> f]
  BY DEF Hydrate
<1>3. FiltersInv' /\ allowlist' \in [File -> Filter]
  BY <1>2, AnswerKeeps, CollectAssumption DEF TypeInv
<1>4. pos' \in [File -> Nat] /\ \A e \in File : pos'[e] <= Len(content[e])
  BY <1>1, Lines DEF TypeInv
<1>5. \A e \in File : pc[e] = "new" \/ (pc[e] \in {"written", "failed"} /\ e \in provided)
  BY <1>1, AtRest DEF TypeInv, Place
<1>. QED BY <1>1, <1>3, <1>4, <1>5, SystemStep DEF TypeInv, TypeOK

LEMMA FilterLineKeeps ==
  ASSUME TypeInv, NEW e \in File, FilterLine(e)
  PROVE  TypeInv'
<1>1. /\ spec = "hydrated" /\ pos[e] > 0 /\ pos' = [pos EXCEPT ![e] = @ - 1]
      /\ UNCHANGED <<filterVars, provider, pc, kept, obfuscation>>
  BY DEF FilterLine
<1>2. FiltersInv' /\ UNCHANGED <<filterable, content, filters, provided, spec>>
  BY <1>1 DEF filterVars, provider, TypeInv, FiltersInv, FiltersTypeOK, OwnFiltersCurrent
<1>3. pos' \in [File -> Nat] /\ \A f \in File : pos'[f] <= Len(content[f])
  BY <1>1, Lines DEF TypeInv, TypeOK
<1>4. seen' \in [File -> SUBSET Nat]
  <2>1. CASE seen' = [seen EXCEPT ![e] = @ \cup {pos[e]}]
    BY <2>1 DEF TypeInv, TypeOK
  <2>2. CASE UNCHANGED seen
    BY <2>2 DEF TypeInv, TypeOK
  <2>. QED BY <2>1, <2>2 DEF FilterLine
<1>5. allowlist' \in [File -> Filter]
  <2>1. ASSUME NEW k \in LiveShown(e), Charge(e, k)
        PROVE  allowlist' \in [File -> Filter]
    <3>1. k \in Key /\ allowlist[e][k] > 0
      BY DEF LiveShown, Keys
    <3>. QED BY <2>1, <3>1, ChargeTypes
  <2>2. CASE UNCHANGED allowlist
    BY <2>2 DEF TypeInv, TypeOK
  <2>. QED BY <2>1, <2>2 DEF FilterLine
<1>6. \A f \in File : pc[f] = "new" \/ (pc[f] \in {"written", "failed"} /\ f \in provided)
  BY <1>1, AtRest DEF TypeInv, Place
<1>. QED BY <1>1, <1>2, <1>3, <1>4, <1>5, <1>6, SystemStep DEF TypeInv, TypeOK

LEMMA TypeStep == TypeInv /\ [Next]_vars => TypeInv'
<1>. SUFFICES ASSUME TypeInv, [Next]_vars PROVE TypeInv'
  OBVIOUS
<1>1. CASE UNCHANGED vars
  BY <1>1 DEF vars, filterVars, provider, obfuscation, TypeInv, TypeOK, FiltersInv,
    FiltersTypeOK, OwnFiltersCurrent, Place, Working, DbInv, Originals
<1>. QED BY <1>1, RegisterKeeps, MakeProvidersKeeps, DehydrateKeeps, HydrateKeeps, WorkKeeps,
       FilterLineKeeps DEF Next

LEMMA TypesInitially == Init => TypeInv
<1>. SUFFICES ASSUME Init PROVE TypeInv
  OBVIOUS
<1>1. NoFilters \in Filter
  BY FiltersAssumption DEF NoFilters, Filter
<1>2. FiltersInv
  BY <1>1 DEF Init, FiltersInit, FiltersInv, FiltersTypeOK, OwnFiltersCurrent
<1>3. /\ pc = [e \in File |-> "new"] /\ pos = [e \in File |-> 0]
      /\ kept = [e \in File |-> {}] /\ db = << >>
  BY DEF Init
<1>4. content \in [File -> Content] /\ \A e \in File : Len(content[e]) \in Nat
  BY CollectAssumption DEF Init
<1>5. TypeOK
  <2>1. /\ pos \in [File -> Nat] /\ (\A e \in File : pos[e] <= Len(content[e]))
        /\ pc \in [File -> PlaceOf] /\ kept \in [File -> SUBSET Nat]
    BY <1>3, <1>4 DEF PlaceOf
  <2>2. /\ allowlist \in [File -> Filter] /\ filters \in Filter /\ provided \subseteq File
        /\ seen \in [File -> SUBSET Nat] /\ ips \in [File -> SUBSET Address]
        /\ filterable \in BOOLEAN /\ spec = "new"
    BY <1>1 DEF Init
  <2>3. /\ text \in [File -> Seq(Seq(Address))]
        /\ ip \in [File -> Address] /\ new_ip \in [File -> Address]
    BY DEF Init, Address
  <2>4. DOMAIN db \subseteq Nat /\ Originals \subseteq Address
    BY <1>3 DEF Originals
  <2>. QED BY <1>2, <1>4, <2>1, <2>2, <2>3, <2>4 DEF TypeOK, FiltersInv, PlaceOf
<1>6. DbInv
  <2>1. DOMAIN db = StartIp .. StartIp + 0 - 1
    BY <1>3, CollectAssumption
  <2>. QED BY <1>3, <2>1 DEF DbInv
<1>7. \A e \in File : Place(e)
  BY <1>3 DEF Place, Working
<1>. QED BY <1>2, <1>5, <1>6, <1>7 DEF TypeInv

\* The state is of the types the model gives it: among them that no key is charged
\* below zero and no line is left out.
THEOREM TypeCorrect == Spec => []TypeOK
<1>1. TypeInv => TypeOK
  BY DEF TypeInv
<1>. QED BY TypesInitially, TypeStep, <1>1, PTL DEF Spec

\* An answer of get_filters that is remembered has the datasource's own filters,
\* in whatever order filters are added and asked for.
THEOREM FiltersCurrent == Spec => []OwnFiltersCurrent
<1>1. TypeInv => OwnFiltersCurrent
  BY DEF TypeInv, FiltersInv
<1>. QED BY TypesInitially, TypeStep, <1>1, PTL DEF Spec

-----------------------------------------------------------------------------
(* What a step leaves alone.                                               *)

\* The work on one file does not touch another.
LEMMA WorkFrame ==
  ASSUME TypeInv, NEW e \in File, Work(e), NEW f \in File, f # e
  PROVE  /\ UNCHANGED <<filterable, content, filters, spec, provided, seen>>
         /\ pc'[f] = pc[f] /\ pos'[f] = pos[f] /\ kept'[f] = kept[f]
         /\ allowlist'[f] = allowlist[f] /\ text'[f] = text[f] /\ ips'[f] = ips[f]
         /\ ip'[f] = ip[f] /\ new_ip'[f] = new_ip[f]
<1>1. UNCHANGED <<filterable, content, filters, spec, provided, seen>>
  BY DEF Work, Load, Discard, Keep, Find, NotFound, Allocate, Insert, LineDone, Write, provider
<1>2. pc'[f] = pc[f] /\ pos'[f] = pos[f] /\ kept'[f] = kept[f]
  BY DEF Work, Load, Discard, Keep, Find, NotFound, Allocate, Insert, LineDone, Write, Goto,
    TypeInv, TypeOK
<1>3. allowlist'[f] = allowlist[f]
  BY DEF Work, Load, Discard, Keep, Find, NotFound, Allocate, Insert, LineDone, Write, Charge,
    TypeInv, TypeOK
<1>4. text'[f] = text[f] /\ ips'[f] = ips[f]
  BY DEF Work, Load, Discard, Keep, Find, NotFound, Allocate, Insert, LineDone, Write, Replace,
    obfuscation, TypeInv, TypeOK
<1>5. ip'[f] = ip[f] /\ new_ip'[f] = new_ip[f]
  BY DEF Work, Load, Discard, Keep, Find, NotFound, Allocate, Insert, LineDone, Write,
    obfuscation, TypeInv, TypeOK
<1>. QED BY <1>1, <1>2, <1>3, <1>4, <1>5

\* A file is worked on by Work only.
LEMMA SystemFrame ==
  ASSUME TypeInv, [Next]_vars, \A e \in File : ~Work(e), NEW f \in File
  PROVE  /\ UNCHANGED <<filterable, content, pc, kept, text, ips, ip, new_ip, db>>
         /\ pc[f] # "new" => UNCHANGED <<filters, provided>>
         /\ Working(f) => pos'[f] = pos[f] /\ allowlist'[f] = allowlist[f]
<1>1. CASE UNCHANGED vars \/ Register \/ Dehydrate
  BY <1>1 DEF vars, provider, obfuscation, Register, Dehydrate
<1>2. CASE MakeProviders
  <2>1. spec = "new" /\ UNCHANGED <<filterable, content, pc, pos, allowlist, kept, obfuscation>>
    BY <1>2 DEF MakeProviders
  <2>2. pc[f] = "new"
    BY <2>1, AtRest
  <2>. QED BY <2>1, <2>2 DEF obfuscation
<1>3. CASE Hydrate
  <2>1. /\ spec = "listed"
        /\ UNCHANGED <<filterable, content, filters, provided, pc, kept, obfuscation>>
    BY <1>3 DEF Hydrate
  <2>2. ~Working(f)
    BY <2>1, AtRest DEF Working
  <2>. QED BY <2>1, <2>2 DEF obfuscation
<1>4. CASE \E e \in File : FilterLine(e)
  <2>1. spec = "hydrated" /\ UNCHANGED <<provider, pc, kept, obfuscation>>
    BY <1>4 DEF FilterLine
  <2>2. ~Working(f)
    BY <2>1, AtRest DEF Working
  <2>. QED BY <2>1, <2>2 DEF obfuscation, provider
<1>. QED BY <1>1, <1>2, <1>3, <1>4 DEF Next

-----------------------------------------------------------------------------
(* The lines that are kept.                                                *)

\* The lines of a file that were found to be wanted: the one at hand, too.
Taken(e) ==
  kept[e] \cup IF pc[e] \in {"obfuscate", "allocate", "insert"} THEN {pos[e]} ELSE {}

Paid(e, k) == {i \in Taken(e) : k \in content[e][i].keys}

\* A key has at least as many lines as were charged to it.
Asked(e) ==
  \A k \in Key : filters[k] <= allowlist[e][k] + Cardinality(Paid(e, k))

\* A line that was not taken for a key came when there were enough of them.
Skipped(e) ==
  \A k \in Key : \A i \in Having(e, k) \ Taken(e) :
    pc[e] = "written" \/ i > pos[e] => filters[k] <= Cardinality({j \in Paid(e, k) : j > i})

Clean(e) == \A i \in Taken(e) : ~content[e][i].redacted

FilterInv(e) ==
  /\ Clean(e)
  /\ filterable =>
       /\ Working(e) => Asked(e)
       /\ Working(e) \/ pc[e] = "written" => Skipped(e)

\* Taken lines are lines of the file, and finitely many.
LEMMA TakenLines ==
  ASSUME TypeInv, NEW e \in File
  PROVE  /\ Taken(e) \subseteq DOMAIN content[e] /\ IsFiniteSet(Taken(e))
         /\ \A S : S \subseteq Taken(e) => IsFiniteSet(S) /\ Cardinality(S) \in Nat
<1>1. kept[e] \subseteq DOMAIN content[e]
  BY DEF TypeInv, Place
<1>2. pc[e] \in {"obfuscate", "allocate", "insert"} => pos[e] \in DOMAIN content[e]
  BY AtLine
<1>3. Taken(e) \subseteq DOMAIN content[e]
  BY <1>1, <1>2 DEF Taken
<1>4. DOMAIN content[e] = 1 .. Len(content[e]) /\ Len(content[e]) \in Nat
  BY Lines DEF TypeInv
<1>5. IsFiniteSet(1 .. Len(content[e]))
  BY <1>4, FS_Interval
<1>6. IsFiniteSet(Taken(e))
  BY <1>3, <1>4, <1>5, FS_Subset
<1>. QED BY <1>3, <1>6, FS_Subset, FS_CardinalityType

\* A file whose place, lines and charges stay has the same lines taken.
LEMMA FilterUntouched ==
  ASSUME NEW e \in File, FilterInv(e), UNCHANGED <<filterable, content>>,
         pc'[e] = pc[e], kept'[e] = kept[e],
         pc[e] # "new" => UNCHANGED filters,
         Working(e) => pos'[e] = pos[e] /\ allowlist'[e] = allowlist[e]
  PROVE  FilterInv(e)'
<1>1. Taken(e)' = Taken(e)
  BY DEF Taken, Working
<1>2. ASSUME NEW k \in Key
      PROVE  Paid(e, k)' = Paid(e, k) /\ Having(e, k)' = Having(e, k)
  BY <1>1 DEF Paid, Having
<1>3. Working(e)' = Working(e)
  BY DEF Working
<1>4. Clean(e)'
  BY <1>1 DEF FilterInv, Clean
<1>5. ASSUME Working(e), Asked(e)
      PROVE  Asked(e)'
  <2>1. UNCHANGED filters /\ allowlist'[e] = allowlist[e]
    BY <1>5 DEF Working
  <2>2. ASSUME NEW k \in Key
        PROVE  filters'[k] <= allowlist'[e][k] + Cardinality(Paid(e, k)')
    BY <1>2, <1>5, <2>1 DEF Asked
  <2>. QED BY <2>2 DEF Asked
<1>6. ASSUME Working(e) \/ pc[e] = "written", Skipped(e)
      PROVE  Skipped(e)'
  <2>1. UNCHANGED filters /\ (pc[e] = "written" \/ pos'[e] = pos[e])
    BY <1>6 DEF Working
  <2>2. ASSUME NEW k \in Key, NEW i \in Having(e, k)' \ Taken(e)', pc'[e] = "written" \/ i > pos'[e]
        PROVE  filters'[k] <= Cardinality({j \in Paid(e, k)' : j > i})
    BY <1>1, <1>2, <1>6, <2>1, <2>2 DEF Skipped
  <2>. QED BY <2>2 DEF Skipped
<1>. QED BY <1>3, <1>4, <1>5, <1>6 DEF FilterInv

LEMMA LoadFilters ==
  ASSUME TypeInv, NEW e \in File, Load(e)
  PROVE  FilterInv(e)'
<1>1. PICK l \in {"line", "failed"} : pc'[e] = l
  BY DEF Load, Goto, TypeInv, TypeOK
<1>2. /\ UNCHANGED <<filterable, content, filters>> /\ kept'[e] = {}
      /\ pos'[e] = Len(content[e]) /\ allowlist'[e] = filters
  BY DEF Load, provider, TypeInv, TypeOK, Place
<1>3. Taken(e)' = {}
  BY <1>1, <1>2 DEF Taken
<1>4. Clean(e)'
  BY <1>3 DEF Clean
<1>5. ASSUME NEW k \in Key
      PROVE  filters'[k] <= allowlist'[e][k] + Cardinality(Paid(e, k)')
  <2>1. Paid(e, k)' = {}
    BY <1>3 DEF Paid
  <2>2. filters[k] \in Nat
    BY FiltersAssumption DEF TypeInv, TypeOK, Filter
  <2>. QED BY <1>2, <2>1, <2>2, FS_EmptySet
<1>6. Asked(e)'
  BY <1>5 DEF Asked
<1>7. ASSUME NEW k \in Key, NEW i \in Having(e, k)'
      PROVE  ~(pc'[e] = "written" \/ i > pos'[e])
  <2>1. i \in DOMAIN content[e]
    BY <1>2 DEF Having
  <2>. QED BY <1>1, <1>2, <2>1, Lines DEF TypeInv
<1>8. Skipped(e)'
  BY <1>7 DEF Skipped
<1>. QED BY <1>4, <1>6, <1>8 DEF FilterInv

\* A line that is discarded although it has a key comes when the key is used up,
\* after as many lines as were asked for.
LEMMA DiscardFilters ==
  ASSUME TypeInv, NEW e \in File, FilterInv(e), Discard(e)
  PROVE  FilterInv(e)'
<1>1. /\ UNCHANGED <<filterable, content, filters, pc, kept, allowlist>>
      /\ pc[e] = "line" /\ pos[e] > 0 /\ Discarded(e) /\ pos'[e] = pos[e] - 1
  BY DEF Discard, provider, TypeInv, TypeOK
<1>2. Taken(e) = kept[e] /\ Taken(e)' = Taken(e)
  BY <1>1 DEF Taken
<1>3. ASSUME NEW k \in Key
      PROVE  Paid(e, k)' = Paid(e, k) /\ Having(e, k)' = Having(e, k)
  BY <1>1, <1>2 DEF Paid, Having
<1>4. Clean(e)'
  BY <1>1, <1>2 DEF FilterInv, Clean
<1>5. ASSUME Asked(e)
      PROVE  Asked(e)'
  <2>1. ASSUME NEW k \in Key
        PROVE  filters'[k] <= allowlist'[e][k] + Cardinality(Paid(e, k)')
    BY <1>1, <1>3, <1>5 DEF Asked
  <2>. QED BY <2>1 DEF Asked
<1>6. ASSUME filterable, Asked(e), Skipped(e)
      PROVE  Skipped(e)'
  <2>1. ASSUME NEW k \in Key, NEW i \in Having(e, k) \ Taken(e), i > pos[e] - 1
        PROVE  filters[k] <= Cardinality({j \in Paid(e, k) : j > i})
    <3>1. i \in DOMAIN content[e] /\ k \in content[e][i].keys /\ ~content[e][i].redacted
      BY DEF Having
    <3>2. i \in Nat /\ pos[e] \in Nat
      BY <3>1, Lines DEF TypeInv
    <3>3. CASE i > pos[e]
      BY <1>6, <2>1, <3>3 DEF Skipped
    <3>4. CASE i = pos[e]
      <4>1. Working(e) /\ \A j \in kept[e] : j > pos[e]
        BY <1>1 DEF TypeInv, Place, Working
      <4>2. {j \in Paid(e, k) : j > i} = Paid(e, k)
        BY <1>2, <3>4, <4>1 DEF Paid
      <4>3. /\ filters[k] \in Nat /\ allowlist[e][k] \in Nat
            /\ filters[k] <= allowlist[e][k] + Cardinality(Paid(e, k))
        BY <1>6, FiltersAssumption DEF Asked, TypeInv, TypeOK, Filter
      <4>4. Cardinality(Paid(e, k)) \in Nat
        BY TakenLines DEF Paid
      <4>5. CASE pos[e] \notin Loaded(e)
        <5>1. k \notin Keys(filters)
          BY <3>1, <3>4, <4>5 DEF Loaded
        <5>2. filters[k] = 0
          BY <4>3, <5>1 DEF Keys
        <5>. QED BY <4>2, <4>4, <5>2
      <4>6. CASE Live(e) = {}
        <5>1. k \notin Keys(allowlist[e])
          BY <3>1, <3>4, <4>6 DEF Live, Current
        <5>2. allowlist[e][k] = 0
          BY <4>3, <5>1 DEF Keys
        <5>. QED BY <4>2, <4>3, <4>4, <5>2
      <4>. QED BY <1>1, <3>1, <3>4, <4>5, <4>6 DEF Discarded, Current
    <3>. QED BY <2>1, <3>2, <3>3, <3>4
  <2>2. ASSUME NEW k \in Key, NEW i \in Having(e, k)' \ Taken(e)', pc'[e] = "written" \/ i > pos'[e]
        PROVE  filters'[k] <= Cardinality({j \in Paid(e, k)' : j > i})
    BY <1>1, <1>2, <1>3, <2>1, <2>2
  <2>. QED BY <2>2 DEF Skipped
<1>7. Working(e)
  BY <1>1 DEF Working
<1>. QED BY <1>1, <1>4, <1>5, <1>6, <1>7 DEF FilterInv

\* A line that is kept is charged to one of its keys.
LEMMA KeepFilters ==
  ASSUME TypeInv, NEW e \in File, FilterInv(e), Keep(e)
  PROVE  FilterInv(e)'
<1>1. /\ UNCHANGED <<filterable, content, filters, pos, kept>>
      /\ pc[e] = "line" /\ pos[e] > 0 /\ ~Discarded(e) /\ pc'[e] = "obfuscate"
  BY DEF Keep, Goto, provider, TypeInv, TypeOK
<1>2. Taken(e) = kept[e] /\ Taken(e)' = Taken(e) \cup {pos[e]}
  BY <1>1 DEF Taken
<1>3. pos[e] \notin Taken(e) /\ pos[e] \in Nat
  <2>1. Place(e) /\ Working(e) /\ pos[e] \in Nat
    BY <1>1 DEF TypeInv, TypeOK, Working
  <2>. QED BY <1>2, <2>1 DEF Place
<1>4. Clean(e)'
  BY <1>1, <1>2 DEF FilterInv, Clean, Discarded, Current
<1>5. ASSUME NEW k \in Key
      PROVE  /\ Having(e, k)' = Having(e, k)
             /\ Paid(e, k)' = IF k \in Current(e).keys THEN Paid(e, k) \cup {pos[e]} ELSE Paid(e, k)
             /\ Cardinality(Paid(e, k)) \in Nat /\ Cardinality(Paid(e, k)') \in Nat
             /\ Cardinality(Paid(e, k)') =
                  Cardinality(Paid(e, k)) + IF k \in Current(e).keys THEN 1 ELSE 0
  <2>1. Having(e, k)' = Having(e, k)
    BY <1>1 DEF Having
  <2>2. Paid(e, k)' = IF k \in Current(e).keys THEN Paid(e, k) \cup {pos[e]} ELSE Paid(e, k)
    BY <1>1, <1>2 DEF Paid, Current
  <2>3. IsFiniteSet(Paid(e, k)) /\ Cardinality(Paid(e, k)) \in Nat /\ pos[e] \notin Paid(e, k)
    BY <1>3, TakenLines DEF Paid
  <2>4. Cardinality(Paid(e, k) \cup {pos[e]}) = Cardinality(Paid(e, k)) + 1
    BY <2>3, FS_AddElement
  <2>. QED BY <2>1, <2>2, <2>3, <2>4
<1>6. ASSUME filterable, Asked(e)
      PROVE  Asked(e)'
  <2>1. PICK c \in Live(e) : Charge(e, c)
    BY <1>6 DEF Keep
  <2>2. c \in Key /\ allowlist[e][c] > 0 /\ c \in Current(e).keys
    BY DEF Live, Keys
  <2>3. /\ allowlist'[e][c] = allowlist[e][c] - 1
        /\ \A m \in Key : m # c => allowlist'[e][m] = allowlist[e][m]
    BY <2>1, <2>2, ChargeTypes
  <2>4. ASSUME NEW k \in Key
        PROVE  filters'[k] <= allowlist'[e][k] + Cardinality(Paid(e, k)')
    <3>1. /\ filters[k] \in Nat /\ allowlist[e][k] \in Nat
          /\ filters[k] <= allowlist[e][k] + Cardinality(Paid(e, k))
      BY <1>6, FiltersAssumption DEF Asked, TypeInv, TypeOK, Filter
    <3>2. CASE k = c
      BY <1>1, <1>5, <2>2, <2>3, <3>1, <3>2
    <3>3. CASE k # c
      <4>1. allowlist'[e][k] = allowlist[e][k] /\ filters'[k] = filters[k]
        BY <1>1, <2>3, <3>3
      <4>2. Cardinality(Paid(e, k)) <= Cardinality(Paid(e, k)')
        BY <1>5
      <4>. QED BY <1>5, <3>1, <4>1, <4>2
    <3>. QED BY <3>2, <3>3
  <2>. QED BY <2>4 DEF Asked
<1>7. ASSUME Skipped(e)
      PROVE  Skipped(e)'
  <2>1. ASSUME NEW k \in Key, NEW i \in Having(e, k)' \ Taken(e)', pc'[e] = "written" \/ i > pos'[e]
        PROVE  filters'[k] <= Cardinality({j \in Paid(e, k)' : j > i})
    <3>1. i \in Having(e, k) \ Taken(e) /\ i > pos[e] /\ i \in Nat
      BY <1>1, <1>2, <1>5, <2>1, Lines DEF Having, TypeInv
    <3>2. filters[k] <= Cardinality({j \in Paid(e, k) : j > i})
      BY <1>7, <3>1 DEF Skipped
    <3>3. {j \in Paid(e, k)' : j > i} = {j \in Paid(e, k) : j > i}
      BY <1>3, <1>5, <3>1
    <3>. QED BY <1>1, <3>2, <3>3
  <2>. QED BY <2>1 DEF Skipped
<1>8. Working(e)
  BY <1>1 DEF Working
<1>. QED BY <1>1, <1>4, <1>6, <1>7, <1>8 DEF FilterInv

\* Obfuscation does not change what is taken.
LEMMA ObfuscateTakes ==
  ASSUME TypeInv, NEW e \in File,
         \/ Find(e) \/ NotFound(e) \/ Allocate(e) \/ Insert(e) \/ LineDone(e) \/ Write(e)
  PROVE  /\ Taken(e)' = Taken(e) /\ Working(e)
         /\ UNCHANGED <<filterable, content, filters, allowlist>>
         /\ pos[e] \in Nat /\ pos'[e] \in Nat
         /\ \/ pos'[e] = pos[e] /\ (pc'[e] = "written" => pos[e] = 0)
            \/ pos'[e] = pos[e] - 1 /\ pos[e] \in Taken(e) /\ pc'[e] # "written"
<1>1. UNCHANGED <<filterable, content, filters, allowlist>>
  BY DEF Find, NotFound, Allocate, Insert, LineDone, Write, provider
<1>2. pc[e] \in {"line", "obfuscate", "allocate", "insert"} /\ Working(e)
  BY DEF Find, NotFound, Allocate, Insert, LineDone, Write, Working
<1>3. \/ /\ pc[e] # "line" /\ pc'[e] \in {"obfuscate", "allocate", "insert"}
         /\ pos'[e] = pos[e] /\ kept'[e] = kept[e]
      \/ /\ pc[e] = "obfuscate" /\ pc'[e] = "line"
         /\ pos'[e] = pos[e] - 1 /\ kept'[e] = kept[e] \cup {pos[e]}
      \/ /\ pc[e] = "line" /\ pc'[e] \in {"written", "failed"} /\ pos[e] = 0
         /\ pos'[e] = pos[e] /\ kept'[e] = kept[e]
  <2>1. CASE Find(e) \/ NotFound(e) \/ Allocate(e) \/ Insert(e)
    BY <2>1 DEF Find, NotFound, Allocate, Insert, Goto, TypeInv, TypeOK
  <2>2. CASE LineDone(e)
    BY <2>2 DEF LineDone, Goto, TypeInv, TypeOK
  <2>3. CASE Write(e)
    BY <2>3 DEF Write, Goto, TypeInv, TypeOK
  <2>. QED BY <2>1, <2>2, <2>3
<1>4. Taken(e)' = Taken(e)
  BY <1>2, <1>3 DEF Taken
<1>5. pos[e] \in Nat /\ (pc[e] = "obfuscate" => pos[e] \in Nat \ {0} /\ pos[e] \in Taken(e))
  BY AtLine DEF TypeInv, TypeOK, Taken
<1>. QED BY <1>1, <1>2, <1>3, <1>4, <1>5

LEMMA ObfuscateFilters ==
  ASSUME TypeInv, NEW e \in File, FilterInv(e),
         \/ Find(e) \/ NotFound(e) \/ Allocate(e) \/ Insert(e) \/ LineDone(e) \/ Write(e)
  PROVE  FilterInv(e)'
<1>1. /\ UNCHANGED <<filterable, content, filters, allowlist>> /\ Working(e)
      /\ Taken(e)' = Taken(e)
  BY ObfuscateTakes
<1>5. ASSUME NEW k \in Key
      PROVE  Paid(e, k)' = Paid(e, k) /\ Having(e, k)' = Having(e, k)
  BY <1>1 DEF Paid, Having
<1>6. Clean(e)'
  BY <1>1 DEF FilterInv, Clean
<1>7. ASSUME Asked(e)
      PROVE  Asked(e)'
  <2>1. ASSUME NEW k \in Key
        PROVE  filters'[k] <= allowlist'[e][k] + Cardinality(Paid(e, k)')
    BY <1>1, <1>5, <1>7 DEF Asked
  <2>. QED BY <2>1 DEF Asked
<1>8. ASSUME Skipped(e)
      PROVE  Skipped(e)'
  <2>1. ASSUME NEW k \in Key, NEW i \in Having(e, k)' \ Taken(e)', pc'[e] = "written" \/ i > pos'[e]
        PROVE  filters'[k] <= Cardinality({j \in Paid(e, k)' : j > i})
    <3>1. i \in Having(e, k) \ Taken(e) /\ i \in Nat /\ i >= 1 /\ pos[e] \in Nat
      BY <1>1, <1>5, <2>1, Lines DEF Having, TypeInv
    <3>2. i > pos[e]
      BY <2>1, <3>1, ObfuscateTakes
    <3>3. filters[k] <= Cardinality({j \in Paid(e, k) : j > i})
      BY <1>8, <3>1, <3>2 DEF Skipped
    <3>. QED BY <1>1, <1>5, <3>3
  <2>. QED BY <2>1 DEF Skipped
<1>. QED BY <1>1, <1>6, <1>7, <1>8 DEF FilterInv

\* Whatever happens, the lines that are taken stay right.
LEMMA FilterStep ==
  ASSUME TypeInv, \A e \in File : FilterInv(e), [Next]_vars
  PROVE  \A e \in File : FilterInv(e)'
<1>. SUFFICES ASSUME NEW f \in File PROVE FilterInv(f)'
  OBVIOUS
<1>1. ASSUME NEW e \in File, Work(e)
      PROVE  FilterInv(f)'
  <2>1. CASE f = e
    BY <1>1, <2>1, LoadFilters, DiscardFilters, KeepFilters, ObfuscateFilters DEF Work
  <2>2. CASE f # e
    BY <1>1, <2>2, WorkFrame, FilterUntouched
  <2>. QED BY <2>1, <2>2
<1>2. ASSUME \A e \in File : ~Work(e)
      PROVE  FilterInv(f)'
  BY <1>2, SystemFrame, FilterUntouched
<1>. QED BY <1>1, <1>2

LEMMA FilterInitially ==
  ASSUME Init, NEW e \in File
  PROVE  FilterInv(e)
<1>1. pc[e] = "new" /\ kept[e] = {}
  BY DEF Init
<1>2. Taken(e) = {}
  BY <1>1 DEF Taken
<1>. QED BY <1>1, <1>2 DEF FilterInv, Clean, Working

FiltersKept == TypeInv /\ \A e \in File : FilterInv(e)

LEMMA FiltersAlways == Spec => []FiltersKept
<1>1. Init => FiltersKept
  BY TypesInitially, FilterInitially DEF FiltersKept
<1>2. FiltersKept /\ [Next]_vars => FiltersKept'
  BY TypeStep, FilterStep DEF FiltersKept
<1>. QED BY <1>1, <1>2, PTL DEF Spec

\* In a file that was written, the last lines with a key are all kept.
LEMMA LastAreKept ==
  ASSUME FiltersKept, NEW e \in File, filterable, pc[e] = "written", NEW k \in Key
  PROVE  Last(Having(e, k), filters[k]) \subseteq kept[e]
<1>1. Taken(e) = kept[e] /\ TypeInv /\ Skipped(e) /\ Clean(e)
  BY DEF Taken, FiltersKept, FilterInv
<1>2. ASSUME NEW i \in Last(Having(e, k), filters[k]), i \notin kept[e]
      PROVE  FALSE
  <2>. DEFINE later == {j \in Having(e, k) : j > i}
  <2>1. i \in Having(e, k) /\ Cardinality(later) < filters[k]
    BY DEF Last
  <2>2. filters[k] <= Cardinality({j \in Paid(e, k) : j > i})
    BY <1>1, <1>2, <2>1 DEF Skipped
  <2>3. {j \in Paid(e, k) : j > i} \subseteq later
    BY <1>1, TakenLines DEF Paid, Clean, Having
  <2>4. IsFiniteSet(later)
    <3>1. later \subseteq 1 .. Len(content[e]) /\ Len(content[e]) \in Nat
      BY <1>1, Lines DEF Having, TypeInv
    <3>2. IsFiniteSet(1 .. Len(content[e]))
      BY <3>1, FS_Interval
    <3>. QED BY <3>1, <3>2, FS_Subset
  <2>5. /\ Cardinality({j \in Paid(e, k) : j > i}) <= Cardinality(later)
        /\ Cardinality(later) \in Nat /\ Cardinality({j \in Paid(e, k) : j > i}) \in Nat
    BY <2>3, <2>4, FS_Subset, FS_CardinalityType
  <2>6. filters[k] \in Nat
    BY <1>1, FiltersAssumption DEF TypeInv, TypeOK, Filter
  <2>. QED BY <2>1, <2>2, <2>5, <2>6
<1>. QED BY <1>2 DEF Last

\* The lines plugins asked for reach the archive, however lines are charged.
THEOREM NeededKept == Spec => []NeededLinesKept
<1>1. FiltersKept => NeededLinesKept
  BY LastAreKept DEF NeededLinesKept, FiltersKept, TypeInv, TypeOK
<1>. QED BY FiltersAlways, <1>1, PTL

-----------------------------------------------------------------------------
(* The lines that are not kept.                                            *)

\* The lines T can be divided among the keys, so that no key has more than its
\* number in fs less what it has left.
Division(T, lines, left, fs) ==
  \E charged \in [T -> Key] :
    /\ \A i \in T : charged[i] \in lines[i].keys
    /\ \A k \in Key : Cardinality({i \in T : charged[i] = k}) + left[k] <= fs[k]

ChargesLeft(e) == IF Working(e) THEN allowlist[e] ELSE NoFilters

ChargeInv(e) == filterable => Division(Taken(e), content[e], ChargesLeft(e), filters)

\* Nothing is divided,
LEMMA NothingDivided ==
  ASSUME NEW lines, NEW fs \in Filter, NEW left \in {fs, NoFilters}
  PROVE  Division({}, lines, left, fs)
<1>. DEFINE g == [i \in {} |-> CHOOSE k \in Key : TRUE]
<1>1. g \in [{} -> Key]
  OBVIOUS
<1>2. ASSUME NEW k \in Key
      PROVE  Cardinality({i \in {} : g[i] = k}) + left[k] <= fs[k]
  <2>1. {i \in {} : g[i] = k} = {} /\ fs[k] \in Nat /\ left[k] \in {fs[k], 0}
    BY FiltersAssumption DEF Filter, NoFilters
  <2>. QED BY <2>1, FS_EmptySet
<1>. QED BY <1>1, <1>2 DEF Division

\* and a division stays one when nothing is left.
LEMMA DivisionStays ==
  ASSUME NEW T, NEW lines, NEW left \in Filter, NEW fs \in Filter, Division(T, lines, left, fs),
         \A S : S \subseteq T => Cardinality(S) \in Nat
  PROVE  Division(T, lines, NoFilters, fs)
<1>1. PICK g \in [T -> Key] :
        /\ \A i \in T : g[i] \in lines[i].keys
        /\ \A k \in Key : Cardinality({i \in T : g[i] = k}) + left[k] <= fs[k]
  BY DEF Division
<1>2. ASSUME NEW k \in Key
      PROVE  Cardinality({i \in T : g[i] = k}) + NoFilters[k] <= fs[k]
  <2>1. Cardinality({i \in T : g[i] = k}) \in Nat /\ left[k] \in Nat /\ fs[k] \in Nat
    BY FiltersAssumption DEF Filter
  <2>2. NoFilters[k] = 0
    BY DEF NoFilters
  <2>. QED BY <1>1, <2>1, <2>2
<1>. QED BY <1>1, <1>2 DEF Division

\* A step that takes no line and gives no key more to pay keeps the division.
LEMMA ChargesStay ==
  ASSUME TypeInv, NEW e \in File, ChargeInv(e), UNCHANGED <<filterable, content, filters>>,
         Taken(e)' = Taken(e), Working(e)' => Working(e) /\ allowlist'[e] = allowlist[e]
  PROVE  ChargeInv(e)'
<1>1. ChargesLeft(e) \in Filter /\ filters \in Filter
  BY FiltersAssumption DEF TypeInv, TypeOK, ChargesLeft, NoFilters, Filter
<1>2. ChargesLeft(e)' \in {ChargesLeft(e), NoFilters}
  BY DEF ChargesLeft
<1>. QED BY <1>1, <1>2, DivisionStays, TakenLines DEF ChargeInv

LEMMA KeepCharges ==
  ASSUME TypeInv, NEW e \in File, ChargeInv(e), Keep(e)
  PROVE  ChargeInv(e)'
<1>. SUFFICES ASSUME filterable'
              PROVE  Division(Taken(e)', content'[e], ChargesLeft(e)', filters')
  BY DEF ChargeInv
<1>1. /\ UNCHANGED <<filterable, content, filters, pos, kept>>
      /\ pc[e] = "line" /\ pos[e] > 0 /\ pc'[e] = "obfuscate"
  BY DEF Keep, Goto, provider, TypeInv, TypeOK
<1>2. Taken(e) = kept[e] /\ Taken(e)' = Taken(e) \cup {pos[e]} /\ Working(e) /\ Working(e)'
  BY <1>1 DEF Taken, Working
<1>3. pos[e] \notin Taken(e)
  <2>1. Place(e) /\ pos[e] \in Nat
    BY DEF TypeInv, TypeOK
  <2>. QED BY <1>2, <2>1 DEF Place
<1>4. PICK g \in [Taken(e) -> Key] :
        /\ \A i \in Taken(e) : g[i] \in content[e][i].keys
        /\ \A k \in Key : Cardinality({i \in Taken(e) : g[i] = k}) + allowlist[e][k] <= filters[k]
  BY <1>1, <1>2 DEF ChargeInv, Division, ChargesLeft
<1>5. PICK c \in Live(e) : Charge(e, c)
  BY <1>1 DEF Keep
<1>6. c \in Key /\ allowlist[e][c] > 0 /\ c \in Current(e).keys
  BY DEF Live, Keys
<1>7. /\ allowlist'[e][c] = allowlist[e][c] - 1
      /\ \A m \in Key : m # c => allowlist'[e][m] = allowlist[e][m]
  BY <1>5, <1>6, ChargeTypes
<1>. DEFINE h == [i \in Taken(e) \cup {pos[e]} |-> IF i = pos[e] THEN c ELSE g[i]]
<1>8. h \in [Taken(e)' -> Key] /\ \A i \in Taken(e)' : h[i] \in content'[e][i].keys
  BY <1>1, <1>2, <1>3, <1>4, <1>6 DEF Current
<1>9. ASSUME NEW k \in Key
      PROVE  Cardinality({i \in Taken(e)' : h[i] = k}) + allowlist'[e][k] <= filters'[k]
  <2>. DEFINE S == {i \in Taken(e) : g[i] = k}
  <2>1. IsFiniteSet(S) /\ Cardinality(S) \in Nat /\ pos[e] \notin S
    BY <1>3, TakenLines
  <2>2. /\ filters[k] \in Nat /\ allowlist[e][k] \in Nat /\ filters'[k] = filters[k]
        /\ Cardinality(S) + allowlist[e][k] <= filters[k]
    BY <1>1, <1>4, FiltersAssumption DEF TypeInv, TypeOK, Filter
  <2>3. CASE k = c
    <3>1. {i \in Taken(e)' : h[i] = k} = S \cup {pos[e]}
      BY <1>2, <1>3, <2>3
    <3>2. Cardinality(S \cup {pos[e]}) = Cardinality(S) + 1
      BY <2>1, FS_AddElement
    <3>3. allowlist'[e][k] = allowlist[e][k] - 1
      BY <1>7, <2>3
    <3>4. Cardinality({i \in Taken(e)' : h[i] = k}) = Cardinality(S) + 1
      BY <3>1, <3>2
    <3>. HIDE DEF S, h
    <3>. QED BY <2>1, <2>2, <3>3, <3>4
  <2>4. CASE k # c
    <3>1. {i \in Taken(e)' : h[i] = k} = S
      BY <1>2, <1>3, <2>4
    <3>2. allowlist'[e][k] = allowlist[e][k]
      BY <1>7, <2>4
    <3>. QED BY <2>1, <2>2, <3>1, <3>2
  <2>. QED BY <2>3, <2>4
<1>. HIDE DEF h
<1>10. ChargesLeft(e)' = allowlist'[e]
  BY <1>2 DEF ChargesLeft
<1>. QED BY <1>8, <1>9, <1>10 DEF Division

LEMMA ChargeStep ==
  ASSUME TypeInv, \A e \in File : ChargeInv(e), [Next]_vars
  PROVE  \A e \in File : ChargeInv(e)'
<1>. SUFFICES ASSUME NEW f \in File PROVE ChargeInv(f)'
  OBVIOUS
<1>1. ASSUME NEW e \in File, Work(e), f # e
      PROVE  ChargeInv(f)'
  <2>1. Taken(f)' = Taken(f) /\ Working(f)' = Working(f)
    BY <1>1, WorkFrame DEF Taken, Working
  <2>. QED BY <1>1, <2>1, WorkFrame, ChargesStay
<1>2. ASSUME Load(f)
      PROVE  ChargeInv(f)'
  <2>1. /\ pc'[f] \in {"line", "failed"} /\ kept'[f] = {} /\ allowlist'[f] = filters
        /\ UNCHANGED <<filters, filterable>>
    BY <1>2 DEF Load, Goto, provider, TypeInv, TypeOK, Place
  <2>2. Taken(f)' = {}
    BY <2>1 DEF Taken
  <2>3. filters' \in Filter /\ ChargesLeft(f)' \in {filters', NoFilters}
    BY <2>1 DEF ChargesLeft, TypeInv, TypeOK
  <2>. QED BY <2>2, <2>3, NothingDivided DEF ChargeInv
<1>3. ASSUME Discard(f)
      PROVE  ChargeInv(f)'
  <2>1. /\ UNCHANGED <<filterable, content, filters, allowlist, pc, kept>> /\ pc[f] = "line"
    BY <1>3 DEF Discard, provider
  <2>2. Taken(f)' = Taken(f) /\ Working(f)' = Working(f)
    BY <2>1 DEF Taken, Working
  <2>. QED BY <2>1, <2>2, ChargesStay
<1>4. ASSUME \/ Find(f) \/ NotFound(f) \/ Allocate(f) \/ Insert(f) \/ LineDone(f) \/ Write(f)
      PROVE  ChargeInv(f)'
  <2>1. UNCHANGED <<filterable, content, filters, allowlist>> /\ Working(f)
    BY <1>4, ObfuscateTakes
  <2>2. Taken(f)' = Taken(f)
    BY <1>4, ObfuscateTakes
  <2>. QED BY <2>1, <2>2, ChargesStay
<1>5. ASSUME \A e \in File : ~Work(e)
      PROVE  ChargeInv(f)'
  <2>1. pc'[f] = pc[f] /\ kept'[f] = kept[f] /\ UNCHANGED <<filterable, content>>
    BY <1>5, SystemFrame
  <2>2. Taken(f)' = Taken(f)
    BY <1>5, <2>1, SystemFrame DEF Taken, Working
  <2>3. CASE pc[f] = "new"
    <3>1. Taken(f)' = {} /\ ChargesLeft(f)' = NoFilters
      BY <2>1, <2>3 DEF Taken, ChargesLeft, Working, TypeInv, Place
    <3>2. filters' \in Filter
      BY TypeStep DEF TypeInv, TypeOK
    <3>. QED BY <3>1, <3>2, NothingDivided DEF ChargeInv
  <2>4. CASE pc[f] # "new"
    BY <1>5, <2>1, <2>2, <2>4, SystemFrame, ChargesStay DEF Working
  <2>. QED BY <2>3, <2>4
<1>. QED BY <1>1, <1>2, <1>3, <1>4, <1>5, KeepCharges DEF Work

Chosen == FiltersKept /\ \A e \in File : ChargeInv(e)

LEMMA ChosenAlways == Spec => []Chosen
<1>1. Init => Chosen
  <2>. SUFFICES ASSUME Init PROVE Chosen
    OBVIOUS
  <2>1. FiltersKept
    BY TypesInitially, FilterInitially DEF FiltersKept
  <2>2. filters \in Filter
    BY <2>1 DEF FiltersKept, TypeInv, TypeOK
  <2>3. ASSUME NEW e \in File
        PROVE  ChargeInv(e)
    <3>1. Taken(e) = {} /\ ChargesLeft(e) = NoFilters
      BY DEF Init, Taken, ChargesLeft, Working
    <3>. QED BY <2>2, <3>1, NothingDivided DEF ChargeInv
  <2>. QED BY <2>1, <2>3 DEF Chosen
<1>2. Chosen /\ [Next]_vars => Chosen'
  BY TypeStep, FilterStep, ChargeStep DEF FiltersKept, Chosen
<1>. QED BY <1>1, <1>2, PTL DEF Spec

\* Nothing is collected that no plugin asked for: each line is charged to a key it
\* contains, and no key is charged more often than the plugins asked.
THEOREM NothingElseKept == Spec => []NothingUnwanted
<1>1. ASSUME Chosen, NEW e \in provided
      PROVE  /\ \A i \in kept[e] : ~content[e][i].redacted
             /\ filterable => \E charged \in [kept[e] -> Key] :
                  /\ \A i \in kept[e] : charged[i] \in content[e][i].keys
                  /\ \A k \in Key : Cardinality({i \in kept[e] : charged[i] = k}) <= filters[k]
  <2>1. e \in File /\ TypeInv /\ FilterInv(e) /\ ChargeInv(e)
    BY <1>1 DEF Chosen, FiltersKept, TypeInv, TypeOK
  <2>2. kept[e] \subseteq Taken(e)
    BY DEF Taken
  <2>3. \A i \in kept[e] : ~content[e][i].redacted
    BY <2>1, <2>2 DEF FilterInv, Clean
  <2>4. ASSUME filterable
        PROVE  \E charged \in [kept[e] -> Key] :
                 /\ \A i \in kept[e] : charged[i] \in content[e][i].keys
                 /\ \A k \in Key : Cardinality({i \in kept[e] : charged[i] = k}) <= filters[k]
    <3>1. PICK g \in [Taken(e) -> Key] :
            /\ \A i \in Taken(e) : g[i] \in content[e][i].keys
            /\ \A k \in Key : Cardinality({i \in Taken(e) : g[i] = k}) + ChargesLeft(e)[k] <= filters[k]
      BY <2>1, <2>4 DEF ChargeInv, Division
    <3>. DEFINE h == [i \in kept[e] |-> g[i]]
    <3>2. h \in [kept[e] -> Key] /\ \A i \in kept[e] : h[i] \in content[e][i].keys
      BY <2>2, <3>1
    <3>3. ASSUME NEW k \in Key
          PROVE  Cardinality({i \in kept[e] : h[i] = k}) <= filters[k]
      <4>. DEFINE S == {i \in Taken(e) : g[i] = k}
      <4>1. {i \in kept[e] : h[i] = k} \in SUBSET S
        BY <2>2
      <4>2. IsFiniteSet(S) /\ Cardinality(S) \in Nat
        BY <2>1, TakenLines
      <4>3. /\ Cardinality({i \in kept[e] : h[i] = k}) <= Cardinality(S)
            /\ Cardinality({i \in kept[e] : h[i] = k}) \in Nat
        BY <4>1, <4>2, FS_Subset, FS_CardinalityType
      <4>4. ChargesLeft(e)[k] \in Nat /\ filters[k] \in Nat
        BY <2>1, FiltersAssumption DEF ChargesLeft, NoFilters, TypeInv, TypeOK, Filter
      <4>. QED BY <3>1, <4>2, <4>3, <4>4
    <3>. HIDE DEF h
    <3>. QED BY <3>2, <3>3
  <2>. QED BY <2>3, <2>4
<1>2. Chosen => NothingUnwanted
  BY <1>1 DEF NothingUnwanted
<1>. QED BY ChosenAlways, <1>2, PTL

-----------------------------------------------------------------------------
(* What the analysis sees.                                                 *)

Shown(e, k) == {i \in seen[e] : k \in content[e][i].shown}

\* The second filtering does with the kept lines what the first did with all.
Filtered(e) ==
  /\ seen[e] \subseteq kept[e] /\ \A i \in seen[e] : i > pos[e]
  /\ \A k \in Key : CACHE[Point][k] <= allowlist[e][k] + Cardinality(Shown(e, k))
  /\ \A k \in Key : \A i \in kept[e] \ seen[e] :
       k \in content[e][i].shown /\ i > pos[e] =>
         CACHE[Point][k] <= Cardinality({j \in Shown(e, k) : j > i})

SeenInv(e) ==
  /\ spec # "hydrated" => seen[e] = {}
  /\ spec = "hydrated" /\ pc[e] = "written" => Filtered(e)

\* Lines that are seen are finitely many.
LEMMA ShownLines ==
  ASSUME TypeInv, NEW e \in File, seen[e] \subseteq kept[e]
  PROVE  \A S : S \subseteq seen[e] => IsFiniteSet(S) /\ Cardinality(S) \in Nat
<1>1. seen[e] \subseteq Taken(e)
  BY DEF Taken
<1>. QED BY <1>1, TakenLines

LEMMA HydrateSeen ==
  ASSUME TypeInv, NEW e \in File, SeenInv(e), Hydrate
  PROVE  SeenInv(e)'
<1>1. PICK f \in Filter : Answer(Point, f) /\ allowlist' = [d \in File |-> f]
  BY DEF Hydrate
<1>2. CACHE'[Point] = f
  BY <1>1, AnswerKeeps, CollectAssumption DEF TypeInv
<1>3. /\ seen'[e] = {} /\ pos'[e] = Len(content[e]) /\ allowlist'[e] = f
      /\ UNCHANGED <<content, kept, pc>>
  BY <1>1 DEF Hydrate, SeenInv
<1>4. ASSUME NEW k \in Key
      PROVE  CACHE'[Point][k] <= allowlist'[e][k] + Cardinality(Shown(e, k)')
  <2>1. Shown(e, k)' = {} /\ f[k] \in Nat
    BY <1>3, FiltersAssumption DEF Shown, Filter
  <2>. QED BY <1>2, <1>3, <2>1, FS_EmptySet
<1>5. \A i \in kept'[e] : ~(i > pos'[e])
  <2>1. kept[e] \subseteq DOMAIN content[e]
    BY DEF TypeInv, Place
  <2>. QED BY <1>3, <2>1, Lines DEF TypeInv
<1>. QED BY <1>3, <1>4, <1>5 DEF SeenInv, Filtered

\* A kept line that is not seen comes when its keys are used up.
LEMMA FilterLineSeen ==
  ASSUME TypeInv, NEW e \in File, SeenInv(e), FilterLine(e)
  PROVE  SeenInv(e)'
<1>1. /\ spec = "hydrated" /\ pc[e] = "written" /\ pos[e] > 0 /\ pos'[e] = pos[e] - 1
      /\ UNCHANGED <<CACHE, content, spec, pc, kept>> /\ pos[e] \in Nat
  BY DEF FilterLine, Written, filterVars, provider, TypeInv, TypeOK
<1>2. Filtered(e)
  BY <1>1 DEF SeenInv
<1>3. /\ \A i \in kept[e] : i \in Nat /\ CACHE[Point] \in Filter
      /\ allowlist[e] \in Filter
  BY CollectAssumption DEF TypeInv, TypeOK, FiltersInv, FiltersTypeOK
<1>4. \A k \in Key : CACHE[Point][k] \in Nat /\ allowlist[e][k] \in Nat
  <2>1. CACHE[Point] \in Filter /\ allowlist[e] \in Filter
    BY CollectAssumption DEF TypeInv, TypeOK, FiltersInv, FiltersTypeOK
  <2>. QED BY <2>1, FiltersAssumption DEF Filter
<1>5. \A k \in Key : /\ IsFiniteSet(Shown(e, k)) /\ Cardinality(Shown(e, k)) \in Nat
                     /\ pos[e] \notin Shown(e, k)
  <2>1. \A k \in Key : Shown(e, k) \subseteq seen[e]
    BY DEF Shown
  <2>2. pos[e] \notin seen[e]
    BY <1>1, <1>2 DEF Filtered
  <2>. QED BY <1>2, <2>1, <2>2, ShownLines DEF Filtered
<1>6. ASSUME UNCHANGED <<seen, allowlist>>, pos[e] \in kept[e] => ~Unfiltered /\ LiveShown(e) = {}
      PROVE  Filtered(e)'
  <2>1. ASSUME NEW k \in Key
        PROVE  Shown(e, k)' = Shown(e, k)
    BY <1>1, <1>6 DEF Shown
  <2>2. seen'[e] \subseteq kept'[e] /\ \A i \in seen'[e] : i > pos'[e]
    BY <1>1, <1>2, <1>3, <1>6 DEF Filtered
  <2>3. ASSUME NEW k \in Key
        PROVE  CACHE'[Point][k] <= allowlist'[e][k] + Cardinality(Shown(e, k)')
    BY <1>1, <1>2, <1>6, <2>1 DEF Filtered
  <2>4. ASSUME NEW k \in Key, NEW i \in kept[e] \ seen[e], k \in content[e][i].shown, i > pos[e] - 1
        PROVE  CACHE[Point][k] <= Cardinality({j \in Shown(e, k) : j > i})
    <3>1. CASE i > pos[e]
      BY <1>2, <2>4, <3>1 DEF Filtered
    <3>2. CASE i = pos[e]
      <4>1. allowlist[e][k] = 0
        BY <1>4, <1>6, <2>4, <3>2 DEF LiveShown, Keys, Current
      <4>2. {j \in Shown(e, k) : j > i} = Shown(e, k)
        BY <1>2, <3>2 DEF Shown, Filtered
      <4>3. CACHE[Point][k] <= allowlist[e][k] + Cardinality(Shown(e, k))
        BY <1>2 DEF Filtered
      <4>4. CACHE[Point][k] <= Cardinality(Shown(e, k))
        BY <1>4, <1>5, <4>1, <4>3
      <4>. QED BY <4>2, <4>4
    <3>. QED BY <1>1, <1>3, <2>4, <3>1, <3>2
  <2>5. ASSUME NEW k \in Key, NEW i \in kept'[e] \ seen'[e], k \in content'[e][i].shown, i > pos'[e]
        PROVE  CACHE'[Point][k] <= Cardinality({j \in Shown(e, k)' : j > i})
    BY <1>1, <1>6, <2>1, <2>4, <2>5
  <2>. QED BY <2>2, <2>3, <2>5 DEF Filtered
<1>7. ASSUME pos[e] \in kept[e], seen' = [seen EXCEPT ![e] = @ \cup {pos[e]}],
             \/ Unfiltered /\ UNCHANGED allowlist
             \/ \E k \in LiveShown(e) : Charge(e, k)
      PROVE  Filtered(e)'
  <2>1. seen'[e] = seen[e] \cup {pos[e]}
    BY <1>7 DEF TypeInv, TypeOK
  <2>2. seen'[e] \subseteq kept'[e] /\ \A i \in seen'[e] : i > pos'[e]
    BY <1>1, <1>2, <1>3, <1>7, <2>1 DEF Filtered
  <2>3. ASSUME NEW k \in Key
        PROVE  /\ Shown(e, k)' = IF k \in Current(e).shown THEN Shown(e, k) \cup {pos[e]}
                                                         ELSE Shown(e, k)
               /\ Cardinality(Shown(e, k)') =
                    Cardinality(Shown(e, k)) + IF k \in Current(e).shown THEN 1 ELSE 0
    <3>1. Shown(e, k)' = IF k \in Current(e).shown THEN Shown(e, k) \cup {pos[e]} ELSE Shown(e, k)
      BY <1>1, <2>1 DEF Shown, Current
    <3>2. Cardinality(Shown(e, k) \cup {pos[e]}) = Cardinality(Shown(e, k)) + 1
      BY <1>5, FS_AddElement
    <3>. QED BY <1>5, <3>1, <3>2
  <2>4. ASSUME NEW k \in Key
        PROVE  CACHE'[Point][k] <= allowlist'[e][k] + Cardinality(Shown(e, k)')
    <3>. DEFINE n == Cardinality(Shown(e, k))
                m == Cardinality(Shown(e, k)')
    <3>1. n \in Nat /\ m \in Nat /\ n <= m /\ (k \in Current(e).shown => m = n + 1)
      BY <1>5, <2>3
    <3>2. CACHE[Point][k] <= allowlist[e][k] + n
      BY <1>2 DEF Filtered
    <3>3. CASE Unfiltered /\ UNCHANGED allowlist
      <4>1. allowlist'[e][k] = allowlist[e][k] /\ CACHE'[Point][k] = CACHE[Point][k]
        BY <1>1, <3>3
      <4>. HIDE DEF n, m
      <4>2. CACHE'[Point][k] <= allowlist'[e][k] + m
        BY <1>4, <3>1, <3>2, <4>1
      <4>. QED BY <4>2 DEF m
    <3>4. CASE \E c \in LiveShown(e) : Charge(e, c)
      <4>1. PICK c \in LiveShown(e) : Charge(e, c)
        BY <3>4
      <4>2. c \in Key /\ allowlist[e][c] > 0 /\ c \in Current(e).shown
        BY DEF LiveShown, Keys
      <4>3. /\ allowlist'[e][c] = allowlist[e][c] - 1
            /\ k # c => allowlist'[e][k] = allowlist[e][k]
        BY <4>1, <4>2, ChargeTypes
      <4>4. CACHE'[Point][k] = CACHE[Point][k] /\ (k = c => m = n + 1)
        BY <1>1, <3>1, <4>2
      <4>. HIDE DEF n, m
      <4>5. CACHE'[Point][k] <= allowlist'[e][k] + m
        BY <1>4, <3>1, <3>2, <4>3, <4>4
      <4>. QED BY <4>5 DEF m
    <3>. QED BY <1>7, <3>3, <3>4
  <2>5. ASSUME NEW k \in Key, NEW i \in kept'[e] \ seen'[e], k \in content'[e][i].shown, i > pos'[e]
        PROVE  CACHE'[Point][k] <= Cardinality({j \in Shown(e, k)' : j > i})
    <3>1. i \in kept[e] \ seen[e] /\ i # pos[e] /\ i \in Nat /\ i > pos[e] /\ k \in content[e][i].shown
      BY <1>1, <1>3, <2>1, <2>5
    <3>2. CACHE[Point][k] <= Cardinality({j \in Shown(e, k) : j > i})
      BY <1>2, <3>1 DEF Filtered
    <3>3. {j \in Shown(e, k)' : j > i} = {j \in Shown(e, k) : j > i}
      BY <1>1, <2>3, <3>1
    <3>. QED BY <1>1, <3>2, <3>3
  <2>. QED BY <2>2, <2>4, <2>5 DEF Filtered
<1>8. Filtered(e)'
  <2>1. CASE pos[e] \in kept[e] /\ (Unfiltered \/ LiveShown(e) # {})
    BY <1>7, <2>1 DEF FilterLine
  <2>2. CASE ~(pos[e] \in kept[e] /\ (Unfiltered \/ LiveShown(e) # {}))
    BY <1>6, <2>2 DEF FilterLine
  <2>. QED BY <2>1, <2>2
<1>. QED BY <1>1, <1>8 DEF SeenInv

LEMMA SeenStep ==
  ASSUME TypeInv, \A e \in File : SeenInv(e), [Next]_vars
  PROVE  \A e \in File : SeenInv(e)'
<1>. SUFFICES ASSUME NEW e \in File PROVE SeenInv(e)'
  OBVIOUS
<1>1. ASSUME spec' # "hydrated", seen' = seen, spec # "hydrated"
      PROVE  SeenInv(e)'
  BY <1>1 DEF SeenInv
<1>2. CASE UNCHANGED vars
  BY <1>2 DEF vars, filterVars, provider, SeenInv, Filtered, Shown
<1>3. CASE Register \/ MakeProviders \/ Dehydrate
  BY <1>1, <1>3 DEF Register, MakeProviders, Dehydrate, provider
<1>4. CASE \E d \in File : Work(d)
  <2>1. PICK d \in File : Work(d)
    BY <1>4
  <2>2. spec = "made"
    BY <2>1 DEF TypeInv, Place, Working, Work, Load, Discard, Keep, Find, NotFound, Allocate,
      Insert, LineDone, Write
  <2>3. UNCHANGED <<spec, seen>>
    BY <2>1 DEF Work, Load, Discard, Keep, Find, NotFound, Allocate, Insert, LineDone, Write,
      provider
  <2>. QED BY <1>1, <2>2, <2>3
<1>5. CASE \E d \in File : FilterLine(d) /\ d # e
  <2>1. PICK d \in File : FilterLine(d) /\ d # e
    BY <1>5
  <2>2. UNCHANGED <<CACHE, content, spec, pc, kept>> /\ pos'[e] = pos[e]
    BY <2>1 DEF FilterLine, filterVars, provider, TypeInv, TypeOK
  <2>3. seen'[e] = seen[e] /\ allowlist'[e] = allowlist[e]
    BY <2>1 DEF FilterLine, Charge, TypeInv, TypeOK
  <2>4. \A k : Shown(e, k)' = Shown(e, k)
    BY <2>2, <2>3 DEF Shown
  <2>. QED BY <2>2, <2>3 DEF SeenInv, Filtered, Shown
<1>. QED BY <1>2, <1>3, <1>4, <1>5, HydrateSeen, FilterLineSeen DEF Next

AllSeen == FiltersKept /\ \A e \in File : SeenInv(e)

LEMMA SeenAlways == Spec => []AllSeen
<1>1. Init => AllSeen
  <2>1. Init => \A e \in File : SeenInv(e)
    BY DEF Init, SeenInv
  <2>. QED BY <2>1, TypesInitially, FilterInitially DEF AllSeen, FiltersKept
<1>2. AllSeen /\ [Next]_vars => AllSeen'
  BY TypeStep, FilterStep, SeenStep DEF FiltersKept, AllSeen
<1>. QED BY <1>1, <1>2, PTL DEF Spec

\* What was collected for a filter and still shows it survives the second filtering,
\* whichever keys pay for the lines then, if obfuscation brought the filter into no
\* other line.
THEOREM AnalysisSees == Spec => []AnalysisSeesNeeded
<1>1. ASSUME AllSeen, NEW e \in provided, spec = "hydrated", pc[e] = "written", pos[e] = 0,
             filterable, NEW k \in Keys(filters), CACHE[Point][k] = filters[k],
             NotBroughtIn(e, k)
      PROVE  {i \in Last(Having(e, k), filters[k]) : k \in content[e][i].shown} \subseteq seen[e]
  <2>1. e \in File /\ k \in Key /\ TypeInv /\ FilterInv(e) /\ SeenInv(e)
    BY <1>1 DEF AllSeen, FiltersKept, TypeInv, TypeOK, Keys
  <2>2. Filtered(e)
    BY <1>1, <2>1 DEF SeenInv
  <2>3. ASSUME NEW i \in Last(Having(e, k), filters[k]), k \in content[e][i].shown, i \notin seen[e]
        PROVE  FALSE
    <3>. DEFINE later == {j \in Having(e, k) : j > i}
                shown == {j \in Shown(e, k) : j > i}
    <3>1. i \in kept[e]
      BY <1>1, <2>1, LastAreKept DEF AllSeen
    <3>2. i \in Having(e, k) /\ Cardinality(later) < filters[k]
      BY DEF Last
    <3>3. i \in DOMAIN content[e] /\ i > 0
      BY <2>1, <3>2, Lines DEF Having, TypeInv
    <3>4. filters[k] <= Cardinality(shown)
      BY <1>1, <2>1, <2>2, <2>3, <3>1, <3>3 DEF Filtered
    <3>5. shown \subseteq later
      <4>1. Shown(e, k) \subseteq kept[e] /\ kept[e] \subseteq DOMAIN content[e]
        BY <2>1, <2>2 DEF Shown, Filtered, TypeInv, Place
      <4>2. \A j \in kept[e] : ~content[e][j].redacted
        BY <2>1 DEF FilterInv, Clean, Taken
      <4>. QED BY <1>1, <4>1, <4>2 DEF Shown, Having, NotBroughtIn
    <3>6. IsFiniteSet(later)
      <4>1. later \subseteq 1 .. Len(content[e]) /\ Len(content[e]) \in Nat
        BY <2>1, Lines DEF Having, TypeInv
      <4>2. IsFiniteSet(1 .. Len(content[e]))
        BY <4>1, FS_Interval
      <4>. QED BY <4>1, <4>2, FS_Subset
    <3>7. /\ Cardinality(shown) <= Cardinality(later)
          /\ Cardinality(later) \in Nat /\ Cardinality(shown) \in Nat
      BY <3>5, <3>6, FS_Subset, FS_CardinalityType
    <3>8. filters[k] \in Nat
      BY <2>1, FiltersAssumption DEF TypeInv, TypeOK, Filter
    <3>. HIDE DEF later, shown
    <3>. QED BY <3>2, <3>4, <3>7, <3>8
  <2>. QED BY <2>3 DEF Last
<1>2. AllSeen => AnalysisSeesNeeded
  BY <1>1 DEF AnalysisSeesNeeded
<1>. QED BY SeenAlways, <1>2, PTL

-----------------------------------------------------------------------------
(* Obfuscation, by any number of threads.                                  *)

AtWork == {"obfuscate", "allocate", "insert"}

\* The addresses that are still to be replaced in a line.
Left(e, i) == IF pc[e] \in AtWork /\ i = pos[e] THEN ips[e] ELSE {}

\* The lines that were not looked at are as they were on the host; in the others an
\* address is a replacement, or still to be replaced.
Fresh(e) ==
  Working(e) => \A i \in DOMAIN content[e] :
    i < pos[e] \/ (i = pos[e] /\ pc[e] = "line") => text[e][i] = content[e][i].ips

Replaced(e) ==
  \A i \in Taken(e) : \A j \in DOMAIN text[e][i] :
    text[e][i][j] \in DOMAIN db \cup {0} \cup Left(e, i)

TextInv(e) == Fresh(e) /\ Replaced(e)

LEMMA DbGrows ==
  ASSUME TypeInv, [Next]_vars
  PROVE  DOMAIN db \subseteq DOMAIN db'
<1>1. CASE \E e \in File : Work(e)
  BY <1>1 DEF Work, Load, Discard, Keep, Find, NotFound, Allocate, Insert, LineDone, Write,
    obfuscation
<1>2. CASE \A e \in File : ~Work(e)
  <2>1. CASE File = {}
    BY <2>1 DEF Next, vars, obfuscation, Register, MakeProviders, Dehydrate, Hydrate
  <2>2. CASE File # {}
    BY <1>2, <2>2, SystemFrame
  <2>. QED BY <2>1, <2>2
<1>. QED BY <1>1, <1>2

\* A file whose text stays where it is needs nothing.
LEMMA TextUntouched ==
  ASSUME TypeInv, NEW e \in File, TextInv(e), UNCHANGED content,
         pc'[e] = pc[e], kept'[e] = kept[e], text'[e] = text[e], ips'[e] = ips[e],
         Working(e) => pos'[e] = pos[e], DOMAIN db \subseteq DOMAIN db'
  PROVE  TextInv(e)'
<1>1. Taken(e)' = Taken(e) /\ Working(e)' = Working(e)
  BY DEF Taken, Working
<1>2. \A i : Left(e, i)' = Left(e, i)
  BY DEF Left, AtWork, Working
<1>3. Fresh(e)'
  BY <1>1 DEF TextInv, Fresh
<1>4. ASSUME NEW i \in Taken(e)', NEW j \in DOMAIN text'[e][i]
      PROVE  text'[e][i][j] \in DOMAIN db' \cup {0} \cup Left(e, i)'
  <2>1. text[e][i][j] \in DOMAIN db \cup {0} \cup Left(e, i)
    BY <1>1, <1>4 DEF TextInv, Replaced
  <2>2. Left(e, i)' = Left(e, i)
    BY <1>2
  <2>. QED BY <2>1, <2>2
<1>. QED BY <1>3, <1>4 DEF TextInv, Replaced

LEMMA LoadText ==
  ASSUME TypeInv, NEW e \in File, Load(e)
  PROVE  TextInv(e)'
<1>1. PICK l \in {"line", "failed"} : pc'[e] = l
  BY DEF Load, Goto, TypeInv, TypeOK
<1>2. /\ UNCHANGED content /\ kept'[e] = {}
      /\ text'[e] = [i \in DOMAIN content[e] |-> content[e][i].ips]
  BY DEF Load, provider, TypeInv, TypeOK, Place
<1>3. Taken(e)' = {}
  BY <1>1, <1>2 DEF Taken
<1>. QED BY <1>2, <1>3 DEF TextInv, Fresh, Replaced

LEMMA PassText ==
  ASSUME TypeInv, NEW e \in File, TextInv(e), Discard(e) \/ Write(e)
  PROVE  TextInv(e)'
<1>1. UNCHANGED <<content, kept, text, ips, db>> /\ pc[e] = "line" /\ pc'[e] \notin AtWork
  BY DEF Discard, Write, Goto, provider, obfuscation, AtWork, TypeInv, TypeOK
<1>2. pos[e] \in Nat /\ ((pos'[e] = pos[e] /\ pos[e] = 0) \/ pos'[e] = pos[e] - 1)
  BY DEF Discard, Write, TypeInv, TypeOK
<1>3. Taken(e)' = Taken(e) /\ Working(e) /\ \A i : Left(e, i) = {} /\ Left(e, i)' = {}
  BY <1>1 DEF Taken, Working, Left, AtWork
<1>4. ASSUME NEW i \in DOMAIN content[e], i < pos'[e] \/ i = pos'[e]
      PROVE  text'[e][i] = content'[e][i].ips
  <2>1. i \in Nat /\ i >= 1
    BY Lines DEF TypeInv
  <2>2. i < pos[e]
    BY <1>2, <1>4, <2>1
  <2>. QED BY <1>1, <1>3, <2>2 DEF TextInv, Fresh
<1>5. Fresh(e)'
  BY <1>1, <1>4 DEF Fresh
<1>6. Replaced(e)'
  BY <1>1, <1>3 DEF TextInv, Replaced
<1>. QED BY <1>5, <1>6 DEF TextInv

LEMMA KeepText ==
  ASSUME TypeInv, NEW e \in File, TextInv(e), Keep(e)
  PROVE  TextInv(e)'
<1>1. /\ UNCHANGED <<content, kept, text, db, pos>> /\ pc[e] = "line" /\ pc'[e] = "obfuscate"
      /\ pos[e] > 0 /\ ips'[e] = Addresses(Current(e)) \ {0}
  BY DEF Keep, Goto, provider, TypeInv, TypeOK
<1>2. /\ Taken(e) = kept[e] /\ Taken(e)' = kept[e] \cup {pos[e]} /\ Working(e)
      /\ \A i : Left(e, i) = {} /\ Left(e, pos[e])' = Addresses(Current(e)) \ {0}
  BY <1>1 DEF Taken, Working, Left, AtWork
<1>3. pos[e] \in DOMAIN content[e]
  BY <1>1, Lines DEF TypeInv
<1>4. text[e][pos[e]] = Current(e).ips
  BY <1>1, <1>2, <1>3 DEF TextInv, Fresh, Current
<1>5. Fresh(e)'
  BY <1>1, <1>2 DEF TextInv, Fresh
<1>6. ASSUME NEW i \in Taken(e)', NEW j \in DOMAIN text'[e][i]
      PROVE  text'[e][i][j] \in DOMAIN db' \cup {0} \cup Left(e, i)'
  <2>1. CASE i = pos[e]
    BY <1>1, <1>2, <1>4, <1>6, <2>1 DEF Addresses
  <2>2. CASE i # pos[e]
    BY <1>1, <1>2, <1>6, <2>2 DEF TextInv, Replaced
  <2>. QED BY <2>1, <2>2
<1>. QED BY <1>5, <1>6 DEF TextInv, Replaced

LEMMA ReplaceText ==
  ASSUME TypeInv, NEW e \in File, TextInv(e), pc[e] \in {"obfuscate", "insert"},
         NEW old \in Address, NEW new \in Address, new \in DOMAIN db', Replace(e, old, new),
         DOMAIN db \subseteq DOMAIN db', UNCHANGED <<content, pos, kept>>, pc'[e] = "obfuscate"
  PROVE  TextInv(e)'
<1>. DEFINE p == pos[e]
<1>1. old \in Address /\ TypeOK /\ p \in DOMAIN text[e] /\ Working(e)
  BY AtLine DEF TypeInv, TypeOK
<1>2. /\ ips'[e] = ips[e] \ {old} /\ DOMAIN text'[e] = DOMAIN text[e]
      /\ \A i \in DOMAIN text[e] : i # p => text'[e][i] = text[e][i]
      /\ text'[e][p] = [j \in DOMAIN text[e][p] |->
                          IF text[e][p][j] = old THEN new ELSE text[e][p][j]]
  BY <1>1, ReplaceTypes
<1>3. /\ Taken(e)' = Taken(e) /\ p \in Taken(e) /\ Left(e, p) = ips[e] /\ Left(e, p)' = ips[e] \ {old}
      /\ \A i : i # p => Left(e, i) = {} /\ Left(e, i)' = {}
  BY <1>2 DEF Taken, Left, AtWork
<1>4. DOMAIN text[e] = DOMAIN content[e] /\ Taken(e) \subseteq DOMAIN text[e]
  <2>1. Place(e)
    BY DEF TypeInv
  <2>. QED BY <1>1, <2>1, TakenLines DEF Place, Working
<1>5. Fresh(e)'
  <2>1. p \in Nat
    BY <1>1 DEF TypeOK
  <2>2. ASSUME NEW i \in DOMAIN content[e], i < p
        PROVE  text'[e][i] = content[e][i].ips
    <3>1. i # p
      BY <2>1, <2>2, Lines DEF TypeInv
    <3>. QED BY <1>1, <1>2, <1>4, <2>2, <3>1 DEF TextInv, Fresh
  <2>. QED BY <2>2 DEF Fresh
<1>6. ASSUME NEW i \in Taken(e)', NEW j \in DOMAIN text'[e][i]
      PROVE  text'[e][i][j] \in DOMAIN db' \cup {0} \cup Left(e, i)'
  <2>1. CASE i = p
    <3>1. j \in DOMAIN text[e][p] /\ text[e][p][j] \in DOMAIN db \cup {0} \cup ips[e]
      BY <1>2, <1>3, <1>6, <2>1 DEF TextInv, Replaced
    <3>2. text'[e][p][j] = IF text[e][p][j] = old THEN new ELSE text[e][p][j]
      BY <1>2, <3>1
    <3>. QED BY <1>3, <2>1, <3>1, <3>2
  <2>2. CASE i # p
    <3>1. text'[e][i] = text[e][i] /\ i \in Taken(e)
      BY <1>2, <1>3, <1>4, <1>6, <2>2
    <3>2. text[e][i][j] \in DOMAIN db \cup {0} \cup Left(e, i)
      BY <1>6, <3>1 DEF TextInv, Replaced
    <3>3. Left(e, i) = {}
      BY <1>3, <2>2
    <3>. QED BY <3>1, <3>2, <3>3
  <2>. QED BY <2>1, <2>2
<1>. QED BY <1>5, <1>6 DEF TextInv, Replaced

LEMMA FindText ==
  ASSUME TypeInv, NEW e \in File, TextInv(e), Find(e)
  PROVE  TextInv(e)'
<1>1. PICK old \in ips[e], new \in DOMAIN db : Replace(e, old, new)
  BY DEF Find
<1>2. old \in Address /\ new \in Address
  BY DEF TypeInv, TypeOK, Address
<1>3. UNCHANGED <<content, pos, kept, db>> /\ pc[e] = "obfuscate" /\ pc'[e] = "obfuscate"
  BY DEF Find, provider
<1>. QED BY <1>1, <1>2, <1>3, ReplaceText

LEMMA InsertText ==
  ASSUME TypeInv, NEW e \in File, TextInv(e), Insert(e)
  PROVE  TextInv(e)'
<1>1. /\ Replace(e, ip[e], new_ip[e]) /\ UNCHANGED <<content, pos, kept>>
      /\ DOMAIN db' = DOMAIN db \cup {new_ip[e]}
      /\ pc[e] = "insert" /\ pc'[e] = "obfuscate"
  BY DEF Insert, provider, Goto, TypeInv, TypeOK
<1>2. ip[e] \in Address /\ new_ip[e] \in Address
  BY DEF TypeInv, TypeOK
<1>. QED BY <1>1, <1>2, ReplaceText

\* The line at hand stays as it is.
LEMMA LookText ==
  ASSUME TypeInv, NEW e \in File, TextInv(e), NotFound(e) \/ Allocate(e)
  PROVE  TextInv(e)'
<1>1. /\ UNCHANGED <<content, pos, kept, text, ips, db>>
      /\ pc[e] \in AtWork /\ pc'[e] \in AtWork
  BY DEF NotFound, Allocate, provider, Goto, TypeInv, TypeOK, AtWork
<1>2. /\ Taken(e)' = Taken(e) /\ Working(e) /\ pc[e] # "line" /\ pc'[e] # "line"
      /\ \A i : Left(e, i)' = Left(e, i)
  BY <1>1 DEF Taken, Working, Left, AtWork
<1>3. Fresh(e)'
  BY <1>1, <1>2 DEF TextInv, Fresh
<1>4. Replaced(e)'
  BY <1>1, <1>2 DEF TextInv, Replaced
<1>. QED BY <1>3, <1>4 DEF TextInv

LEMMA LineDoneText ==
  ASSUME TypeInv, NEW e \in File, TextInv(e), LineDone(e)
  PROVE  TextInv(e)'
<1>1. /\ UNCHANGED <<content, text, ips, db>> /\ ips[e] = {}
      /\ pc[e] = "obfuscate" /\ pc'[e] = "line" /\ pos'[e] = pos[e] - 1
      /\ pos[e] \in Nat
  BY DEF LineDone, provider, obfuscation, Goto, TypeInv, TypeOK
<1>2. Taken(e)' = Taken(e)
  BY ObfuscateTakes
<1>3. Working(e) /\ \A i : Left(e, i) = {} /\ Left(e, i)' = {}
  BY <1>1 DEF Working, Left, AtWork
<1>4. ASSUME NEW i \in DOMAIN content[e], i < pos'[e] \/ i = pos'[e]
      PROVE  text'[e][i] = content[e][i].ips
  <2>1. i < pos[e]
    BY <1>1, <1>4, Lines DEF TypeInv
  <2>. QED BY <1>1, <1>3, <2>1 DEF TextInv, Fresh
<1>5. Fresh(e)'
  BY <1>1, <1>4 DEF Fresh
<1>6. Replaced(e)'
  BY <1>1, <1>2, <1>3 DEF TextInv, Replaced
<1>. QED BY <1>5, <1>6 DEF TextInv

LEMMA TextStep ==
  ASSUME TypeInv, \A e \in File : TextInv(e), [Next]_vars
  PROVE  \A e \in File : TextInv(e)'
<1>. SUFFICES ASSUME NEW f \in File PROVE TextInv(f)'
  OBVIOUS
<1>1. ASSUME NEW e \in File, Work(e)
      PROVE  TextInv(f)'
  <2>1. CASE f = e
    BY <1>1, <2>1, LoadText, PassText, KeepText, FindText, LookText, InsertText, LineDoneText
      DEF Work
  <2>2. CASE f # e
    BY <1>1, <2>2, WorkFrame, DbGrows, TextUntouched
  <2>. QED BY <2>1, <2>2
<1>2. ASSUME \A e \in File : ~Work(e)
      PROVE  TextInv(f)'
  BY <1>2, SystemFrame, DbGrows, TextUntouched
<1>. QED BY <1>1, <1>2

TextKept == TypeInv /\ \A e \in File : TextInv(e)

LEMMA TextAlways == Spec => []TextKept
<1>1. Init => TextKept
  <2>1. ASSUME Init, NEW e \in File
        PROVE  TextInv(e)
    <3>1. Taken(e) = {} /\ ~Working(e)
      BY <2>1 DEF Init, Taken, Working
    <3>. QED BY <3>1 DEF TextInv, Fresh, Replaced
  <2>. QED BY <2>1, TypesInitially DEF TextKept
<1>2. TextKept /\ [Next]_vars => TextKept'
  BY TypeStep, TextStep DEF TextKept
<1>. QED BY <1>1, <1>2, PTL DEF Spec

\* However the threads interleave, every address of a line that was kept is a
\* replacement or 127.0.0.1.
THEOREM NoneLeft == Spec => []NoOriginalLeft
<1>1. ASSUME TextKept, NEW e \in provided, NEW i \in kept[e], NEW j \in DOMAIN text[e][i]
      PROVE  text[e][i][j] \in DOMAIN db \cup {0}
  <2>1. e \in File /\ Place(e) /\ TextInv(e)
    BY <1>1 DEF TextKept, TypeInv, TypeOK
  <2>2. i \in Taken(e)
    BY DEF Taken
  <2>3. kept[e] \subseteq Nat /\ pos[e] \in Nat
    BY <1>1, <2>1 DEF TextKept, TypeInv, TypeOK
  <2>4. Left(e, i) = {}
    BY <2>1, <2>3 DEF Place, Working, Left, AtWork
  <2>. QED BY <2>1, <2>2, <2>4 DEF TextInv, Replaced
<1>2. TextKept => NoOriginalLeft
  BY <1>1 DEF NoOriginalLeft
<1>. QED BY TextAlways, <1>2, PTL

-----------------------------------------------------------------------------
(* Obfuscation, by one thread.                                             *)

Alone == \A e, f \in File : Working(e) /\ Working(f) => e = f

\* The address at hand has no replacement yet, and the one it is given is free.
Owned(e) ==
  /\ pc[e] \in {"allocate", "insert"} => ip[e] \in ips[e] \ Originals
  /\ pc[e] = "insert" => new_ip[e] \notin DOMAIN db

OneInv == TypeInv /\ Alone /\ OneToOne /\ \A e \in File : Owned(e)

LEMMA AloneStep ==
  ASSUME Workers = 1, TypeInv, Alone, [Next]_vars
  PROVE  Alone'
<1>1. ASSUME NEW e \in File, Load(e)
      PROVE  Alone'
  <2>. DEFINE busy == {d \in File : Working(d)}
  <2>1. IsFiniteSet(busy) /\ Cardinality(busy) < 1
    BY <1>1, CollectAssumption, FS_Subset DEF Load
  <2>2. busy = {}
    BY <2>1, FS_EmptySet, FS_CardinalityType
  <2>3. \A d \in File : Working(d)' => d = e
    BY <1>1, <2>2 DEF Load, Goto, Working, TypeInv, TypeOK
  <2>. QED BY <2>3 DEF Alone
<1>2. ASSUME NEW e \in File, Work(e), ~Load(e)
      PROVE  Alone'
  <2>1. Working(e)
    BY <1>2 DEF Work, Discard, Keep, Find, NotFound, Allocate, Insert, LineDone, Write, Working
  <2>2. \A d \in File : d # e => pc'[d] = pc[d]
    BY <1>2, WorkFrame
  <2>3. \A d \in File : Working(d)' => Working(d)
    BY <2>1, <2>2 DEF Working
  <2>. QED BY <2>3 DEF Alone
<1>3. ASSUME \A e \in File : ~Work(e), File # {}
      PROVE  Alone'
  <2>1. UNCHANGED pc
    BY <1>3, SystemFrame
  <2>. QED BY <2>1 DEF Alone, Working
<1>4. CASE File = {}
  BY <1>4 DEF Alone
<1>. QED BY <1>1, <1>2, <1>3, <1>4

\* A step in which no file gets a replacement.
LEMMA OwnedStays ==
  ASSUME TypeInv, NEW e \in File, Owned(e), UNCHANGED db,
         \/ pc'[e] \notin {"allocate", "insert"}
         \/ pc'[e] = pc[e] /\ ip'[e] = ip[e] /\ new_ip'[e] = new_ip[e] /\ ips'[e] = ips[e]
  PROVE  Owned(e)'
BY DEF Owned, Originals

LEMMA AllocateOwned ==
  ASSUME TypeInv, NEW e \in File, Owned(e), NotFound(e) \/ Allocate(e)
  PROVE  Owned(e)'
<1>1. CASE NotFound(e)
  <2>1. /\ ip'[e] \in ips[e] \ Originals /\ pc'[e] = "allocate" /\ UNCHANGED <<ips, db>>
    BY <1>1 DEF NotFound, Goto, TypeInv, TypeOK
  <2>. QED BY <2>1 DEF Owned, Originals
<1>2. CASE Allocate(e)
  <2>1. /\ ip' = ip /\ ips' = ips /\ db' = db /\ pc[e] = "allocate" /\ new_ip'[e] = NextIp
    BY <1>2 DEF Allocate, TypeInv, TypeOK
  <2>2. PICK n \in Nat : DOMAIN db = StartIp .. StartIp + n - 1
    BY DEF TypeInv, DbInv
  <2>3. NextIp = StartIp + n /\ StartIp \in Nat
    BY <2>2, NextIpType, CollectAssumption
  <2>4. NextIp \notin DOMAIN db
    BY <2>2, <2>3
  <2>. QED BY <2>1, <2>4 DEF Owned, Originals
<1>. QED BY <1>1, <1>2

\* The database only gets new replacements.
Extended == \A n \in DOMAIN db : n \in DOMAIN db' /\ db'[n] = db[n]

LEMMA OneStep ==
  ASSUME OneInv, [Next]_vars
  PROVE  Extended /\ OneToOne' /\ \A e \in File : Owned(e)'
<1>. USE DEF OneInv
<1>1. ASSUME NEW e \in File, Insert(e)
      PROVE  Extended /\ OneToOne' /\ \A f \in File : Owned(f)'
  <2>1. /\ pc[e] = "insert" /\ pc'[e] = "obfuscate"
        /\ db' = [n \in DOMAIN db \cup {new_ip[e]} |-> IF n = new_ip[e] THEN ip[e] ELSE db[n]]
        /\ new_ip[e] \notin DOMAIN db /\ ip[e] \notin Originals
    BY <1>1 DEF Insert, Goto, Owned, TypeInv, TypeOK
  <2>2. Extended
    BY <2>1 DEF Extended
  <2>3. OneToOne'
    BY <2>1 DEF OneToOne, Originals
  <2>4. ASSUME NEW f \in File
        PROVE  Owned(f)'
    <3>1. f # e => ~Working(f) /\ pc'[f] = pc[f]
      BY <1>1, <2>1, WorkFrame DEF Alone, Working, Work
    <3>. QED BY <2>1, <3>1 DEF Owned, Working
  <2>. QED BY <2>2, <2>3, <2>4
<1>2. ASSUME UNCHANGED db
      PROVE  Extended /\ OneToOne'
  BY <1>2 DEF Extended, OneToOne
<1>3. ASSUME NEW e \in File, Work(e), ~Insert(e)
      PROVE  UNCHANGED db /\ \A f \in File : Owned(f)'
  <2>1. UNCHANGED db
    BY <1>3 DEF Work, Load, Discard, Keep, Find, NotFound, Allocate, LineDone, Write, obfuscation
  <2>2. CASE NotFound(e) \/ Allocate(e)
    BY <2>1, <2>2, <1>3, WorkFrame, AllocateOwned, OwnedStays
  <2>3. CASE Load(e) \/ Discard(e) \/ Keep(e) \/ Find(e) \/ LineDone(e) \/ Write(e)
    <3>1. pc'[e] \notin {"allocate", "insert"}
      BY <2>3 DEF Load, Discard, Keep, Find, LineDone, Write, Goto, TypeInv, TypeOK
    <3>. QED BY <2>1, <3>1, <1>3, WorkFrame, OwnedStays
  <2>. QED BY <1>3, <2>1, <2>2, <2>3 DEF Work
<1>4. ASSUME \A e \in File : ~Work(e), File # {}
      PROVE  UNCHANGED db /\ \A f \in File : Owned(f)'
  BY <1>4, SystemFrame, OwnedStays
<1>5. CASE File = {}
  <2>1. UNCHANGED db
    BY <1>5 DEF Next, vars, obfuscation, Register, MakeProviders, Dehydrate, Hydrate
  <2>. QED BY <1>2, <1>5, <2>1
<1>. QED BY <1>1, <1>2, <1>3, <1>4, <1>5

LEMMA OneAlways ==
  ASSUME Workers = 1
  PROVE  Spec => []OneInv
<1>1. Init => OneInv
  <2>1. Init => Alone /\ OneToOne /\ \A e \in File : Owned(e)
    BY DEF Init, Alone, Working, OneToOne, Owned
  <2>. QED BY <2>1, TypesInitially DEF OneInv
<1>2. OneInv /\ [Next]_vars => OneInv'
  BY TypeStep, AloneStep, OneStep DEF OneInv
<1>. QED BY <1>1, <1>2, PTL DEF Spec

\* With one thread no address of the host gets two replacements.
THEOREM ReplacedOneToOne ==
  ASSUME Workers = 1
  PROVE  Spec => []OneToOne
<1>1. OneInv => OneToOne
  BY DEF OneInv
<1>. QED BY OneAlways, <1>1, PTL

\* A line of which the host's addresses cannot be taken for replacements.
Plain(e, i) == \A a \in Addresses(content[e][i]) : a < StartIp

\* Each address of a line that was looked at is what it was on the host, or what
\* the database says it was.
Traced(e) ==
  /\ pc[e] \in AtWork => ips[e] \subseteq Addresses(Current(e)) \ {0}
  /\ \A i \in Taken(e) : Plain(e, i) => \A j \in DOMAIN content[e][i].ips :
       LET old == content[e][i].ips[j]  new == text[e][i][j] IN
         IF old = 0 \/ old \in Left(e, i) THEN new = old
                                          ELSE new \in DOMAIN db /\ db[new] = old

TraceInv(e) == TextInv(e) /\ Traced(e)

LEMMA TraceUntouched ==
  ASSUME TypeInv, NEW e \in File, Traced(e), UNCHANGED content,
         Taken(e)' = Taken(e), text'[e] = text[e], \A i : Left(e, i)' = Left(e, i),
         pc'[e] \in AtWork => pc[e] \in AtWork /\ ips'[e] = ips[e] /\ pos'[e] = pos[e],
         Extended
  PROVE  Traced(e)'
<1>1. pc'[e] \in AtWork => ips'[e] \subseteq Addresses(Current(e))' \ {0}
  BY DEF Traced, Addresses, Current
<1>2. ASSUME NEW i \in Taken(e)', Plain(e, i)', NEW j \in DOMAIN content'[e][i].ips
      PROVE  LET old == content'[e][i].ips[j]  new == text'[e][i][j] IN
               IF old = 0 \/ old \in Left(e, i)' THEN new = old
                                                 ELSE new \in DOMAIN db' /\ db'[new] = old
  <2>1. i \in Taken(e) /\ Plain(e, i) /\ Left(e, i)' = Left(e, i)
    BY <1>2 DEF Plain, Addresses
  <2>. QED BY <2>1 DEF Traced, Extended
<1>. QED BY <1>1, <1>2 DEF Traced

\* The line that is taken is as it was on the host.
LEMMA KeepTrace ==
  ASSUME TypeInv, NEW e \in File, TraceInv(e), Keep(e)
  PROVE  Traced(e)'
<1>1. /\ UNCHANGED <<content, kept, text, db, pos>> /\ pc[e] = "line" /\ pc'[e] = "obfuscate"
      /\ pos[e] > 0 /\ ips'[e] = Addresses(Current(e)) \ {0}
  BY DEF Keep, Goto, provider, TypeInv, TypeOK
<1>2. /\ Taken(e) = kept[e] /\ Taken(e)' = kept[e] \cup {pos[e]} /\ Working(e)
      /\ Left(e, pos[e])' = Addresses(Current(e)) \ {0}
      /\ \A i : Left(e, i) = {} /\ (i # pos[e] => Left(e, i)' = {})
  BY <1>1 DEF Taken, Working, Left, AtWork
<1>3. pos[e] \in DOMAIN content[e] /\ text[e][pos[e]] = Current(e).ips
  BY <1>1, <1>2, Lines DEF TraceInv, TextInv, TypeInv, Fresh, Current
<1>4. ASSUME NEW i \in Taken(e)', Plain(e, i)', NEW j \in DOMAIN content'[e][i].ips
      PROVE  LET old == content'[e][i].ips[j]  new == text'[e][i][j] IN
               IF old = 0 \/ old \in Left(e, i)' THEN new = old
                                                 ELSE new \in DOMAIN db' /\ db'[new] = old
  <2>1. CASE i = pos[e]
    <3>1. content[e][i].ips[j] \in Addresses(Current(e)) /\ text'[e][i][j] = content'[e][i].ips[j]
      BY <1>1, <1>3, <1>4, <2>1 DEF Addresses, Current
    <3>. QED BY <1>1, <1>2, <2>1, <3>1
  <2>2. CASE i # pos[e]
    <3>1. i \in Taken(e) /\ Plain(e, i) /\ Left(e, i) = {} /\ Left(e, i)' = {}
      BY <1>1, <1>2, <1>4, <2>2 DEF Plain, Addresses
    <3>. QED BY <1>1, <1>4, <3>1 DEF TraceInv, Traced
  <2>. QED BY <2>1, <2>2
<1>5. ips'[e] \subseteq Addresses(Current(e))' \ {0}
  BY <1>1 DEF Addresses, Current
<1>. QED BY <1>4, <1>5 DEF Traced

\* An address of the line at hand gets the replacement the database has for it; as
\* replacements are in a range of their own, none of them is replaced again.
LEMMA ReplaceTrace ==
  ASSUME TypeInv, NEW e \in File, TraceInv(e), pc[e] \in {"obfuscate", "insert"},
         NEW old \in ips[e], NEW new \in Address, new \in DOMAIN db', db'[new] = old,
         Replace(e, old, new), Extended,
         UNCHANGED <<content, pos, kept>>, pc'[e] = "obfuscate"
  PROVE  Traced(e)'
<1>. DEFINE p == pos[e]
<1>1. old \in Address /\ TypeOK /\ p \in DOMAIN text[e] /\ Working(e) /\ pc[e] \in AtWork
  BY AtLine DEF TypeInv, TypeOK, AtWork
<1>2. /\ ips'[e] = ips[e] \ {old} /\ DOMAIN text'[e] = DOMAIN text[e]
      /\ \A i \in DOMAIN text[e] : i # p => text'[e][i] = text[e][i]
      /\ text'[e][p] = [j \in DOMAIN text[e][p] |->
                          IF text[e][p][j] = old THEN new ELSE text[e][p][j]]
  BY <1>1, ReplaceTypes
<1>3. /\ Taken(e)' = Taken(e) /\ p \in Taken(e) /\ Left(e, p) = ips[e] /\ Left(e, p)' = ips[e] \ {old}
      /\ \A i : i # p => Left(e, i) = {} /\ Left(e, i)' = {}
  BY <1>2 DEF Taken, Left, AtWork
<1>4. /\ DOMAIN text[e] = DOMAIN content[e] /\ Taken(e) \subseteq DOMAIN text[e]
      /\ \A i \in DOMAIN content[e] : DOMAIN text[e][i] = DOMAIN content[e][i].ips
  <2>1. Place(e)
    BY DEF TypeInv
  <2>. QED BY <1>1, <2>1, TakenLines DEF Place, Working
<1>5. ips[e] \subseteq Addresses(Current(e)) \ {0} /\ ips'[e] \subseteq Addresses(Current(e))' \ {0}
  BY <1>1, <1>2 DEF TraceInv, Traced, Addresses, Current
<1>6. \A n \in DOMAIN db : n \in Nat /\ n >= StartIp
  BY CollectAssumption DEF TypeInv, DbInv
<1>7. ASSUME NEW i \in Taken(e)', Plain(e, i)', NEW j \in DOMAIN content'[e][i].ips
      PROVE  LET host == content'[e][i].ips[j]  now == text'[e][i][j] IN
               IF host = 0 \/ host \in Left(e, i)' THEN now = host
                                                   ELSE now \in DOMAIN db' /\ db'[now] = host
  <2>. DEFINE host == content[e][i].ips[j]
              was == text[e][i][j]
              now == text'[e][i][j]
  <2>1. /\ i \in Taken(e) /\ Plain(e, i) /\ j \in DOMAIN content[e][i].ips
        /\ i \in DOMAIN text[e] /\ j \in DOMAIN text[e][i] /\ content' = content
    BY <1>3, <1>4, <1>7 DEF Plain, Addresses
  <2>2. IF host = 0 \/ host \in Left(e, i) THEN was = host
                                           ELSE was \in DOMAIN db /\ db[was] = host
    BY <2>1 DEF TraceInv, Traced
  <2>3. CASE i # p
    <3>1. now = was /\ Left(e, i) = {} /\ Left(e, i)' = {}
      BY <1>2, <1>3, <2>1, <2>3
    <3>. QED BY <2>1, <2>2, <3>1 DEF Extended
  <2>4. CASE i = p
    <3>1. now = IF was = old THEN new ELSE was
      BY <1>2, <2>1, <2>4
    <3>2. old # 0 /\ old \in Addresses(content[e][i]) /\ old < StartIp
      BY <1>5, <2>1, <2>4 DEF Current, Plain
    <3>3. Left(e, i) = ips[e] /\ Left(e, i)' = ips[e] \ {old}
      BY <1>3, <2>4
    <3>4. CASE host = 0
      BY <2>1, <2>2, <3>1, <3>2, <3>4
    <3>5. CASE host # 0 /\ host \in ips[e]
      BY <2>1, <2>2, <3>1, <3>3, <3>5
    <3>6. CASE host # 0 /\ host \notin ips[e]
      <4>1. was \in DOMAIN db /\ db[was] = host
        BY <2>2, <3>3, <3>6
      <4>2. was # old
        <5>1. was \in Nat /\ was >= StartIp /\ StartIp \in Nat
          BY <1>6, <4>1, CollectAssumption
        <5>2. old \in Nat
          BY <1>1 DEF Address
        <5>. QED BY <3>2, <5>1, <5>2
      <4>. QED BY <2>1, <3>1, <3>3, <3>6, <4>1, <4>2 DEF Extended
    <3>. QED BY <3>4, <3>5, <3>6
  <2>. QED BY <2>3, <2>4
<1>. QED BY <1>5, <1>7 DEF Traced

LEMMA TraceWork ==
  ASSUME OneInv, NEW e \in File, TraceInv(e), Work(e), Extended
  PROVE  Traced(e)'
<1>. USE DEF OneInv
<1>1. CASE Load(e)
  <2>1. /\ kept'[e] = {} /\ pc'[e] \in {"line", "failed"}
    BY <1>1 DEF Load, Goto, TypeInv, TypeOK, Place
  <2>2. Taken(e)' = {} /\ pc'[e] \notin AtWork
    BY <2>1 DEF Taken, AtWork
  <2>. QED BY <2>2 DEF Traced
<1>2. CASE Discard(e) \/ Write(e)
  <2>1. UNCHANGED <<content, kept, text, db>> /\ pc[e] = "line" /\ pc'[e] \notin AtWork
    BY <1>2 DEF Discard, Write, Goto, provider, obfuscation, AtWork, TypeInv, TypeOK
  <2>2. Taken(e)' = Taken(e) /\ \A i : Left(e, i)' = Left(e, i)
    BY <2>1 DEF Taken, Left, AtWork
  <2>. QED BY <2>1, <2>2, TraceUntouched DEF TraceInv
<1>3. CASE Keep(e)
  BY <1>3, KeepTrace
<1>4. CASE Find(e)
  <2>1. PICK old \in ips[e], new \in DOMAIN db : db[new] = old /\ Replace(e, old, new)
    BY <1>4 DEF Find
  <2>2. new \in Address /\ UNCHANGED <<content, pos, kept, db>>
        /\ pc[e] = "obfuscate" /\ pc'[e] = "obfuscate"
    BY <1>4 DEF Find, provider, TypeInv, TypeOK, Address
  <2>. QED BY <2>1, <2>2, ReplaceTrace
<1>5. CASE NotFound(e) \/ Allocate(e)
  <2>1. /\ UNCHANGED <<content, pos, kept, text, ips, db>>
        /\ pc[e] \in AtWork /\ pc'[e] \in AtWork
    BY <1>5 DEF NotFound, Allocate, provider, Goto, TypeInv, TypeOK, AtWork
  <2>2. Taken(e)' = Taken(e) /\ \A i : Left(e, i)' = Left(e, i)
    BY <2>1 DEF Taken, Left, AtWork
  <2>. QED BY <2>1, <2>2, TraceUntouched DEF TraceInv
<1>6. CASE Insert(e)
  <2>1. /\ Replace(e, ip[e], new_ip[e]) /\ UNCHANGED <<content, pos, kept>>
        /\ new_ip[e] \in DOMAIN db' /\ db'[new_ip[e]] = ip[e]
        /\ pc[e] = "insert" /\ pc'[e] = "obfuscate"
    BY <1>6 DEF Insert, provider, Goto, TypeInv, TypeOK
  <2>2. ip[e] \in ips[e] /\ new_ip[e] \in Address
    BY <2>1 DEF Owned, TypeInv, TypeOK
  <2>. QED BY <2>1, <2>2, ReplaceTrace
<1>7. CASE LineDone(e)
  <2>1. /\ UNCHANGED <<content, text, ips, db>> /\ ips[e] = {}
        /\ pc[e] = "obfuscate" /\ pc'[e] = "line"
    BY <1>7 DEF LineDone, provider, obfuscation, Goto, TypeInv, TypeOK
  <2>2. Taken(e)' = Taken(e)
    BY <1>7, ObfuscateTakes
  <2>3. pc'[e] \notin AtWork /\ \A i : Left(e, i)' = Left(e, i)
    BY <2>1 DEF Left, AtWork
  <2>. QED BY <2>1, <2>2, <2>3, TraceUntouched DEF TraceInv, Extended
<1>. QED BY <1>1, <1>2, <1>3, <1>4, <1>5, <1>6, <1>7 DEF Work

Traceable == OneInv /\ \A e \in File : TraceInv(e)

LEMMA TraceStep ==
  ASSUME Traceable, [Next]_vars
  PROVE  \A e \in File : TraceInv(e)'
<1>. USE DEF Traceable
<1>1. Extended /\ \A e \in File : TextInv(e)'
  BY OneStep, TextStep DEF OneInv, TraceInv
<1>. SUFFICES ASSUME NEW f \in File PROVE Traced(f)'
  BY <1>1 DEF TraceInv
<1>2. ASSUME NEW e \in File, Work(e)
      PROVE  Traced(f)'
  <2>1. CASE f = e
    BY <1>1, <1>2, <2>1, TraceWork
  <2>2. CASE f # e
    <3>1. /\ UNCHANGED content /\ pc'[f] = pc[f] /\ pos'[f] = pos[f] /\ kept'[f] = kept[f]
          /\ text'[f] = text[f] /\ ips'[f] = ips[f]
      BY <1>2, <2>2, WorkFrame DEF OneInv
    <3>2. Taken(f)' = Taken(f) /\ \A i : Left(f, i)' = Left(f, i)
      BY <3>1 DEF Taken, Left
    <3>. QED BY <1>1, <3>1, <3>2, TraceUntouched DEF OneInv, TraceInv
  <2>. QED BY <2>1, <2>2
<1>3. ASSUME \A e \in File : ~Work(e)
      PROVE  Traced(f)'
  <2>1. UNCHANGED <<content, pc, kept, text, ips>> /\ (Working(f) => pos'[f] = pos[f])
    BY <1>3, SystemFrame DEF OneInv
  <2>2. pc[f] \in AtWork => pos'[f] = pos[f]
    BY <2>1 DEF AtWork, Working
  <2>3. Taken(f)' = Taken(f) /\ \A i : Left(f, i)' = Left(f, i)
    BY <2>1, <2>2 DEF Taken, Left, AtWork
  <2>. QED BY <1>1, <2>1, <2>2, <2>3, TraceUntouched DEF OneInv, TraceInv
<1>. QED BY <1>2, <1>3

LEMMA TraceAlways ==
  ASSUME Workers = 1
  PROVE  Spec => []Traceable
<1>1. Init => \A e \in File : Traced(e)
  <2>1. ASSUME Init, NEW e \in File
        PROVE  Traced(e)
    <3>1. Taken(e) = {} /\ pc[e] \notin AtWork
      BY <2>1 DEF Init, Taken, AtWork
    <3>. QED BY <3>1 DEF Traced
  <2>. QED BY <2>1
<1>2. (\A e \in File : Traced(e)) /\ TextKept /\ OneInv => Traceable
  BY DEF Traceable, TraceInv, TextKept
<1>3. Traceable /\ [Next]_vars /\ OneInv' => Traceable'
  BY TraceStep DEF Traceable
<1>. QED BY <1>1, <1>2, <1>3, TextAlways, OneAlways, PTL DEF Spec

\* With one thread the database tells of every address written which one was on
\* the host.
THEOREM TracedBack ==
  ASSUME Workers = 1
  PROVE  Spec => []Reversible
<1>1. ASSUME Traceable, NEW e \in provided, NEW i \in kept[e], Plain(e, i),
             NEW j \in DOMAIN content[e][i].ips
      PROVE  LET old == content[e][i].ips[j]  new == text[e][i][j] IN
               IF old = 0 THEN new = 0 ELSE new \in DOMAIN db /\ db[new] = old
  <2>1. e \in File /\ TypeInv /\ Traced(e) /\ Place(e)
    BY <1>1 DEF Traceable, OneInv, TraceInv, TypeInv, TypeOK
  <2>2. i \in Taken(e)
    BY DEF Taken
  <2>3. kept[e] \subseteq Nat /\ pos[e] \in Nat
    BY <2>1 DEF TypeInv, TypeOK
  <2>4. Left(e, i) = {}
    BY <2>1, <2>3 DEF Place, Working, Left, AtWork
  <2>. QED BY <1>1, <2>1, <2>2, <2>4 DEF Traced
<1>2. Traceable => Reversible
  BY <1>1 DEF Reversible, Plain
<1>. QED BY TraceAlways, <1>2, PTL

\* With one thread a replacement that was given out stands for the same address
\* for the rest of the collection: what was written with it can be traced back at
\* any later time.
THEOREM ReplacementsStand ==
  ASSUME Workers = 1
  PROVE  Spec => [][Extended]_vars
<1>1. OneInv /\ [Next]_vars => [Extended]_vars
  BY OneStep
<1>. QED BY OneAlways, <1>1, PTL DEF Spec

-----------------------------------------------------------------------------
(* Termination, with any number of threads.                                *)

\* The addresses of a line are finitely many, and the one at hand is one of them.
PickInv(e) ==
  /\ IsFiniteSet(ips[e])
  /\ pc[e] \in {"allocate", "insert"} => ip[e] \in ips[e]

\* Where a file is: to be loaded, worked on or finished, and where in its line.
Turn(e) == IF pc[e] = "new" THEN 2 ELSE IF Working(e) THEN 1 ELSE 0
Part(e) == IF pc[e] = "obfuscate" THEN 2 ELSE IF pc[e] = "allocate" THEN 1 ELSE 0

\* A file gets nearer to its end: its turn, the line it is about, the addresses that
\* are left in the line and the part of their replacement, lexicographically.
Nearer(e) ==
  \/ Turn(e)' < Turn(e)
  \/ Turn(e)' = Turn(e) /\ pos'[e] < pos[e]
  \/ /\ Turn(e)' = Turn(e) /\ pos'[e] = pos[e]
     /\ \/ pc[e] = "line" /\ pc'[e] # "line"
        \/ /\ pc[e] # "line" /\ pc'[e] # "line"
           /\ \/ ips'[e] \subseteq ips[e] /\ ips'[e] # ips[e]
              \/ ips'[e] = ips[e] /\ Part(e)' < Part(e)

LEMMA AddressesFinite ==
  ASSUME TypeOK, NEW e \in File, pos[e] \in DOMAIN content[e]
  PROVE  IsFiniteSet(Addresses(Current(e)))
<1>. DEFINE as == Current(e).ips
<1>1. as \in Seq(Nat)
  BY Lines DEF Current
<1>2. Len(as) \in Nat /\ DOMAIN as = 1 .. Len(as)
  BY <1>1
<1>3. IsFiniteSet(DOMAIN as)
  BY <1>2, FS_Interval
<1>4. as \in Surjection(DOMAIN as, Addresses(Current(e)))
  BY <1>1 DEF Surjection, Addresses
<1>. QED BY <1>3, <1>4, FS_Surjection

LEMMA ReplaceTakes ==
  ASSUME TypeOK, NEW e \in File, NEW old, NEW new, Replace(e, old, new)
  PROVE  ips'[e] = ips[e] \ {old}
BY DEF Replace, TypeOK

LEMMA PickWork ==
  ASSUME TypeInv, NEW e \in File, PickInv(e), Work(e)
  PROVE  PickInv(e)' /\ Nearer(e)
<1>. USE DEF TypeInv, TypeOK, Goto
<1>1. CASE Load(e)
  <2>1. pc[e] = "new" /\ pc'[e] \in {"line", "failed"} /\ UNCHANGED ips
    BY <1>1 DEF Load
  <2>. QED BY <2>1 DEF PickInv, Nearer, Turn, Working
<1>2. CASE Discard(e)
  <2>1. pc[e] = "line" /\ pc' = pc /\ UNCHANGED ips /\ pos'[e] = pos[e] - 1 /\ pos[e] \in Nat
    BY <1>2 DEF Discard, obfuscation
  <2>. QED BY <2>1 DEF PickInv, Nearer, Turn, Working
<1>3. CASE Keep(e)
  <2>1. /\ pc[e] = "line" /\ pc'[e] = "obfuscate" /\ pos' = pos /\ pos[e] > 0
        /\ ips'[e] = Addresses(Current(e)) \ {0}
    BY <1>3 DEF Keep
  <2>2. pos[e] \in DOMAIN content[e]
    BY <2>1, Lines
  <2>3. IsFiniteSet(ips'[e])
    BY <2>1, <2>2, AddressesFinite, FS_Subset
  <2>. QED BY <2>1, <2>3 DEF PickInv, Nearer, Turn, Working
<1>4. CASE Find(e)
  <2>1. PICK old \in ips[e], new \in DOMAIN db : Replace(e, old, new)
    BY <1>4 DEF Find
  <2>2. pc[e] = "obfuscate" /\ pc' = pc /\ pos' = pos /\ ips'[e] = ips[e] \ {old}
    BY <1>4, <2>1, ReplaceTakes DEF Find
  <2>3. IsFiniteSet(ips'[e])
    BY <2>2, FS_Subset DEF PickInv
  <2>. QED BY <2>2, <2>3 DEF PickInv, Nearer, Turn, Working
<1>5. CASE NotFound(e)
  <2>1. /\ pc[e] = "obfuscate" /\ pc'[e] = "allocate" /\ pos' = pos /\ ips' = ips
        /\ ip'[e] \in ips[e]
    BY <1>5 DEF NotFound
  <2>. QED BY <2>1 DEF PickInv, Nearer, Turn, Part, Working
<1>6. CASE Allocate(e)
  <2>1. /\ pc[e] = "allocate" /\ pc'[e] = "insert" /\ UNCHANGED <<pos, ips, ip>>
    BY <1>6 DEF Allocate
  <2>. QED BY <2>1 DEF PickInv, Nearer, Turn, Part, Working
<1>7. CASE Insert(e)
  <2>1. /\ pc[e] = "insert" /\ pc'[e] = "obfuscate" /\ pos' = pos /\ ip[e] \in ips[e]
        /\ ips'[e] = ips[e] \ {ip[e]}
    BY <1>7, ReplaceTakes DEF Insert, PickInv
  <2>2. IsFiniteSet(ips'[e])
    BY <2>1, FS_Subset DEF PickInv
  <2>. QED BY <2>1, <2>2 DEF PickInv, Nearer, Turn, Working
<1>8. CASE LineDone(e)
  <2>1. /\ pc[e] = "obfuscate" /\ pc'[e] = "line" /\ UNCHANGED ips /\ pos'[e] = pos[e] - 1
        /\ pos[e] \in Nat
    BY <1>8 DEF LineDone, obfuscation
  <2>. QED BY <2>1 DEF PickInv, Nearer, Turn, Working
<1>9. CASE Write(e)
  <2>1. pc[e] = "line" /\ pc'[e] \in {"written", "failed"} /\ UNCHANGED ips
    BY <1>9 DEF Write, obfuscation
  <2>. QED BY <2>1 DEF PickInv, Nearer, Turn, Working
<1>. QED BY <1>1, <1>2, <1>3, <1>4, <1>5, <1>6, <1>7, <1>8, <1>9 DEF Work

\* The work of a collection ends, whatever the other threads put into the
\* database meanwhile: until the metadata is written every step brings one file
\* nearer to its end and leaves the others where they are.
THEOREM CollectionShortens ==
  Spec => /\ [](\A e \in File : IsFiniteSet(ips[e]))
          /\ [][spec = "made" =>
                  \/ spec' # "made"
                  \/ \E e \in File :
                       /\ Nearer(e)
                       /\ \A f \in File \ {e} :
                            pc'[f] = pc[f] /\ pos'[f] = pos[f] /\ ips'[f] = ips[f]]_vars
<1>. DEFINE Picked == TypeInv /\ \A e \in File : PickInv(e)
            Shortens == spec = "made" =>
                          \/ spec' # "made"
                          \/ \E e \in File :
                               /\ Nearer(e)
                               /\ \A f \in File \ {e} :
                                    pc'[f] = pc[f] /\ pos'[f] = pos[f] /\ ips'[f] = ips[f]
<1>1. Init => Picked
  <2>1. Init => \A e \in File : PickInv(e)
    BY FS_EmptySet DEF Init, PickInv
  <2>. QED BY <2>1, TypesInitially
<1>2. ASSUME Picked, [Next]_vars PROVE Picked' /\ [Shortens]_vars
  <2>1. ASSUME NEW e \in File, Work(e)
        PROVE  (\A f \in File : PickInv(f)') /\ Shortens
    <3>1. \A f \in File \ {e} : pc'[f] = pc[f] /\ pos'[f] = pos[f] /\ ips'[f] = ips[f] /\ ip'[f] = ip[f]
      BY <1>2, <2>1, WorkFrame
    <3>2. PickInv(e)' /\ Nearer(e)
      BY <1>2, <2>1, PickWork
    <3>3. \A f \in File \ {e} : PickInv(f)'
      BY <1>2, <3>1 DEF PickInv
    <3>. QED BY <3>1, <3>2, <3>3
  <2>2. ASSUME \A e \in File : ~Work(e)
        PROVE  (\A f \in File : PickInv(f)') /\ [Shortens]_vars
    <3>1. \A f \in File : PickInv(f)'
      BY <1>2, <2>2, SystemFrame DEF PickInv
    <3>2. ASSUME spec = "made", vars' # vars PROVE spec' # "made"
      BY <1>2, <2>2, <3>2 DEF Next, Register, MakeProviders, Dehydrate, Hydrate, FilterLine
    <3>. QED BY <3>1, <3>2
  <2>3. TypeInv'
    BY <1>2, TypeStep
  <2>. QED BY <2>1, <2>2, <2>3
<1>3. Picked => \A e \in File : IsFiniteSet(ips[e])
  BY DEF PickInv
<1>. QED BY <1>1, <1>2, <1>3, PTL DEF Spec

=============================================================================
