------------------------- MODULE NodeConfigProofs -------------------------
(***************************************************************************)
(* Proofs about NodeConfig, for any firmware of the node, any values and   *)
(* any number of events: what is shown, what is saved, and the types.      *)
(*                                                                         *)
(* The handlers are operators on the record gcs, and so are the            *)
(* invariants: there is a lemma for each handler, and the actions follow   *)
(* from them.  The record has many fields; that it keeps its type when     *)
(* some of them change takes the provers longer than they are given by     *)
(* default, hence ZenonT.                                                  *)
(***************************************************************************)
EXTENDS NodeConfig, SequenceTheorems, TLAPS

Names == {"files", "dictHash", "tables", "scriptField", "scriptValue", "values",
          "reqConf", "skipCache", "created", "requests", "sent", "db", "ident",
          "valid", "dict", "shown", "configID", "suspect", "overtaken", "source",
          "shownOf", "unsaved", "doubtful", "spoilt"}

\* The dictionary that is shown is that of the ident; so are the lists of
\* fields, unless they are empty.
DictInv(g) ==
    /\ g.ident = g.dictHash
    /\ g.dict # None => /\ g.dict = g.ident
                        /\ g.tables \in {None, g.dict}
                        /\ DOMAIN g.shown = Fields(g.dict)
    /\ g.valid => g.dict # None
    /\ g.scriptField => g.tables \in Scripted

\* A configuration that waits for its script was read with the dictionary that
\* is shown.  (Without one, it may be that of an earlier firmware.)
ValuesInv(g, n) ==
    g.dict # None /\ "p" \in DOMAIN g.values =>
      /\ g.values["p"] \in Vals
      /\ g.source = g.dict
      /\ "p" \notin g.overtaken => g.ident = n.hash /\ g.values["p"] = n.p

\* p as it is shown.  If it is not suspect, the firmware is the one shown.
ShownInv(g, n) ==
    g.valid => /\ \/ g.shownOf = g.dict /\ g.shown["p"] \in Vals
                  \/ g.shownOf = None /\ "p" \in g.suspect
               /\ "p" \notin g.suspect => g.ident = n.hash /\ g.shown["p"] = n.p

\* The script as it is shown
ScriptInv(g, n) ==
    g.valid /\ "s" \in DOMAIN g.shown \ g.suspect => g.shown["s"] = n.file

\* The GCS in state g fits the node in state n.
Fit(g, n) ==
    /\ DOMAIN g = Names
    /\ DictInv(g)
    /\ ValuesInv(g, n)
    /\ ShownInv(g, n)
    /\ ScriptInv(g, n)

NodeType == node \in [hash : Dicts, p : Vals, field : Vals, file : Vals]

IInv == NodeType /\ Fit(gcs, node)

\* What is not part of the invariant may change.
Same(g, r) ==
    /\ DOMAIN r = DOMAIN g
    /\ r.dictHash = g.dictHash /\ r.tables = g.tables
    /\ r.scriptField = g.scriptField /\ r.values = g.values
    /\ r.ident = g.ident /\ r.valid = g.valid /\ r.dict = g.dict
    /\ r.shown = g.shown /\ r.suspect = g.suspect
    /\ r.overtaken = g.overtaken /\ r.source = g.source /\ r.shownOf = g.shownOf

LEMMA SameFits ==
  ASSUME NEW g, NEW r, NEW n, Fit(g, n), Same(g, r)
  PROVE  Fit(r, n)
  BY DEF Fit, Same, DictInv, ValuesInv, ShownInv, ScriptInv

LEMMA SameTwice ==
  ASSUME NEW g, NEW h, NEW r, Same(g, h), Same(h, r)
  PROVE  Same(g, r)
  BY DEF Same

-----------------------------------------------------------------------------
(* Handlers that change nothing of the invariant *)

LEMMA CreateSame ==
  ASSUME NEW g, DOMAIN g = Names, NEW r  PROVE Same(g, Create(g, r))
  BY DEF Names, Create, Same

LEMMA ExecSame ==
  ASSUME NEW g, DOMAIN g = Names, NEW job  PROVE Same(g, Exec(g, job))
  BY DEF Names, Exec, Same

LEMMA DeleteSame ==
  ASSUME NEW g, DOMAIN g = Names, NEW r  PROVE Same(g, Delete(g, r))
  BY DEF Names, Delete, Same

LEMMA RequestConfSame ==
  ASSUME NEW g, DOMAIN g = Names  PROVE Same(g, RequestConf(g))
<1> DEFINE twice == "conf" \in Range(g.created) \cup Range(g.requests)
           h == [g EXCEPT !.reqConf = TRUE,
                          !.spoilt = @ \/ (twice /\ g.tables \in Scripted)]
<1> HIDE DEF twice
<1>1. Same(g, h)
  BY DEF Names, Same
<1>2. DOMAIN h = Names
  OBVIOUS
<1>3. RequestConf(g) = Create(h, "conf")
  BY DEF RequestConf, twice
<1> HIDE DEF h
<1>4. QED
  BY <1>1, <1>2, <1>3, CreateSame, SameTwice

LEMMA SaveSame ==
  ASSUME NEW g, DOMAIN g = Names  PROVE Same(g, SaveNodeConfig(g))
<1>1. CASE g.dict = None
  BY <1>1 DEF SaveNodeConfig, Names, Same
<1>2. CASE g.dict # None
  <2> DEFINE config == [hash |-> g.dict, values |-> g.shown]
             h == [g EXCEPT !.configID = None, !.unsaved = FALSE,
                   !.doubtful = IF g.valid /\ g.suspect = {} THEN @
                                ELSE @ \cup {config}]
  <2> HIDE DEF config
  <2>1. Same(g, h) /\ DOMAIN h = Names
    BY DEF Names, Same
  <2>2. SaveNodeConfig(g) = Exec(h, [op |-> "saveConf", config |-> config])
    BY <1>2 DEF SaveNodeConfig, SaveShown, config
  <2> HIDE DEF h
  <2>3. QED
    BY <2>1, <2>2, ExecSame, SameTwice
<1>3. QED
  BY <1>1, <1>2

LEMMA UpdateFilesSame ==
  ASSUME NEW g, DOMAIN g = Names, NEW fs  PROVE Same(g, UpdateFiles(g, fs))
<1>1. PICK h : h = Delete(Delete(Delete(g, "dict"), "conf"), "script")
  OBVIOUS
<1>2. Same(g, h) /\ DOMAIN h = Names
  BY <1>1, DeleteSame, SameTwice DEF Same
<1>3. Same(h, [h EXCEPT !.files = fs])
  BY <1>2 DEF Names, Same
<1>4. Same(g, g)
  BY DEF Same
<1>5. UpdateFiles(g, fs) = g \/ UpdateFiles(g, fs) = [h EXCEPT !.files = fs]
  BY <1>1 DEF UpdateFiles
<1>6. QED
  BY <1>2, <1>3, <1>4, <1>5, SameTwice

-----------------------------------------------------------------------------
(* Dictionaries and idents *)

\* A dictionary that has the hash of the ident comes.
LEMMA DictFits ==
  ASSUME NEW g, NEW n, Fit(g, n)
  PROVE  Fit(DictReceived(SetTables(g, g.dictHash), g.dictHash), n)
<1>1. PICK h, t : h = g.dictHash /\ t = SetTables(g, h)
  OBVIOUS
<1>2. /\ DOMAIN t = Names /\ t.tables = h /\ t.values = Nothing /\ t.scriptField = FALSE
      /\ t.dictHash = g.dictHash /\ t.ident = g.ident /\ t.valid = g.valid
      /\ t.dict = g.dict /\ t.shown = g.shown /\ t.suspect = g.suspect
      /\ t.overtaken = g.overtaken /\ t.source = g.source /\ t.shownOf = g.shownOf
  BY <1>1 DEF Fit, SetTables, Names
<1>3. DOMAIN t.values = {}
  BY <1>2 DEF Nothing
<1>4. CASE t.valid
  <2>1. Fit(t, n)
    BY <1>1, <1>2, <1>3 DEF Fit, DictInv, ValuesInv, ShownInv, ScriptInv
  <2>2. QED
    BY <1>1, <1>4, <2>1 DEF DictReceived
<1>5. CASE ~t.valid
  <2>1. PICK c : c = [Clear(t) EXCEPT !.dict = h, !.shown = [f \in Fields(h) |-> None]]
    OBVIOUS
  <2>2. /\ DOMAIN c = Names /\ c.dict = h /\ c.valid = FALSE
        /\ c.shown = [f \in Fields(h) |-> None] /\ c.tables = h
        /\ c.values = Nothing /\ c.scriptField = FALSE
        /\ c.dictHash = g.dictHash /\ c.ident = g.ident
    BY <1>2, <2>1 DEF Clear, Names
  <2>3. DOMAIN c.values = {} /\ DOMAIN c.shown = Fields(h)
    BY <1>3, <1>2, <2>2
  <2>4. Fit(c, n)
    BY <1>1, <2>2, <2>3 DEF Fit, DictInv, ValuesInv, ShownInv, ScriptInv
  <2>5. PICK e : e = Exec(c, [op |-> "saveDict", hash |-> h])
    OBVIOUS
  <2>6. Same(c, e) /\ Same(e, RequestConf(e))
    BY <2>2, <2>5, ExecSame, RequestConfSame DEF Same
  <2>7. DictReceived(t, h) = RequestConf(e)
    BY <1>5, <2>1, <2>5 DEF DictReceived
  <2>8. QED
    BY <1>1, <2>4, <2>6, <2>7, SameFits
<1>6. QED
  BY <1>4, <1>5

\* The lists of fields are emptied.
LEMMA NoDictFits ==
  ASSUME NEW g, NEW n, Fit(g, n)
  PROVE  Fit([SetTables(g, None) EXCEPT !.spoilt = TRUE], n)
<1>1. PICK t : t = [SetTables(g, None) EXCEPT !.spoilt = TRUE]
  OBVIOUS
<1>2. /\ DOMAIN t = Names /\ t.tables = None /\ t.values = Nothing /\ t.scriptField = FALSE
      /\ t.dictHash = g.dictHash /\ t.ident = g.ident /\ t.valid = g.valid
      /\ t.dict = g.dict /\ t.shown = g.shown /\ t.suspect = g.suspect
      /\ t.overtaken = g.overtaken /\ t.source = g.source /\ t.shownOf = g.shownOf
  BY <1>1 DEF Fit, SetTables, Names
<1>3. DOMAIN t.values = {}
  BY <1>2 DEF Nothing
<1>4. QED
  BY <1>1, <1>2, <1>3 DEF Fit, DictInv, ValuesInv, ShownInv, ScriptInv

\* An ident comes, perhaps of other firmware.
LEMMA IdentFits ==
  ASSUME NEW g, NEW n, Fit(g, n), NEW h, NEW same
  PROVE  Fit(IdentReceived(g, h, same), n)
<1>1. PICK k : k = [g EXCEPT !.dictHash = h]
  OBVIOUS
<1>2. /\ DOMAIN k = Names /\ k.dictHash = h /\ k.tables = g.tables
      /\ k.scriptField = g.scriptField /\ k.values = g.values
      /\ k.ident = g.ident /\ k.valid = g.valid /\ k.dict = g.dict
      /\ k.shown = g.shown /\ k.suspect = g.suspect
      /\ k.overtaken = g.overtaken /\ k.source = g.source /\ k.shownOf = g.shownOf
  BY <1>1 DEF Fit, Names
<1>3. CASE k.ident = h /\ k.valid /\ same
  <2>1. Fit(k, n)
    BY <1>2, <1>3 DEF Fit, DictInv, ValuesInv, ShownInv, ScriptInv
  <2>2. QED
    BY <1>1, <1>3, <2>1 DEF IdentReceived
<1>4. CASE ~(k.ident = h /\ k.valid /\ same)
  <2>1. PICK c : c = Clear([k EXCEPT !.ident = h, !.spoilt = FALSE])
    OBVIOUS
  <2>2. /\ DOMAIN c = Names /\ c.ident = h /\ c.dictHash = h /\ c.dict = None
        /\ c.valid = FALSE /\ c.tables = g.tables /\ c.scriptField = g.scriptField
    BY <1>2, <2>1 DEF Clear, Names
  <2>3. Fit(c, n)
    BY <2>2 DEF Fit, DictInv, ValuesInv, ShownInv, ScriptInv
  <2>4. Same(c, RequestDict(c))
    <3>1. CASE c.skipCache
      <4>1. PICK d : d = [c EXCEPT !.skipCache = FALSE]
        OBVIOUS
      <4>2. Same(c, d) /\ DOMAIN d = Names
        BY <2>2, <4>1 DEF Names, Same
      <4>3. RequestDict(c) = Create(d, "dict")
        BY <3>1, <4>1 DEF RequestDict
      <4>4. QED
        BY <4>2, <4>3, CreateSame, SameTwice
    <3>2. CASE ~c.skipCache
      BY <2>2, <3>2, ExecSame DEF RequestDict
    <3>3. QED
      BY <3>1, <3>2
  <2>5. IdentReceived(g, h, same) = RequestDict(c)
    BY <1>1, <1>4, <2>1 DEF IdentReceived
  <2>6. QED
    BY <2>3, <2>4, <2>5, SameFits
<1>5. QED
  BY <1>3, <1>4

-----------------------------------------------------------------------------
(* Configurations and scripts *)

\* Values that may be shown: those of p and of the script
ValueFits(g, n, vs) ==
    "p" \in DOMAIN vs =>
      /\ vs["p"] \in Vals
      /\ g.source = g.dict
      /\ "p" \notin g.overtaken => g.ident = n.hash /\ vs["p"] = n.p

FileFits(g, n, vs) ==
    "s" \in DOMAIN vs \cap DOMAIN g.shown /\ "s" \notin g.overtaken => vs["s"] = n.file

\* What confReceived leaves, and what it makes of p
LEMMA ConfFits ==
  ASSUME NEW g, NEW n, NEW vs, DOMAIN g = Names, DictInv(g), ShownInv(g, n),
         g.dict # None => ValueFits(g, n, vs),
         NEW r, r = ConfReceived(g, vs)
  PROVE  /\ DOMAIN r = Names /\ DictInv(r) /\ ShownInv(r, n)
         /\ r.dict = g.dict /\ r.ident = g.ident /\ r.values = g.values
         /\ r.source = g.source /\ r.overtaken = g.overtaken
         /\ ScriptInv(g, n) /\ FileFits(g, n, vs) => ScriptInv(r, n)
<1> DEFINE fresh == DOMAIN vs \cap DOMAIN g.shown
           k == [g EXCEPT
                  !.shown = [f \in DOMAIN @ |-> IF f \in fresh THEN vs[f] ELSE @[f]],
                  !.suspect = (@ \ fresh) \cup (g.overtaken \cap fresh),
                  !.shownOf = IF "p" \in fresh THEN g.source ELSE @]
<1>1. CASE g.dict = None
  <2>1. r = g
    BY <1>1 DEF ConfReceived
  <2>2. ~g.valid
    BY <1>1 DEF DictInv
  <2>3. QED
    BY <2>1, <2>2 DEF ScriptInv
<1>2. CASE g.dict # None
  <2>1. /\ DOMAIN k = Names
        /\ k.shown = [f \in DOMAIN g.shown |-> IF f \in fresh THEN vs[f] ELSE g.shown[f]]
        /\ k.suspect = (g.suspect \ fresh) \cup (g.overtaken \cap fresh)
        /\ k.shownOf = IF "p" \in fresh THEN g.source ELSE g.shownOf
        /\ k.dictHash = g.dictHash /\ k.tables = g.tables
        /\ k.scriptField = g.scriptField /\ k.values = g.values
        /\ k.ident = g.ident /\ k.valid = g.valid /\ k.dict = g.dict
        /\ k.overtaken = g.overtaken /\ k.source = g.source
    BY DEF Names
  <2>2. /\ g.dict = g.ident /\ g.tables \in {None, g.dict} /\ DOMAIN g.shown = Fields(g.dict)
        /\ ValueFits(g, n, vs) /\ "p" \in DOMAIN g.shown
    BY <1>2 DEF DictInv, Fields
  <2>3. \/ r = [k EXCEPT !.unsaved = @ \/ k.shown # g.shown] /\ g.valid
        \/ r = Validate(g, k) /\ fresh = DOMAIN g.shown
        \/ r = k /\ ~g.valid
    BY <1>2 DEF ConfReceived
  <2> HIDE DEF k
  <2>4. DOMAIN k.shown = DOMAIN g.shown
    BY <2>1
  <2>5. DictInv(k)
    BY <2>1, <2>2, <2>4 DEF DictInv
  \* p is right if it is new, or was right before.
  <2>6. ASSUME g.valid \/ fresh = DOMAIN g.shown
        PROVE  /\ \/ k.shownOf = k.dict /\ k.shown["p"] \in Vals
                  \/ k.shownOf = None /\ "p" \in k.suspect
               /\ "p" \notin k.suspect => k.ident = n.hash /\ k.shown["p"] = n.p
    <3>1. CASE "p" \in fresh
      BY <2>1, <2>2, <3>1 DEF ValueFits
    <3>2. CASE "p" \notin fresh
      BY <2>1, <2>2, <2>6, <3>2 DEF ShownInv
    <3>3. QED
      BY <3>1, <3>2
  <2>7. ASSUME g.valid \/ fresh = DOMAIN g.shown, ScriptInv(g, n), FileFits(g, n, vs),
               "s" \in DOMAIN k.shown \ k.suspect
        PROVE  k.shown["s"] = n.file
    <3>1. CASE "s" \in fresh
      BY <2>1, <2>2, <2>7, <3>1 DEF FileFits
    <3>2. CASE "s" \notin fresh
      BY <2>1, <2>2, <2>7, <3>2 DEF ScriptInv
    <3>3. QED
      BY <3>1, <3>2
  <2>8. CASE r = [k EXCEPT !.unsaved = @ \/ k.shown # g.shown] /\ g.valid
    <3>1. Same(k, r)
      BY <2>1, <2>8, ZenonT(60) DEF Names, Same
    <3>2. DictInv(r) /\ ShownInv(r, n)
      BY <2>5, <2>6, <2>8, <3>1 DEF Same, DictInv, ShownInv
    <3>3. ScriptInv(g, n) /\ FileFits(g, n, vs) => ScriptInv(r, n)
      BY <2>7, <2>8, <3>1 DEF Same, ScriptInv
    <3>4. QED
      BY <2>1, <3>1, <3>2, <3>3 DEF Same
  <2>9. CASE r = Validate(g, k) /\ fresh = DOMAIN g.shown
    <3>1. PICK h : h = [k EXCEPT !.valid = TRUE]
      OBVIOUS
    <3>2. /\ DOMAIN h = Names /\ h.valid = TRUE
          /\ h.shown = k.shown /\ h.suspect = k.suspect /\ h.shownOf = k.shownOf
          /\ h.dictHash = k.dictHash /\ h.tables = k.tables
          /\ h.scriptField = k.scriptField /\ h.values = k.values
          /\ h.ident = k.ident /\ h.dict = k.dict
          /\ h.overtaken = k.overtaken /\ h.source = k.source
      BY <2>1, <3>1 DEF Names
    <3>3. Same(h, r)
      BY <2>9, <3>1, <3>2, SaveSame DEF Validate
    <3>4. DictInv(h) /\ ShownInv(h, n)
      BY <1>2, <2>1, <2>5, <2>6, <2>9, <3>2 DEF DictInv, ShownInv
    <3>5. ScriptInv(g, n) /\ FileFits(g, n, vs) => ScriptInv(h, n)
      BY <2>7, <2>9, <3>2 DEF ScriptInv
    <3>6. DictInv(r) /\ ShownInv(r, n) /\ (ScriptInv(h, n) => ScriptInv(r, n))
      BY <3>3, <3>4 DEF Same, DictInv, ShownInv, ScriptInv
    <3>7. QED
      BY <2>1, <3>2, <3>3, <3>5, <3>6 DEF Same
  <2>10. CASE r = k /\ ~g.valid
    <3>1. ~r.valid
      BY <2>1, <2>10
    <3>2. QED
      BY <2>1, <2>5, <2>10, <3>1 DEF ShownInv, ScriptInv
  <2>11. QED
    BY <2>3, <2>8, <2>9, <2>10
<1>3. QED
  BY <1>1, <1>2

\* The configuration cannot be read.
LEMMA ErrorFits ==
  ASSUME NEW g, NEW n, Fit(g, n)
  PROVE  Fit(ConfError(g), n)
<1>1. PICK r : r = ConfError(g)
  OBVIOUS
<1>2. /\ DOMAIN r = Names /\ r.values = Nothing
      /\ r.dictHash = g.dictHash /\ r.tables = g.tables /\ r.scriptField = g.scriptField
      /\ r.ident = g.ident /\ r.valid = g.valid /\ r.dict = g.dict
      /\ r.shown = g.shown /\ r.suspect = g.suspect /\ r.shownOf = g.shownOf
  BY <1>1 DEF Fit, ConfError, Names
<1>3. DOMAIN r.values = {}
  BY <1>2 DEF Nothing
<1>4. QED
  BY <1>1, <1>2, <1>3 DEF Fit, DictInv, ValuesInv, ShownInv, ScriptInv

\* ConfParsed in its parts: the configuration is read, and its values are taken.
ParsedState(g, s) ==
    [g EXCEPT !.values = Nothing, !.source = node.hash,
              !.overtaken = {},
              !.scriptField = @ \/ g.tables \in Scripted,
              !.scriptValue = IF g.tables \in Scripted THEN s ELSE @]

ParsedValues(g, v) == [f \in Fields(g.tables) |-> IF f = "p" THEN v ELSE None]

\* If a dictionary is shown, it is the node's, and so is p.
LEMMA ParsedFacts ==
  ASSUME NEW g, Fit(g, node), NEW v, NEW s, g.tables # None, node.hash = g.dictHash,
         g.dict # None => v = node.p /\ v \in Vals,
         NEW k, k = ParsedState(g, s), NEW vs, vs = ParsedValues(g, v)
  PROVE  /\ DOMAIN k = Names /\ k.values = Nothing /\ k.source = node.hash
         /\ k.overtaken = {} /\ DictInv(k) /\ ShownInv(k, node) /\ ScriptInv(k, node)
         /\ g.dict # None => ValueFits(k, node, vs)
         /\ ~k.scriptField => FileFits(k, node, vs)
         /\ k.dict = g.dict
         /\ \/ ~k.scriptField /\ ConfParsed(g, v, s) = ConfReceived(k, vs)
            \/ ConfParsed(g, v, s) = Create([k EXCEPT !.values = vs], "script")
            \/ ConfParsed(g, v, s) = [k EXCEPT !.values = vs]
<1>1. /\ DOMAIN k = Names /\ k.values = Nothing /\ k.source = node.hash
      /\ k.overtaken = {} /\ k.dictHash = g.dictHash /\ k.tables = g.tables
      /\ k.ident = g.ident /\ k.valid = g.valid /\ k.dict = g.dict
      /\ k.shown = g.shown /\ k.suspect = g.suspect /\ k.shownOf = g.shownOf
  BY DEF Fit, Names, ParsedState
<1>2. k.scriptField <=> g.scriptField \/ g.tables \in Scripted
  BY DEF Fit, Names, ParsedState
<1>3. DOMAIN vs = Fields(g.tables) /\ ("p" \in DOMAIN vs => vs["p"] = v)
  BY DEF ParsedValues
<1>4. \/ ~k.scriptField /\ ConfParsed(g, v, s) = ConfReceived(k, vs)
      \/ ConfParsed(g, v, s) = Create([k EXCEPT !.values = vs], "script")
      \/ ConfParsed(g, v, s) = [k EXCEPT !.values = vs]
  BY DEF ConfParsed, ParsedState, ParsedValues
<1>5. DictInv(k) /\ ShownInv(k, node) /\ ScriptInv(k, node)
  BY <1>1, <1>2 DEF Fit, DictInv, ShownInv, ScriptInv
<1>6. g.dict # None => ValueFits(k, node, vs)
  BY <1>1, <1>3 DEF Fit, DictInv, ValueFits
<1>7. ~k.scriptField => FileFits(k, node, vs)
  BY <1>2, <1>3 DEF Fields, FileFits
<1>8. QED
  BY <1>1, <1>4, <1>5, <1>6, <1>7

LEMMA ParsedFits ==
  ASSUME NEW g, Fit(g, node), NEW v, NEW s, g.tables # None, node.hash = g.dictHash,
         g.dict # None => v = node.p /\ v \in Vals
  PROVE  Fit(ConfParsed(g, v, s), node)
<1>1. PICK k : k = ParsedState(g, s)
  OBVIOUS
<1>2. PICK vs : vs = ParsedValues(g, v)
  OBVIOUS
<1>3. /\ DOMAIN k = Names /\ k.values = Nothing /\ k.source = node.hash
      /\ k.overtaken = {} /\ DictInv(k) /\ ShownInv(k, node) /\ ScriptInv(k, node)
      /\ k.dict # None => ValueFits(k, node, vs)
      /\ ~k.scriptField => FileFits(k, node, vs)
      /\ \/ ~k.scriptField /\ ConfParsed(g, v, s) = ConfReceived(k, vs)
         \/ ConfParsed(g, v, s) = Create([k EXCEPT !.values = vs], "script")
         \/ ConfParsed(g, v, s) = [k EXCEPT !.values = vs]
  BY <1>1, <1>2, ParsedFacts
<1>4. PICK q : q = [k EXCEPT !.values = vs]
  OBVIOUS
<1>5. /\ DOMAIN q = Names /\ q.values = vs /\ q.source = k.source
      /\ q.overtaken = k.overtaken /\ q.dictHash = k.dictHash /\ q.tables = k.tables
      /\ q.scriptField = k.scriptField
      /\ q.ident = k.ident /\ q.valid = k.valid /\ q.dict = k.dict
      /\ q.shown = k.shown /\ q.suspect = k.suspect /\ q.shownOf = k.shownOf
  BY <1>3, <1>4 DEF Names
<1>6. CASE ~k.scriptField /\ ConfParsed(g, v, s) = ConfReceived(k, vs)
  <2>1. PICK r : r = ConfReceived(k, vs)
    OBVIOUS
  <2>2. /\ DOMAIN r = Names /\ DictInv(r) /\ ShownInv(r, node) /\ ScriptInv(r, node)
        /\ r.values = Nothing
    BY <1>3, <1>6, <2>1, ConfFits
  <2>3. DOMAIN r.values = {}
    BY <2>2 DEF Nothing
  <2>4. QED
    BY <1>6, <2>1, <2>2, <2>3 DEF Fit, ValuesInv
<1>7. Fit(q, node)
  <2>1. DictInv(q) /\ ShownInv(q, node) /\ ScriptInv(q, node)
    BY <1>3, <1>5 DEF DictInv, ShownInv, ScriptInv
  <2>2. ValuesInv(q, node)
    BY <1>3, <1>5 DEF ValuesInv, ValueFits
  <2>3. QED
    BY <1>5, <2>1, <2>2 DEF Fit
<1>8. QED
  BY <1>3, <1>4, <1>5, <1>6, <1>7, CreateSame, SameFits

\* What parseConfData makes of a configuration
LEMMA ParseConfFits ==
  ASSUME NodeType, NEW g, Fit(g, node), NEW r, r \in ParseConf(g)
  PROVE  Fit(r, node)
<1>0. node.p \in Vals /\ node.hash # None
  BY ConstantsAssumption DEF NodeType
<1>1. CASE node.hash # g.dictHash \/ g.tables = None
  <2>1. ParseConf(g) = {ConfError(g)}
    BY <1>0, <1>1 DEF ParseConf
  <2>2. QED
    BY <2>1, ErrorFits
<1>2. CASE node.hash = g.dictHash /\ g.tables = node.hash
  <2>1. r = ConfParsed(g, node.p, node.field)
    BY <1>0, <1>2 DEF ParseConf
  <2>2. QED
    BY <1>0, <1>2, <2>1, ParsedFits
<1>3. CASE node.hash = g.dictHash /\ g.tables # None /\ g.tables # node.hash
  <2>1. g.dict = None
    BY <1>3 DEF Fit, DictInv
  <2>2. \/ r = ConfError(g)
        \/ r = ConfParsed(g, Junk, Junk)
        \/ /\ g.tables \in Scripted
           /\ r = [ConfError(g) EXCEPT !.scriptField = TRUE, !.scriptValue = Junk]
    BY <1>3 DEF ParseConf
  <2>3. CASE r = ConfError(g)
    BY <2>3, ErrorFits
  <2>4. CASE r = ConfParsed(g, Junk, Junk)
    BY <1>3, <2>1, <2>4, ParsedFits
  <2>5. CASE /\ g.tables \in Scripted
             /\ r = [ConfError(g) EXCEPT !.scriptField = TRUE, !.scriptValue = Junk]
    <3>1. PICK e : e = ConfError(g)
      OBVIOUS
    <3>2. Fit(e, node)
      BY <3>1, ErrorFits
    <3>3. e.tables = g.tables
      BY <3>1 DEF Fit, ConfError, Names
    <3>4. /\ DOMAIN r = Names /\ r.values = e.values /\ r.source = e.source
          /\ r.overtaken = e.overtaken /\ r.dictHash = e.dictHash /\ r.tables = e.tables
          /\ r.ident = e.ident /\ r.valid = e.valid /\ r.dict = e.dict
          /\ r.shown = e.shown /\ r.suspect = e.suspect /\ r.shownOf = e.shownOf
      BY <2>5, <3>1, <3>2 DEF Fit, Names
    <3>5. QED
      BY <2>5, <3>2, <3>3, <3>4 DEF Fit, DictInv, ValuesInv, ShownInv, ScriptInv
  <2>6. QED
    BY <2>2, <2>3, <2>4, <2>5
<1>4. QED
  BY <1>1, <1>2, <1>3

\* A script with the content v completes the values that are kept.
LEMMA ScriptFacts ==
  ASSUME NEW g, NEW n, ValuesInv(g, n), NEW v, NEW vs,
         vs = [f \in DOMAIN g.values \cup {"s"} |-> IF f = "s" THEN v ELSE g.values[f]]
  PROVE  /\ g.dict # None => ValueFits(g, n, vs)
         /\ v = n.file => FileFits(g, n, vs)
<1>1. /\ "s" \in DOMAIN vs /\ vs["s"] = v
      /\ "p" \in DOMAIN vs => "p" \in DOMAIN g.values /\ vs["p"] = g.values["p"]
  OBVIOUS
<1>2. g.dict # None => ValueFits(g, n, vs)
  BY <1>1 DEF ValuesInv, ValueFits
<1>3. v = n.file => FileFits(g, n, vs)
  BY <1>1 DEF FileFits
<1>4. QED
  BY <1>2, <1>3

LEMMA ScriptTaken ==
  ASSUME NEW g, NEW n, DOMAIN g = Names, DictInv(g), ValuesInv(g, n), ShownInv(g, n),
         NEW v, NEW r,
         r = [ConfReceived(g, [f \in DOMAIN g.values \cup {"s"} |->
                                 IF f = "s" THEN v ELSE g.values[f]])
                EXCEPT !.values = Nothing]
  PROVE  /\ DOMAIN r = Names /\ DictInv(r) /\ ValuesInv(r, n) /\ ShownInv(r, n)
         /\ ScriptInv(g, n) /\ v = n.file => ScriptInv(r, n)
<1>1. PICK vs : vs = [f \in DOMAIN g.values \cup {"s"} |->
                        IF f = "s" THEN v ELSE g.values[f]]
  OBVIOUS
<1>2. PICK c : c = ConfReceived(g, vs)
  OBVIOUS
<1>3. (g.dict # None => ValueFits(g, n, vs)) /\ (v = n.file => FileFits(g, n, vs))
  BY <1>1, ScriptFacts
<1>4. /\ DOMAIN c = Names /\ DictInv(c) /\ ShownInv(c, n)
      /\ ScriptInv(g, n) /\ v = n.file => ScriptInv(c, n)
  BY <1>2, <1>3, ConfFits
<1>5. /\ DOMAIN r = Names /\ r.values = Nothing
      /\ r.dictHash = c.dictHash /\ r.tables = c.tables /\ r.scriptField = c.scriptField
      /\ r.ident = c.ident /\ r.valid = c.valid /\ r.dict = c.dict
      /\ r.shown = c.shown /\ r.suspect = c.suspect /\ r.shownOf = c.shownOf
  BY <1>1, <1>2, <1>4 DEF Names
<1>6. DOMAIN r.values = {}
  BY <1>5 DEF Nothing
<1>7. QED
  BY <1>4, <1>5, <1>6 DEF DictInv, ValuesInv, ShownInv, ScriptInv

LEMMA ParseScriptFits ==
  ASSUME NEW g, Fit(g, node)
  PROVE  Fit(ParseScript(g), node)
<1>1. CASE node.file # g.scriptValue \/ ~g.scriptField
  <2>1. PICK r : r = [g EXCEPT !.spoilt = @ \/ g.scriptField]
    OBVIOUS
  <2>2. Same(g, r)
    BY <2>1 DEF Fit, Names, Same
  <2>3. QED
    BY <1>1, <2>1, <2>2, SameFits DEF ParseScript
<1>2. CASE ~(node.file # g.scriptValue \/ ~g.scriptField)
  <2>1. PICK a : a = [g EXCEPT !.overtaken = @ \ {"s"}]
    OBVIOUS
  <2>2. /\ DOMAIN a = Names /\ a.values = g.values /\ a.source = g.source
        /\ a.overtaken = g.overtaken \ {"s"} /\ a.dictHash = g.dictHash
        /\ a.tables = g.tables /\ a.scriptField = g.scriptField
        /\ a.ident = g.ident /\ a.valid = g.valid /\ a.dict = g.dict
        /\ a.shown = g.shown /\ a.suspect = g.suspect /\ a.shownOf = g.shownOf
    BY <2>1 DEF Fit, Names
  <2>3. DictInv(a) /\ ValuesInv(a, node) /\ ShownInv(a, node) /\ ScriptInv(a, node)
    BY <2>2 DEF Fit, DictInv, ValuesInv, ShownInv, ScriptInv
  <2>4. PICK r : r = [ConfReceived(a, [f \in DOMAIN a.values \cup {"s"} |->
                                         IF f = "s" THEN node.file ELSE a.values[f]])
                        EXCEPT !.values = Nothing]
    OBVIOUS
  <2>5. ParseScript(g) = r
    BY <1>2, <2>1, <2>2, <2>4 DEF ParseScript
  <2>6. QED
    BY <2>2, <2>3, <2>4, <2>5, ScriptTaken, SMTT(60) DEF Fit
<1>3. QED
  BY <1>1, <1>2

\* A file of the node is received.
LEMMA ParseFits ==
  ASSUME NodeType, NEW g, Fit(g, node), NEW f, NEW r, r \in Parse(g, f),
         f \in {"dict", "conf", "script"}
  PROVE  Fit(r, node)
<1>1. CASE f = "dict"
  <2>1. r = ParseDict(g)
    BY <1>1 DEF Parse
  <2>2. CASE node.hash # g.dictHash
    BY <2>1, <2>2, NoDictFits DEF ParseDict
  <2>3. CASE node.hash = g.dictHash
    BY <2>1, <2>3, DictFits DEF ParseDict
  <2>4. QED
    BY <2>2, <2>3
<1>2. CASE f = "conf"
  <2>1. r \in ParseConf(g)
    BY <1>2 DEF Parse
  <2>2. QED
    BY <2>1, ParseConfFits
<1>3. CASE f = "script"
  <2>1. r = ParseScript(g)
    BY <1>3 DEF Parse
  <2>2. QED
    BY <2>1, ParseScriptFits
<1>4. QED
  BY <1>1, <1>2, <1>3

\* The ident that answers a request
LEMMA AnsweredFits ==
  ASSUME NEW g, Fit(g, node), NEW same
  PROVE  Fit(Ident(g, same), node)
<1>1. PICK u : u = UpdateFiles(g, Files(node.hash))
  OBVIOUS
<1>2. Fit(u, node)
  BY <1>1, UpdateFilesSame, SameFits DEF Fit
<1>3. PICK i : i = IdentReceived(u, node.hash, same)
  OBVIOUS
<1>4. Fit(i, node)
  BY <1>2, <1>3, IdentFits
<1>5. Ident(g, same) = Delete(i, "ident")
  BY <1>1, <1>3 DEF Ident
<1>6. Same(i, Delete(i, "ident"))
  BY <1>4, DeleteSame DEF Fit
<1>7. QED
  BY <1>4, <1>5, <1>6, SameFits

-----------------------------------------------------------------------------
(* Another GCS writes to the node. *)

\* v is shown as field f; f is suspect, if it was not meant.
Shows(g, f, v) == [g EXCEPT !.shown[f] = v, !.unsaved = TRUE]

Suspects(g, f) == [g EXCEPT !.suspect = @ \cup {f},
                            !.shownOf = IF f = "p" THEN None ELSE @]

\* What the packet does if it is heard: nothing, or the value is shown; read with
\* other lists than the node's, it is shown as any field.
LEMMA Heard ==
  ASSUME NEW g, NEW f, NEW v, NEW r \in {g} \cup HearUpdate(g, f, v)
  PROVE  \/ r = g
         \/ g.valid /\ f \in DOMAIN g.shown /\ r = Shows(g, f, v)
         \/ /\ g.valid /\ g.tables \notin {None, node.hash}
            /\ \E x \in {"p", "s"}, w \in {v, Junk} :
                 x \in DOMAIN g.shown /\ r = Suspects(Shows(g, x, w), x)
<1>1. CASE r \in {g, ConfUpdated(g, f, v)}
  BY <1>1 DEF ConfUpdated, Shows
<1>2. ASSUME g.tables \notin {None, node.hash}, NEW x \in Updatable(g),
             NEW w \in {v, Junk}, r = Misread(g, x, w)
      PROVE  \/ r = g
             \/ /\ g.valid /\ x \in {"p", "s"} /\ x \in DOMAIN g.shown
                /\ r = Suspects(Shows(g, x, w), x)
  <2>1. x \in {"p", "s"}
    BY DEF Updatable, Fields
  <2>2. CASE g.valid /\ x \in DOMAIN g.shown
    <3>1. ConfUpdated(g, x, w) = Shows(g, x, w)
      BY <2>2 DEF ConfUpdated, Shows
    <3>2. QED
      BY <1>2, <2>1, <2>2, <3>1 DEF Misread, Suspects
  <2>3. QED
    BY <1>2, <2>2 DEF Misread
<1>3. \/ r \in {g, ConfUpdated(g, f, v)}
      \/ /\ g.tables \notin {None, node.hash}
         /\ \E x \in Updatable(g), w \in {v, Junk} : r = Misread(g, x, w)
  BY DEF HearUpdate
<1>4. QED
  BY <1>1, <1>2, <1>3

\* The GCS as it is after the packet, but for the field that was meant: p may be
\* stale, a script may be the number that stands for it.
LEMMA HeardFits ==
  ASSUME NEW g, Fit(g, node), NEW f \in {"p", "s"}, NEW v,
         NEW h \in {g} \cup HearUpdate(g, f, v), f = "p" => v \in Vals
  PROVE  /\ DOMAIN h = Names /\ DictInv(h) /\ ValuesInv(h, node)
         /\ h.valid => /\ \/ h.shownOf = h.dict /\ h.shown["p"] \in Vals
                          \/ h.shownOf = None /\ "p" \in h.suspect
                       /\ "p" \notin h.suspect => h.ident = node.hash
         /\ f = "s" => ShownInv(h, node)
         /\ f = "p" \/ h.shown = g.shown => ScriptInv(h, node)
<1>1. DOMAIN g = Names
  BY DEF Fit
<1>2. CASE h = g
  BY <1>1, <1>2 DEF Fit, ShownInv
<1>3. CASE g.valid /\ f \in DOMAIN g.shown /\ h = Shows(g, f, v)
  <2>1. /\ DOMAIN h = Names /\ DOMAIN h.shown = DOMAIN g.shown /\ h.shown[f] = v
        /\ \A x \in DOMAIN g.shown : x # f => h.shown[x] = g.shown[x]
        /\ h.values = g.values /\ h.source = g.source /\ h.overtaken = g.overtaken
        /\ h.dictHash = g.dictHash /\ h.tables = g.tables
        /\ h.scriptField = g.scriptField /\ h.ident = g.ident /\ h.valid = g.valid
        /\ h.dict = g.dict /\ h.suspect = g.suspect /\ h.shownOf = g.shownOf
    <3>1. /\ DOMAIN h = Names /\ h.shown = [g.shown EXCEPT ![f] = v]
          /\ h.values = g.values /\ h.source = g.source /\ h.overtaken = g.overtaken
          /\ h.dictHash = g.dictHash /\ h.tables = g.tables
          /\ h.scriptField = g.scriptField /\ h.ident = g.ident /\ h.valid = g.valid
          /\ h.dict = g.dict /\ h.suspect = g.suspect /\ h.shownOf = g.shownOf
      BY <1>1, <1>3 DEF Names, Shows
    <3>2. QED
      BY <1>3, <3>1
  <2>2. "p" \in DOMAIN g.shown
    BY <1>3 DEF Fit, DictInv, Fields
  <2>3. DictInv(h) /\ ValuesInv(h, node)
    BY <2>1 DEF Fit, DictInv, ValuesInv
  <2>4. f = "s" => h.shown["p"] = g.shown["p"]
    BY <2>1, <2>2
  <2>5. h.shown["p"] = g.shown["p"] \/ h.shown["p"] \in Vals
    BY <2>1, <2>4
  <2>6. h.valid => /\ \/ h.shownOf = h.dict /\ h.shown["p"] \in Vals
                      \/ h.shownOf = None /\ "p" \in h.suspect
                   /\ "p" \notin h.suspect => h.ident = node.hash
    BY <2>1, <2>5 DEF Fit, ShownInv
  <2>7. f = "s" => ShownInv(h, node)
    BY <2>1, <2>4, <2>6 DEF Fit, ShownInv
  <2>8. f = "p" \/ h.shown = g.shown => ScriptInv(h, node)
    BY <2>1 DEF Fit, ScriptInv
  <2>9. QED
    BY <2>1, <2>3, <2>6, <2>7, <2>8
<1>4. ASSUME g.valid, g.tables \notin {None, node.hash}, NEW x \in {"p", "s"},
             x \in DOMAIN g.shown, NEW w, h = Suspects(Shows(g, x, w), x)
      PROVE  /\ DOMAIN h = Names /\ DictInv(h) /\ ValuesInv(h, node)
             /\ ShownInv(h, node) /\ ScriptInv(h, node)
  <2>1. PICK k : k = Shows(g, x, w)
    OBVIOUS
  <2>2. /\ DOMAIN k = Names /\ DOMAIN k.shown = DOMAIN g.shown
        /\ \A y \in DOMAIN g.shown : y # x => k.shown[y] = g.shown[y]
        /\ k.values = g.values /\ k.source = g.source /\ k.overtaken = g.overtaken
        /\ k.dictHash = g.dictHash /\ k.tables = g.tables
        /\ k.scriptField = g.scriptField /\ k.ident = g.ident /\ k.valid = g.valid
        /\ k.dict = g.dict /\ k.suspect = g.suspect /\ k.shownOf = g.shownOf
    <3>1. /\ DOMAIN k = Names /\ k.shown = [g.shown EXCEPT ![x] = w]
          /\ k.values = g.values /\ k.source = g.source /\ k.overtaken = g.overtaken
          /\ k.dictHash = g.dictHash /\ k.tables = g.tables
          /\ k.scriptField = g.scriptField /\ k.ident = g.ident /\ k.valid = g.valid
          /\ k.dict = g.dict /\ k.suspect = g.suspect /\ k.shownOf = g.shownOf
      BY <1>1, <2>1 DEF Names, Shows
    <3>2. QED
      BY <1>4, <3>1
  <2>3. /\ DOMAIN h = Names /\ h.shown = k.shown
        /\ h.suspect = g.suspect \cup {x}
        /\ h.shownOf = IF x = "p" THEN None ELSE g.shownOf
        /\ h.values = g.values /\ h.source = g.source /\ h.overtaken = g.overtaken
        /\ h.dictHash = g.dictHash /\ h.tables = g.tables
        /\ h.scriptField = g.scriptField /\ h.ident = g.ident /\ h.valid = g.valid
        /\ h.dict = g.dict
    <3>1. h = Suspects(k, x)
      BY <1>4, <2>1
    <3>2. QED
      BY <2>2, <3>1 DEF Names, Suspects
  <2>4. "p" \in DOMAIN g.shown /\ "p" \in g.suspect
    BY <1>4 DEF Fit, DictInv, ShownInv, Fields
  <2>5. DictInv(h) /\ ValuesInv(h, node)
    BY <2>2, <2>3 DEF Fit, DictInv, ValuesInv
  <2>6. ShownInv(h, node)
    BY <2>2, <2>3, <2>4 DEF Fit, ShownInv
  <2>7. ScriptInv(h, node)
    BY <2>2, <2>3 DEF Fit, ScriptInv
  <2>8. QED
    BY <2>3, <2>5, <2>6, <2>7
<1>5. \/ h = g
      \/ g.valid /\ f \in DOMAIN g.shown /\ h = Shows(g, f, v)
      \/ /\ g.valid /\ g.tables \notin {None, node.hash}
         /\ \E x \in {"p", "s"}, w \in {v, Junk} :
              x \in DOMAIN g.shown /\ h = Suspects(Shows(g, x, w), x)
  BY Heard
<1>6. CASE /\ DOMAIN h = Names /\ DictInv(h) /\ ValuesInv(h, node)
           /\ ShownInv(h, node) /\ ScriptInv(h, node)
  BY <1>6 DEF ShownInv
<1>7. QED
  BY <1>2, <1>3, <1>4, <1>5, <1>6

LEMMA MissedFields ==
  ASSUME NEW g, DOMAIN g = Names, NEW f, NEW v, NEW r, r = Missed(g, f, v)
  PROVE  /\ DOMAIN r = Names /\ r.values = g.values /\ r.source = g.source
         /\ r.overtaken = g.overtaken \cup {f}
         /\ \/ r.suspect = g.suspect \cup {f}
            \/ g.valid /\ f \in DOMAIN g.shown /\ g.shown[f] = v /\ r.suspect = g.suspect
         /\ r.shown = g.shown /\ r.dictHash = g.dictHash /\ r.tables = g.tables
         /\ r.scriptField = g.scriptField /\ r.ident = g.ident /\ r.valid = g.valid
         /\ r.dict = g.dict /\ r.shownOf = g.shownOf
  BY DEF Missed, Names

\* p is written.
LEMMA UpdateFits ==
  ASSUME NEW g, Fit(g, node), NodeType, NEW v \in Vals,
         NEW n, n = [node EXCEPT !.p = v],
         NEW h \in {g} \cup HearUpdate(g, "p", v), NEW r, r = Missed(h, "p", v)
  PROVE  Fit(r, n)
<1>1. n.hash = node.hash /\ n.file = node.file /\ n.p = v
  BY DEF NodeType
<1>4. /\ DOMAIN h = Names /\ DictInv(h) /\ ValuesInv(h, node) /\ ScriptInv(h, node)
      /\ h.valid => /\ \/ h.shownOf = h.dict /\ h.shown["p"] \in Vals
                       \/ h.shownOf = None /\ "p" \in h.suspect
                    /\ "p" \notin h.suspect => h.ident = node.hash
  BY HeardFits
<1>5. /\ DOMAIN r = Names /\ r.values = h.values /\ r.source = h.source
      /\ "p" \in r.overtaken
      /\ \/ r.suspect = h.suspect \cup {"p"}
         \/ h.shown["p"] = v /\ r.suspect = h.suspect
      /\ r.shown = h.shown /\ r.dictHash = h.dictHash /\ r.tables = h.tables
      /\ r.scriptField = h.scriptField /\ r.ident = h.ident /\ r.valid = h.valid
      /\ r.dict = h.dict /\ r.shownOf = h.shownOf
  BY <1>4, MissedFields
<1>6. DictInv(r) /\ ScriptInv(r, n)
  BY <1>1, <1>4, <1>5 DEF DictInv, ScriptInv
<1>7. ValuesInv(r, n) /\ ShownInv(r, n)
  BY <1>1, <1>4, <1>5 DEF ValuesInv, ShownInv
<1>8. QED
  BY <1>5, <1>6, <1>7 DEF Fit

\* The file of the script is written; it is shown, or it is suspect.
LEMMA FileWritten ==
  ASSUME NEW g, NEW n, DOMAIN g = Names, DictInv(g), ValuesInv(g, n), ShownInv(g, n),
         NEW r, r = Missed(g, "s", n.file)
  PROVE  Fit(r, n)
<1>1. /\ DOMAIN r = Names /\ r.values = g.values /\ r.source = g.source
      /\ r.overtaken = g.overtaken \cup {"s"}
      /\ \/ r.suspect = g.suspect \cup {"s"}
         \/ g.shown["s"] = n.file /\ r.suspect = g.suspect
      /\ r.shown = g.shown /\ r.dictHash = g.dictHash /\ r.tables = g.tables
      /\ r.scriptField = g.scriptField /\ r.ident = g.ident /\ r.valid = g.valid
      /\ r.dict = g.dict /\ r.shownOf = g.shownOf
  BY MissedFields
<1>2. DictInv(r) /\ ScriptInv(r, n)
  BY <1>1 DEF DictInv, ScriptInv
<1>3. ValuesInv(r, n) /\ ShownInv(r, n)
  BY <1>1 DEF ValuesInv, ShownInv
<1>4. QED
  BY <1>1, <1>2, <1>3 DEF Fit

LEMMA RemoteScriptStep ==
  ASSUME NodeType, Fit(gcs, node), NEW v \in Vals, NEW heard \in BOOLEAN,
         RemoteScript(v, heard)
  PROVE  NodeType' /\ Fit(gcs', node')
<1>1. node' = [node EXCEPT !.file = v]
  BY DEF RemoteScript
<1>2. node'.hash = node.hash /\ node'.p = node.p /\ node'.file = v /\ NodeType'
  BY <1>1 DEF NodeType
<1> DEFINE a == [gcs EXCEPT !.scriptValue = v, !.overtaken = @ \ {"s"}]
           c == [ConfReceived(a, [f \in DOMAIN gcs.values \cup {"s"} |->
                                    IF f = "s" THEN v ELSE gcs.values[f]])
                   EXCEPT !.values = Nothing]
<1>3. /\ DOMAIN a = Names /\ a.values = gcs.values /\ a.source = gcs.source
      /\ a.overtaken = gcs.overtaken \ {"s"} /\ a.dictHash = gcs.dictHash
      /\ a.tables = gcs.tables /\ a.scriptField = gcs.scriptField
      /\ a.ident = gcs.ident /\ a.valid = gcs.valid /\ a.dict = gcs.dict
      /\ a.shown = gcs.shown /\ a.suspect = gcs.suspect /\ a.shownOf = gcs.shownOf
  BY DEF Fit, Names
<1>4. PICK h \in {gcs, a, c} : gcs' = Missed(h, "s", v)
  BY DEF RemoteScript
<1>5. c = [ConfReceived(a, [f \in DOMAIN a.values \cup {"s"} |->
                              IF f = "s" THEN v ELSE a.values[f]])
             EXCEPT !.values = Nothing]
  BY <1>3
<1> HIDE DEF a, c
<1>6. DictInv(gcs) /\ ValuesInv(gcs, node') /\ ShownInv(gcs, node')
  BY <1>2 DEF Fit, ValuesInv, ShownInv
<1>7. DictInv(a) /\ ValuesInv(a, node') /\ ShownInv(a, node')
  BY <1>3, <1>6 DEF DictInv, ValuesInv, ShownInv
<1>8. DOMAIN c = Names /\ DictInv(c) /\ ValuesInv(c, node') /\ ShownInv(c, node')
  BY <1>3, <1>5, <1>7, ScriptTaken, SMTT(60)
<1>9. DOMAIN h = Names /\ DictInv(h) /\ ValuesInv(h, node') /\ ShownInv(h, node')
  BY <1>3, <1>4, <1>6, <1>7, <1>8 DEF Fit
<1>10. QED
  BY <1>2, <1>4, <1>9, FileWritten

LEMMA RemoteUpdateStep ==
  ASSUME NodeType, Fit(gcs, node), NEW v \in Vals, NEW heard \in BOOLEAN,
         RemoteUpdate(v, heard)
  PROVE  NodeType' /\ Fit(gcs', node')
<1>1. node' = [node EXCEPT !.p = v]
  BY DEF RemoteUpdate
<1>2. PICK h \in {gcs} \cup HearUpdate(gcs, "p", v) : gcs' = Missed(h, "p", v)
  BY DEF RemoteUpdate
<1>3. NodeType'
  BY <1>1 DEF NodeType
<1>4. QED
  BY <1>1, <1>2, <1>3, UpdateFits

\* The field of the script is heard: if its value is shown, it is suspect.
LEMMA RemoteScriptFieldStep ==
  ASSUME NodeType, Fit(gcs, node), NEW heard \in BOOLEAN, RemoteScriptField(heard)
  PROVE  NodeType' /\ Fit(gcs', node')
<1>1. /\ node' = [node EXCEPT !.field = node.file]
  BY DEF RemoteScriptField
<1>2. node'.hash = node.hash /\ node'.p = node.p /\ node'.file = node.file /\ NodeType'
  BY <1>1 DEF NodeType
<1>3. PICK h \in {gcs} \cup HearUpdate(gcs, "s", Junk) :
        gcs' = [h EXCEPT !.suspect = IF h.shown = gcs.shown THEN @ ELSE @ \cup {"s"}]
  BY DEF RemoteScriptField
<1>6. /\ DOMAIN h = Names /\ DictInv(h) /\ ValuesInv(h, node) /\ ShownInv(h, node)
      /\ h.shown = gcs.shown => ScriptInv(h, node)
  BY <1>3, HeardFits
<1>8. /\ DOMAIN gcs' = Names /\ gcs'.values = h.values /\ gcs'.source = h.source
      /\ \/ gcs'.suspect = h.suspect /\ h.shown = gcs.shown
         \/ gcs'.suspect = h.suspect \cup {"s"}
      /\ gcs'.overtaken = h.overtaken /\ gcs'.shown = h.shown
      /\ gcs'.dictHash = h.dictHash /\ gcs'.tables = h.tables
      /\ gcs'.scriptField = h.scriptField /\ gcs'.ident = h.ident
      /\ gcs'.valid = h.valid /\ gcs'.dict = h.dict /\ gcs'.shownOf = h.shownOf
  BY <1>3, <1>6 DEF Names
<1>9. DictInv(gcs') /\ ValuesInv(gcs', node') /\ ShownInv(gcs', node')
  BY <1>2, <1>6, <1>8 DEF DictInv, ValuesInv, ShownInv
<1>10. ScriptInv(gcs', node')
  BY <1>2, <1>6, <1>8 DEF ScriptInv
<1>11. QED
  BY <1>2, <1>8, <1>9, <1>10 DEF Fit

\* Other firmware: all that is shown is suspect.
LEMMA ReflashStep ==
  ASSUME NodeType, Fit(gcs, node), NEW h \in Dicts, NEW v \in Vals, Reflash(h, v)
  PROVE  NodeType' /\ Fit(gcs', node')
<1>1. /\ node' = [node EXCEPT !.hash = h, !.p = v]
      /\ gcs' = [gcs EXCEPT !.suspect = {"p", "s"}, !.overtaken = {"p", "s"}]
  BY DEF Reflash
<1>2. NodeType'
  BY <1>1 DEF NodeType
<1>3. /\ DOMAIN gcs' = Names /\ gcs'.values = gcs.values /\ gcs'.source = gcs.source
      /\ gcs'.suspect = {"p", "s"} /\ gcs'.overtaken = {"p", "s"}
      /\ gcs'.dictHash = gcs.dictHash /\ gcs'.tables = gcs.tables
      /\ gcs'.scriptField = gcs.scriptField /\ gcs'.ident = gcs.ident
      /\ gcs'.valid = gcs.valid /\ gcs'.dict = gcs.dict /\ gcs'.shown = gcs.shown
      /\ gcs'.shownOf = gcs.shownOf
  BY <1>1 DEF Fit, Names
<1>4. QED
  BY <1>2, <1>3 DEF Fit, DictInv, ValuesInv, ShownInv, ScriptInv

-----------------------------------------------------------------------------
(* The actions *)

LEMMA Initially == ASSUME Init PROVE IInv
<1>1. NodeType
  <2>1. PICK h \in Dicts, v \in Vals : node = [hash |-> h, p |-> v, field |-> v, file |-> v]
    BY DEF Init
  <2>2. QED
    BY <2>1 DEF NodeType
<1>2. /\ DOMAIN gcs = Names /\ gcs.ident = None /\ gcs.dictHash = None /\ gcs.dict = None
      /\ gcs.valid = FALSE /\ gcs.scriptField = FALSE
  BY DEF Init, Names
<1>3. QED
  BY <1>1, <1>2 DEF IInv, Fit, DictInv, ValuesInv, ShownInv, ScriptInv

LEMMA ScheduleSame == ASSUME DOMAIN gcs = Names, Schedule PROVE Same(gcs, gcs')
<1>1. PICK r, g : /\ g = [gcs EXCEPT !.created = Tail(@)]
                  /\ \/ gcs' = [g EXCEPT !.reqConf = @ /\ r # "conf"]
                     \/ gcs' = [Delete(g, r) EXCEPT !.requests = Append(@, r)]
                     \/ gcs' = [g EXCEPT !.requests = Append(@, r)]
  BY DEF Schedule
<1>2. Same(gcs, g) /\ DOMAIN g = Names
  BY <1>1 DEF Names, Same
<1>3. PICK d : d = Delete(g, r)
  OBVIOUS
<1>4. Same(g, d) /\ DOMAIN d = Names
  BY <1>2, <1>3, DeleteSame DEF Same
<1>5. CASE gcs' = [g EXCEPT !.reqConf = @ /\ r # "conf"]
  <2>1. Same(g, gcs')
    BY <1>2, <1>5 DEF Names, Same
  <2>2. QED
    BY <1>2, <2>1, SameTwice
<1>6. CASE gcs' = [d EXCEPT !.requests = Append(@, r)]
  <2>1. Same(d, gcs')
    BY <1>4, <1>6 DEF Names, Same
  <2>2. QED
    BY <1>2, <1>4, <2>1, SameTwice
<1>7. CASE gcs' = [g EXCEPT !.requests = Append(@, r)]
  <2>1. Same(g, gcs')
    BY <1>2, <1>7 DEF Names, Same
  <2>2. QED
    BY <1>2, <2>1, SameTwice
<1>8. QED
  BY <1>1, <1>3, <1>5, <1>6, <1>7

\* A request is deleted, and the reason is kept.
LEMMA SpoiltSame ==
  ASSUME NEW g, DOMAIN g = Names, NEW r
  PROVE  Same(g, [Delete(g, r) EXCEPT !.spoilt = TRUE])
<1>1. PICK d : d = Delete(g, r)
  OBVIOUS
<1>2. Same(g, d) /\ DOMAIN d = Names
  BY <1>1, DeleteSame DEF Same
<1>3. Same(d, [d EXCEPT !.spoilt = TRUE])
  BY <1>2 DEF Names, Same
<1>4. QED
  BY <1>1, <1>2, <1>3, SameTwice

LEMMA SendSame == ASSUME DOMAIN gcs = Names, Send PROVE Same(gcs, gcs')
<1>1. \/ gcs' = [gcs EXCEPT !.sent = TRUE]
      \/ \E r : gcs' = [Delete(gcs, r) EXCEPT !.spoilt = TRUE]
  BY DEF Send
<1>2. CASE gcs' = [gcs EXCEPT !.sent = TRUE]
  BY <1>2 DEF Names, Same
<1>3. CASE \E r : gcs' = [Delete(gcs, r) EXCEPT !.spoilt = TRUE]
  BY <1>3, SpoiltSame
<1>4. QED
  BY <1>1, <1>2, <1>3

LEMMA DropSame == ASSUME DOMAIN gcs = Names, Drop PROVE Same(gcs, gcs')
<1>1. PICK b : gcs' = [gcs EXCEPT !.requests = <<>>, !.sent = FALSE, !.spoilt = TRUE,
                                  !.reqConf = b]
  BY DEF Drop
<1>2. QED
  BY <1>1 DEF Names, Same

LEMMA WorkSame == ASSUME DOMAIN gcs = Names, Work PROVE Same(gcs, gcs')
<1>1. \/ gcs' = [gcs EXCEPT !.db = Tail(@)]
      \/ gcs' = [gcs EXCEPT !.db = Tail(@), !.unsaved = TRUE]
  BY DEF Work
<1>2. QED
  BY <1>1, ZenonT(60) DEF Names, Same

LEMMA DeliverStep == ASSUME Fit(gcs, node), Deliver PROVE Fit(gcs', node)
<1>1. PICK m : \/ gcs' = DictCacheLoaded(gcs, m.hash)
               \/ gcs' = DictCacheMissing(gcs, m.hash)
               \/ gcs' = Create(gcs, "dict")
               \/ gcs' = [gcs EXCEPT !.configID = m.config]
  BY DEF Deliver
<1>2. CASE gcs' = DictCacheLoaded(gcs, m.hash)
  BY <1>2, DictFits DEF DictCacheLoaded
<1>3. Fit(Create(gcs, "dict"), node)
  BY CreateSame, SameFits DEF Fit
<1>4. CASE gcs' = DictCacheMissing(gcs, m.hash)
  BY <1>3, <1>4 DEF DictCacheMissing
<1>5. CASE gcs' = [gcs EXCEPT !.configID = m.config]
  <2>1. Same(gcs, gcs')
    BY <1>5 DEF Fit, Names, Same
  <2>2. QED
    BY <2>1, SameFits
<1>6. QED
  BY <1>1, <1>2, <1>3, <1>4, <1>5

LEMMA AnswerStep == ASSUME NodeType, Fit(gcs, node), Answer PROVE Fit(gcs', node)
<1>1. CASE \E same \in BOOLEAN : gcs' = Ident(gcs, same)
  BY <1>1, AnsweredFits
<1>2. CASE \E r \in Files(node.hash) : \E g \in Parse(gcs, r) : gcs' = Delete(g, r)
  <2>1. PICK r \in Files(node.hash) : \E g \in Parse(gcs, r) : gcs' = Delete(g, r)
    BY <1>2
  <2>2. PICK g \in Parse(gcs, r) : gcs' = Delete(g, r)
    BY <2>1
  <2>3. r \in {"dict", "conf", "script"}
    BY DEF Files
  <2>4. Fit(g, node)
    BY <2>3, ParseFits
  <2>5. Same(g, Delete(g, r))
    BY <2>4, DeleteSame DEF Fit
  <2>6. QED
    BY <2>2, <2>4, <2>5, SameFits
<1>3. QED
  BY <1>1, <1>2 DEF Answer

LEMMA OutsideStep == ASSUME NodeType, Fit(gcs, node), Outside
                     PROVE  NodeType' /\ Fit(gcs', node')
<1>1. CASE Announce
  <2>1. Same(gcs, gcs') /\ node' = node
    BY <1>1, CreateSame DEF Announce, Fit
  <2>2. QED
    BY <2>1, SameFits DEF NodeType
<1>2. CASE RemoteSave
  <2>1. Same(gcs, gcs') /\ node' = node
    BY <1>2, SaveSame DEF RemoteSave, Fit
  <2>2. QED
    BY <2>1, SameFits DEF NodeType
<1>3. CASE OverhearIdent
  BY <1>3, AnsweredFits DEF OverhearIdent, NodeType
<1>4. CASE \E h \in Dicts, v \in Vals : Reflash(h, v)
  BY <1>4, ReflashStep
<1>5. CASE \E v \in Vals, heard \in BOOLEAN : RemoteUpdate(v, heard)
  BY <1>5, RemoteUpdateStep
<1>6. CASE \E v \in Vals, heard \in BOOLEAN : RemoteScript(v, heard)
  BY <1>6, RemoteScriptStep
<1>7. CASE \E heard \in BOOLEAN : RemoteScriptField(heard)
  BY <1>7, RemoteScriptFieldStep
<1>8. CASE \E f \in {"dict", "conf", "script"} : Overhear(f)
  BY <1>8, ParseFits DEF Overhear, NodeType
<1>9. QED
  BY <1>1, <1>2, <1>3, <1>4, <1>5, <1>6, <1>7, <1>8 DEF Outside

LEMMA Invariance == ASSUME IInv, [Next]_vars PROVE IInv'
<1> SUFFICES NodeType' /\ Fit(gcs', node')
  BY DEF IInv
<1> USE DEF IInv
<1>1. DOMAIN gcs = Names
  BY DEF Fit
<1>2. ASSUME Fit(gcs', node), node' = node
      PROVE  NodeType' /\ Fit(gcs', node')
  BY <1>2 DEF NodeType
<1>3. ASSUME Same(gcs, gcs'), node' = node
      PROVE  NodeType' /\ Fit(gcs', node')
  BY <1>2, <1>3, SameFits
<1>4. CASE Schedule
  BY <1>1, <1>3, <1>4, ScheduleSame DEF Schedule, RestUnchanged
<1>5. CASE Send
  BY <1>1, <1>3, <1>5, SendSame DEF Send, RestUnchanged
<1>6. CASE Answer
  BY <1>2, <1>6, AnswerStep DEF Answer, RestUnchanged
<1>7. CASE TransferFails
  <2>1. Same(gcs, gcs') /\ node' = node
    BY <1>1, <1>7, SpoiltSame DEF TransferFails, RestUnchanged
  <2>2. QED
    BY <1>3, <2>1
<1>8. CASE Drop
  BY <1>1, <1>3, <1>8, DropSame DEF Drop, RestUnchanged
<1>9. CASE Work
  BY <1>1, <1>3, <1>9, WorkSame DEF Work
<1>10. CASE Deliver
  BY <1>2, <1>10, DeliverStep DEF Deliver
<1>11. CASE Outside
  BY <1>11, OutsideStep
<1>12. CASE UNCHANGED vars
  <2>1. gcs' = gcs /\ node' = node
    BY <1>12 DEF vars
  <2>2. QED
    BY <1>2, <2>1
<1>13. QED
  BY <1>4, <1>5, <1>6, <1>7, <1>8, <1>9, <1>10, <1>11, <1>12 DEF Next

LEMMA IInvIsShownIsHeld == ASSUME IInv PROVE ShownIsHeld
  BY DEF IInv, Fit, DictInv, ShownInv, ScriptInv, ShownIsHeld

\* What is shown of a valid node is its own dictionary and configuration, but for
\* fields it has missed a change of, and for updates that were read with the
\* lists of an earlier firmware (confReceived, dictReceived and
\* identReceived of NodeItem, parseDictData, parseConfData and parseScriptData of
\* PApxNode): for every order in which files, results of the database and
\* packets of another GCS come.
THEOREM ShownCorrect == Spec => []ShownIsHeld
<1>1. Init => IInv
  BY Initially
<1>2. IInv /\ [Next]_vars => IInv'
  BY Invariance
<1>3. IInv => ShownIsHeld
  BY IInvIsShownIsHeld
<1>4. QED
  BY <1>1, <1>2, <1>3, PTL DEF Spec
-----------------------------------------------------------------------------
(* Types *)

Field0 == Vals \cup {Junk, None}

Hash0 == Dicts \cup {None}

LEMMA ValuesType ==
  ASSUME NEW F \in SUBSET {"p", "s"}, NEW v \in [F -> Field0]
  PROVE  v \in Values
  BY DEF Values, Field0

LEMMA ValuesFields ==
  ASSUME NEW v \in Values
  PROVE  DOMAIN v \in SUBSET {"p", "s"} /\ v \in [DOMAIN v -> Field0]
  BY DEF Values, Field0

LEMMA NothingType == Nothing \in Values
<1>1. Nothing \in [{} -> Field0]
  BY DEF Nothing
<1>2. QED
  BY <1>1, ValuesType

LEMMA FieldsType == \A h : Fields(h) \in SUBSET {"p", "s"}
  BY DEF Fields

LEMMA WithoutType ==
  ASSUME NEW S, NEW q \in Seq(S), NEW r
  PROVE  Without(q, r) \in Seq(S)
<1>1. CASE r \notin Range(q)
  BY <1>1 DEF Without
<1>2. CASE r \in Range(q)
  <2>1. PICK n \in DOMAIN q : Without(q, r) = SubSeq(q, 1, n - 1) \o SubSeq(q, n + 1, Len(q))
    BY <1>2 DEF Without, Range
  <2>2. n \in 1 .. Len(q) /\ Len(q) \in Nat /\ \A i \in 1 .. Len(q) : q[i] \in S
    OBVIOUS
  <2>3. SubSeq(q, 1, n - 1) \in Seq(S)
    <3>1. 1 \in Int /\ n - 1 \in Int /\ \A i \in 1 .. n - 1 : q[i] \in S
      BY <2>2
    <3>2. QED
      BY <3>1, SubSeqProperties
  <2>4. SubSeq(q, n + 1, Len(q)) \in Seq(S)
    <3>1. n + 1 \in Int /\ Len(q) \in Int /\ \A i \in n + 1 .. Len(q) : q[i] \in S
      BY <2>2
    <3>2. QED
      BY <3>1, SubSeqProperties
  <2>5. QED
    BY <2>1, <2>3, <2>4, ConcatProperties
<1>3. QED
  BY <1>1, <1>2

LEMMA CreateType ==
  ASSUME NEW g \in State, NEW r \in Requests  PROVE Create(g, r) \in State
<1>0. g.created \in Seq(Requests)
  BY DEF State
<1>1. PICK q \in Seq(Requests) : q = Append(g.created, r)
  BY <1>0, AppendProperties
<1>2. Create(g, r) = [g EXCEPT !.created = q]
  BY <1>1 DEF Create
<1>3. QED
  BY <1>2, ZenonT(60) DEF State

LEMMA ExecType ==
  ASSUME NEW g \in State, NEW job \in Jobs  PROVE Exec(g, job) \in State
<1>0. g.db \in Seq(Jobs)
  BY DEF State
<1>1. PICK q \in Seq(Jobs) : q = Append(g.db, job)
  BY <1>0, AppendProperties
<1>2. Exec(g, job) = [g EXCEPT !.db = q]
  BY <1>1 DEF Exec
<1>3. QED
  BY <1>2, ZenonT(60) DEF State

LEMMA ClearType ==
  ASSUME NEW g \in State  PROVE Clear(g) \in State
  BY NothingType, ZenonT(60) DEF State, Clear

\* The flags take truth values.
LEMMA FlagTypes ==
  ASSUME NEW g \in State, NEW b \in BOOLEAN
  PROVE  /\ [g EXCEPT !.sent = b] \in State
         /\ [g EXCEPT !.reqConf = b] \in State
         /\ [g EXCEPT !.spoilt = b] \in State
         /\ [g EXCEPT !.unsaved = b] \in State
         /\ [g EXCEPT !.scriptField = b] \in State
<1>1. [g EXCEPT !.sent = b] \in State
  BY ZenonT(60) DEF State
<1>2. [g EXCEPT !.reqConf = b] \in State
  BY ZenonT(60) DEF State
<1>3. [g EXCEPT !.spoilt = b] \in State
  BY ZenonT(60) DEF State
<1>4. [g EXCEPT !.unsaved = b] \in State
  BY ZenonT(60) DEF State
<1>5. [g EXCEPT !.scriptField = b] \in State
  BY ZenonT(60) DEF State
<1>6. QED
  BY <1>1, <1>2, <1>3, <1>4, <1>5

LEMMA NewValues ==
  ASSUME NEW g \in State, NEW v \in Values  PROVE [g EXCEPT !.values = v] \in State
  BY ZenonT(60) DEF State

LEMMA NewFiles ==
  ASSUME NEW g \in State, NEW v \in SUBSET {"dict", "conf", "script"}
  PROVE  [g EXCEPT !.files = v] \in State
  BY ZenonT(60) DEF State

LEMMA NewScriptValue ==
  ASSUME NEW g \in State, NEW v \in Field0  PROVE [g EXCEPT !.scriptValue = v] \in State
  BY ZenonT(60) DEF State, Field0

LEMMA NewQueues ==
  ASSUME NEW g \in State, NEW q \in Seq(Requests)
  PROVE  [g EXCEPT !.created = q] \in State /\ [g EXCEPT !.requests = q] \in State
<1>1. [g EXCEPT !.created = q] \in State
  BY ZenonT(60) DEF State
<1>2. [g EXCEPT !.requests = q] \in State
  BY DEF State
<1>3. QED
  BY <1>1, <1>2

LEMMA NewJobs ==
  ASSUME NEW g \in State, NEW d \in Seq(Jobs)  PROVE [g EXCEPT !.db = d] \in State
  BY ZenonT(60) DEF State

LEMMA NewOvertaken ==
  ASSUME NEW g \in State, NEW s \in SUBSET {"p", "s"}  PROVE [g EXCEPT !.overtaken = s] \in State
  BY ZenonT(60) DEF State

LEMMA NewSuspect ==
  ASSUME NEW g \in State, NEW u \in SUBSET {"p", "s"}  PROVE [g EXCEPT !.suspect = u] \in State
  BY ZenonT(60) DEF State

LEMMA DeleteType ==
  ASSUME NEW g \in State, NEW r  PROVE Delete(g, r) \in State
<1>1. PICK q \in Seq(Requests) : q = Without(g.requests, r)
  BY WithoutType DEF State
<1>2. PICK b \in BOOLEAN, c \in BOOLEAN :
        b = (g.sent /\ g.requests[1] # r) /\ c = (g.reqConf /\ r # "conf")
  OBVIOUS
<1>3. Delete(g, r) = [g EXCEPT !.requests = q, !.sent = b, !.reqConf = c]
  BY <1>1, <1>2 DEF Delete, State
<1> DEFINE h == [g EXCEPT !.requests = q]
           k == [h EXCEPT !.sent = b]
<1>4. h \in State
  BY ZenonT(60) DEF State
<1> HIDE DEF h
<1>5. k \in State
  BY <1>4, FlagTypes
<1> HIDE DEF k
<1>6. [k EXCEPT !.reqConf = c] \in State
  BY <1>5, FlagTypes
<1>7. QED
  BY <1>3, <1>6 DEF h, k

LEMMA SaveShownType ==
  ASSUME NEW g \in State, g.dict # None
  PROVE  SaveShown(g) \in State
<1> DEFINE config == [hash |-> g.dict, values |-> g.shown]
<1>1. config \in Configs
  BY DEF State, Configs
<1> HIDE DEF config
<1>2. PICK D \in SUBSET Configs :
        D = IF g.valid /\ g.suspect = {} THEN g.doubtful ELSE g.doubtful \cup {config}
  BY <1>1 DEF State
<1>3. PICK h : h = [g EXCEPT !.configID = None, !.unsaved = FALSE, !.doubtful = D]
  OBVIOUS
<1>4. h \in State
  BY <1>3, ZenonT(60) DEF State
<1>5. [op |-> "saveConf", config |-> config] \in Jobs
  BY <1>1 DEF Jobs
<1>6. SaveShown(g) = Exec(h, [op |-> "saveConf", config |-> config])
  BY <1>2, <1>3 DEF SaveShown, config, State
<1>7. QED
  BY <1>4, <1>5, <1>6, ExecType

LEMMA SaveType ==
  ASSUME NEW g \in State  PROVE SaveNodeConfig(g) \in State
<1>1. [g EXCEPT !.configID = None] \in State
  BY DEF State
<1>2. QED
  BY <1>1, SaveShownType DEF SaveNodeConfig

LEMMA RequestConfType ==
  ASSUME NEW g \in State  PROVE RequestConf(g) \in State
<1>1. PICK b \in BOOLEAN :
        b = (g.spoilt \/ ("conf" \in Range(g.created) \cup Range(g.requests)
                           /\ g.tables \in Scripted))
  OBVIOUS
<1>2. PICK h : h = [g EXCEPT !.reqConf = TRUE, !.spoilt = b]
  OBVIOUS
<1>3. h \in State
  BY <1>2, ZenonT(60) DEF State
<1>4. RequestConf(g) = Create(h, "conf")
  BY <1>1, <1>2 DEF RequestConf, State
<1>5. QED
  BY <1>3, <1>4, CreateType DEF Requests

LEMMA DictReceivedType ==
  ASSUME NEW g \in State, NEW h \in Dicts  PROVE DictReceived(g, h) \in State
<1>1. PICK c : c = Clear(g)
  OBVIOUS
<1>2. c \in State
  BY <1>1, ClearType
<1>3. PICK v \in Values : v = [f \in Fields(h) |-> None]
  <2>1. [f \in Fields(h) |-> None] \in [Fields(h) -> Field0]
    BY DEF Field0
  <2>2. QED
    BY <2>1, FieldsType, ValuesType
<1>4. PICK d : d = [c EXCEPT !.dict = h, !.shown = v]
  OBVIOUS
<1>5. d \in State
  BY <1>2, <1>4, ZenonT(60) DEF State, Hash0
<1>6. PICK job : job = [op |-> "saveDict", hash |-> h]
  OBVIOUS
<1>7. job \in Jobs
  BY <1>6 DEF Jobs
<1>8. DictReceived(g, h) = g \/ DictReceived(g, h) = RequestConf(Exec(d, job))
  BY <1>1, <1>3, <1>4, <1>6 DEF DictReceived
<1>9. QED
  BY <1>5, <1>7, <1>8, ExecType, RequestConfType

LEMMA RequestDictType ==
  ASSUME NEW g \in State, g.dictHash \in Dicts  PROVE RequestDict(g) \in State
<1>1. PICK h : h = [g EXCEPT !.skipCache = FALSE]
  OBVIOUS
<1>2. h \in State
  BY <1>1, ZenonT(60) DEF State
<1>3. [op |-> "load", hash |-> g.dictHash] \in Jobs
  BY DEF Jobs
<1>4. \/ RequestDict(g) = Create(h, "dict")
      \/ RequestDict(g) = Exec(g, [op |-> "load", hash |-> g.dictHash])
  BY <1>1 DEF RequestDict
<1>5. QED
  BY <1>2, <1>3, <1>4, CreateType, ExecType DEF Requests

LEMMA IdentReceivedType ==
  ASSUME NEW g \in State, NEW h \in Dicts, NEW same
  PROVE  IdentReceived(g, h, same) \in State
<1>1. PICK k : k = [g EXCEPT !.dictHash = h]
  OBVIOUS
<1>2. k \in State
  BY <1>1 DEF State
<1>3. PICK i : i = [k EXCEPT !.ident = h, !.spoilt = FALSE]
  OBVIOUS
<1>4. i \in State
  BY <1>2, <1>3, ZenonT(60) DEF State
<1>5. PICK c : c = Clear(i)
  OBVIOUS
<1>6. c \in State
  BY <1>4, <1>5, ClearType
<1>7. c.dictHash = h
  BY <1>1, <1>3, <1>5 DEF Clear, State
<1>8. \/ IdentReceived(g, h, same) = k
      \/ IdentReceived(g, h, same) = RequestDict(c)
  BY <1>1, <1>3, <1>5 DEF IdentReceived
<1>9. QED
  BY <1>2, <1>6, <1>7, <1>8, RequestDictType

\* ConfReceived without what follows from the values
Taken(g, vs) ==
    LET fresh == DOMAIN vs \cap DOMAIN g.shown IN
    [g EXCEPT
       !.shown = [f \in DOMAIN @ |-> IF f \in fresh THEN vs[f] ELSE @[f]],
       !.suspect = (@ \ fresh) \cup (g.overtaken \cap fresh),
       !.shownOf = IF "p" \in fresh THEN g.source ELSE @]

LEMMA TakenType ==
  ASSUME NEW g \in State, NEW vs \in Values  PROVE Taken(g, vs) \in State
<1> DEFINE fresh == DOMAIN vs \cap DOMAIN g.shown
<1>1. g.shown \in Values
  BY DEF State
<1>2. fresh \subseteq DOMAIN vs /\ fresh \subseteq {"p", "s"}
  BY ValuesFields
<1>3. PICK sh \in Values : sh = [f \in DOMAIN g.shown |-> IF f \in fresh THEN vs[f] ELSE g.shown[f]]
  <2>1. \A f \in DOMAIN g.shown : g.shown[f] \in Field0
    BY <1>1, ValuesFields
  <2>2. \A f \in fresh : vs[f] \in Field0
    BY <1>2, ValuesFields
  <2> HIDE DEF fresh
  <2>3. [f \in DOMAIN g.shown |-> IF f \in fresh THEN vs[f] ELSE g.shown[f]]
          \in [DOMAIN g.shown -> Field0]
    BY <2>1, <2>2
  <2>4. QED
    BY <1>1, <2>3, ValuesFields, ValuesType
<1>4. PICK su \in SUBSET {"p", "s"} : su = (g.suspect \ fresh) \cup (g.overtaken \cap fresh)
  BY DEF State
<1>5. PICK so \in Hash0 : so = IF "p" \in fresh THEN g.source ELSE g.shownOf
  BY DEF State, Hash0
<1>6. Taken(g, vs) = [g EXCEPT !.shown = sh, !.suspect = su, !.shownOf = so]
  BY <1>3, <1>4, <1>5 DEF State, Taken
<1> HIDE DEF fresh
<1> DEFINE k == [g EXCEPT !.shown = sh, !.suspect = su, !.shownOf = so]
<1>7. k \in State
  BY ZenonT(60) DEF State, Hash0
<1>8. QED
  BY <1>6, <1>7

LEMMA ConfReceivedType ==
  ASSUME NEW g \in State, NEW vs \in Values  PROVE ConfReceived(g, vs) \in State
<1>1. PICK k \in State : k = Taken(g, vs)
  BY TakenType
<1>2. PICK u \in BOOLEAN : u = (k.unsaved \/ k.shown # g.shown)
  OBVIOUS
<1>3. PICK w : w = [k EXCEPT !.valid = TRUE]
  OBVIOUS
<1>4. w \in State
  BY <1>3, ZenonT(60) DEF State
<1>5. \/ ConfReceived(g, vs) \in {g, k}
      \/ ConfReceived(g, vs) = [k EXCEPT !.unsaved = @ \/ k.shown # g.shown]
      \/ ConfReceived(g, vs) = SaveNodeConfig(w)
  BY <1>1, <1>3 DEF ConfReceived, Validate, Taken
<1>6. [k EXCEPT !.unsaved = @ \/ k.shown # g.shown] \in State
  BY <1>2, FlagTypes
<1>7. QED
  BY <1>4, <1>5, <1>6, SaveType

LEMMA TablesType ==
  ASSUME NEW g \in State, NEW h \in Hash0  PROVE SetTables(g, h) \in State
  BY NothingType, ZenonT(60) DEF State, SetTables, Hash0

LEMMA ErrorType ==
  ASSUME NEW g \in State  PROVE ConfError(g) \in State
  BY NothingType, ZenonT(60) DEF State, ConfError

LEMMA ParsedStateType ==
  ASSUME NodeType, NEW g \in State, NEW s \in Field0
  PROVE  ParsedState(g, s) \in State
<1>1. PICK b \in BOOLEAN : b = (g.scriptField \/ g.tables \in Scripted)
  OBVIOUS
<1>2. PICK t \in Field0 : t = IF g.tables \in Scripted THEN s ELSE g.scriptValue
  BY DEF State, Field0
<1>3. node.hash \in Dicts
  BY DEF NodeType
<1>4. PICK a : a = [g EXCEPT !.values = Nothing, !.source = node.hash, !.overtaken = {}]
  OBVIOUS
<1>5. a \in State
  BY <1>3, <1>4, NothingType, ZenonT(60) DEF State
<1>6. PICK c : c = [a EXCEPT !.scriptField = b]
  OBVIOUS
<1>7. c \in State
  BY <1>5, <1>6, FlagTypes
<1>8. ParsedState(g, s) = [c EXCEPT !.scriptValue = t]
  BY <1>1, <1>2, <1>4, <1>6 DEF State, ParsedState
<1>9. QED
  BY <1>7, <1>8, NewScriptValue

LEMMA ParsedType ==
  ASSUME NodeType, NEW g \in State, NEW v \in Field0, NEW s \in Field0
  PROVE  ConfParsed(g, v, s) \in State
<1> DEFINE k == ParsedState(g, s)
           vs == ParsedValues(g, v)
           q == [k EXCEPT !.values = vs]
<1>1. ConfParsed(g, v, s) \in {ConfReceived(k, vs), Create(q, "script"), q}
  BY DEF ConfParsed, ParsedState, ParsedValues
<1>2. k \in State
  BY ParsedStateType
<1>3. vs \in Values
  <2>1. vs \in [Fields(g.tables) -> Field0]
    BY DEF ParsedValues, Field0
  <2>2. QED
    BY <2>1, FieldsType, ValuesType
<1> HIDE DEF k, vs
<1>4. q \in State
  BY <1>2, <1>3, NewValues
<1> HIDE DEF q
<1>5. QED
  BY <1>1, <1>2, <1>3, <1>4, CreateType, ConfReceivedType DEF Requests

LEMMA ScriptValuesType ==
  ASSUME NEW g \in State, NEW v \in Field0, NEW vs,
         vs = [f \in DOMAIN g.values \cup {"s"} |-> IF f = "s" THEN v ELSE g.values[f]]
  PROVE  vs \in Values
<1>1. g.values \in Values
  BY DEF State
<1>2. /\ DOMAIN g.values \cup {"s"} \in SUBSET {"p", "s"}
      /\ \A f \in DOMAIN g.values : g.values[f] \in Field0
  BY <1>1, ValuesFields
<1>3. vs \in [DOMAIN g.values \cup {"s"} -> Field0]
  BY <1>2
<1>4. QED
  BY <1>2, <1>3, ValuesType

LEMMA EndOfValues ==
  ASSUME NEW g \in State, NEW vs \in Values
  PROVE  [ConfReceived(g, vs) EXCEPT !.values = Nothing] \in State
<1>1. PICK c : c = ConfReceived(g, vs)
  OBVIOUS
<1>2. c \in State
  BY <1>1, ConfReceivedType
<1>3. [c EXCEPT !.values = Nothing] \in State
  BY <1>2, NothingType, NewValues
<1>4. QED
  BY <1>1, <1>3

LEMMA ParseType ==
  ASSUME NodeType, NEW g \in State, NEW f \in {"dict", "conf", "script"},
         NEW r \in Parse(g, f)
  PROVE  r \in State
<1>1. /\ node.hash \in Hash0 /\ node.hash \in Dicts /\ node.p \in Field0 /\ node.field \in Field0
      /\ node.file \in Field0 /\ Junk \in Field0
  BY DEF NodeType, Hash0, Field0
<1>2. CASE f = "dict"
  <2>1. r = ParseDict(g)
    BY <1>2 DEF Parse
  <2>2. PICK t : t = SetTables(g, None)
    OBVIOUS
  <2>3. t \in State
    BY <2>2, TablesType DEF Hash0
  <2>4. SetTables(g, node.hash) \in State
    BY <1>1, TablesType
  <2>5. r = [t EXCEPT !.spoilt = TRUE] \/ r = DictReceived(SetTables(g, node.hash), node.hash)
    BY <2>1, <2>2 DEF ParseDict
  <2>6. QED
    BY <1>1, <2>3, <2>4, <2>5, FlagTypes, DictReceivedType
<1>3. CASE f = "conf"
  <2>1. r \in ParseConf(g)
    BY <1>3 DEF Parse
  <2>2. PICK e : e = ConfError(g)
    OBVIOUS
  <2>3. e \in State
    BY <2>2, ErrorType
  <2>4. PICK d : d = [e EXCEPT !.scriptField = TRUE]
    OBVIOUS
  <2>5. d \in State
    BY <2>3, <2>4, FlagTypes
  <2>6. [d EXCEPT !.scriptValue = Junk] \in State
    BY <1>1, <2>5, NewScriptValue
  <2>7. ParseConf(g) \subseteq {e, ConfParsed(g, node.p, node.field),
                               ConfParsed(g, Junk, Junk), [d EXCEPT !.scriptValue = Junk]}
    <3>1. CASE node.hash # g.dictHash \/ g.tables = None
      <4>1. node.hash # None
        BY ConstantsAssumption DEF NodeType
      <4>2. ParseConf(g) = {ConfError(g)}
        BY <3>1, <4>1 DEF ParseConf
      <4>3. QED
        BY <2>2, <4>2
    <3>2. CASE ~(node.hash # g.dictHash \/ g.tables = None)
      BY <2>2, <2>4, <3>2 DEF ParseConf
    <3>3. QED
      BY <3>1, <3>2
  <2>8. QED
    BY <1>1, <2>1, <2>3, <2>6, <2>7, ParsedType
<1>4. CASE f = "script"
  <2>1. r = ParseScript(g)
    BY <1>4 DEF Parse
  <2>2. PICK b \in BOOLEAN : b = (g.spoilt \/ g.scriptField)
    OBVIOUS
  <2>3. PICK a : a = [g EXCEPT !.overtaken = @ \ {"s"}]
    OBVIOUS
  <2>4. a \in State
    BY <2>3 DEF State
  <2>5. PICK vs : vs = [x \in DOMAIN g.values \cup {"s"} |->
                          IF x = "s" THEN node.file ELSE g.values[x]]
    OBVIOUS
  <2>6. vs \in Values
    BY <1>1, <2>5, ScriptValuesType
  <2>7. \/ r = [g EXCEPT !.spoilt = b]
        \/ r = [ConfReceived(a, vs) EXCEPT !.values = Nothing]
    BY <2>1, <2>2, <2>3, <2>5 DEF ParseScript
  <2>8. QED
    BY <2>4, <2>6, <2>7, FlagTypes, EndOfValues
<1>5. QED
  BY <1>2, <1>3, <1>4

LEMMA AnsweredType ==
  ASSUME NodeType, NEW g \in State, NEW same  PROVE Ident(g, same) \in State
<1>1. PICK d : d = Delete(Delete(Delete(g, "dict"), "conf"), "script")
  OBVIOUS
<1>2. d \in State
  BY <1>1, DeleteType
<1>3. Files(node.hash) \in SUBSET {"dict", "conf", "script"}
  BY DEF Files
<1>4. [d EXCEPT !.files = Files(node.hash)] \in State
  BY <1>2, <1>3, NewFiles
<1>5. UpdateFiles(g, Files(node.hash)) \in State
  BY <1>1, <1>4 DEF UpdateFiles
<1>6. node.hash \in Dicts
  BY DEF NodeType
<1>7. QED
  BY <1>5, <1>6, IdentReceivedType, DeleteType DEF Ident

LEMMA ShowsType ==
  ASSUME NEW g \in State, NEW f \in DOMAIN g.shown, NEW v \in Field0
  PROVE  Shows(g, f, v) \in State
<1>1. PICK s : s = [g.shown EXCEPT ![f] = v]
  OBVIOUS
<1>2. Shows(g, f, v) = [g EXCEPT !.shown = s, !.unsaved = TRUE]
  BY <1>1 DEF Shows
<1>3. g.shown \in Values
  BY DEF State
<1>4. s \in [DOMAIN g.shown -> Field0] /\ DOMAIN g.shown \in SUBSET {"p", "s"}
  BY <1>1, <1>3, ValuesFields
<1>5. s \in Values
  BY <1>4, ValuesType
<1>6. QED
  BY <1>2, <1>5, ZenonT(60) DEF State

LEMMA SuspectsType ==
  ASSUME NEW g \in State, NEW f \in {"p", "s"}  PROVE Suspects(g, f) \in State
<1>1. PICK u \in SUBSET {"p", "s"}, o \in Hash0 :
        u = g.suspect \cup {f} /\ o = IF f = "p" THEN None ELSE g.shownOf
  BY DEF State, Hash0
<1>2. Suspects(g, f) = [g EXCEPT !.suspect = u, !.shownOf = o]
  BY <1>1 DEF Suspects
<1>3. QED
  BY <1>2, ZenonT(60) DEF State, Hash0

LEMMA HearType ==
  ASSUME NEW g \in State, NEW f \in {"p", "s"}, NEW v \in Field0,
         NEW h \in {g} \cup HearUpdate(g, f, v)
  PROVE  h \in State
<1>1. Junk \in Field0
  BY DEF Field0
<1>2. ASSUME NEW x \in {"p", "s"}, NEW w \in {v, Junk}, x \in DOMAIN g.shown
      PROVE  Shows(g, x, w) \in State /\ Suspects(Shows(g, x, w), x) \in State
  BY <1>1, <1>2, ShowsType, SuspectsType
<1>3. QED
  BY <1>2, Heard

LEMMA MissedType ==
  ASSUME NEW g \in State, NEW f \in {"p", "s"}, NEW v  PROVE Missed(g, f, v) \in State
<1>1. PICK o \in SUBSET {"p", "s"}, u \in SUBSET {"p", "s"} :
        /\ o = g.overtaken \cup {f}
        /\ u = IF g.valid /\ f \in DOMAIN g.shown /\ g.shown[f] = v
               THEN g.suspect ELSE g.suspect \cup {f}
  BY DEF State
<1>2. PICK h : h = [g EXCEPT !.overtaken = o]
  OBVIOUS
<1>3. h \in State
  BY <1>1, <1>2, NewOvertaken
<1>4. Missed(g, f, v) = [h EXCEPT !.suspect = u]
  BY <1>1, <1>2 DEF Missed
<1>5. QED
  BY <1>1, <1>3, <1>4, NewSuspect

\* What the actions rely on
LEMMA HeldType ==
  ASSUME NEW n \in [hash : Dicts, p : Vals, field : Vals, file : Vals]
  PROVE  Held(n) \in Configs
<1>1. [f \in Fields(n.hash) |-> IF f = "p" THEN n.p ELSE n.file] \in [Fields(n.hash) -> Field0]
  BY DEF Field0
<1>2. [f \in Fields(n.hash) |-> IF f = "p" THEN n.p ELSE n.file] \in Values
  BY <1>1, FieldsType, ValuesType
<1>3. QED
  BY <1>2 DEF Held, Configs

LEMMA InitType == ASSUME Init PROVE TypeOK
<1>1. PICK h \in Dicts, v \in Vals : node = [hash |-> h, p |-> v, field |-> v, file |-> v]
  BY DEF Init
<1>2. node \in [hash : Dicts, p : Vals, field : Vals, file : Vals]
  BY <1>1
<1>3. gcs \in State
  <2>1. <<"ident">> \in Seq(Requests) /\ <<>> \in Seq(Requests) /\ <<>> \in Seq(Jobs)
    BY DEF Requests
  <2>2. QED
    BY <2>1, NothingType DEF Init, State
<1>4. posted \in Seq(Signals) /\ dicts \subseteq Dicts /\ configs \subseteq Configs /\ events \in 0 .. MaxEvents
  BY ConstantsAssumption DEF Init
<1>5. held \subseteq Configs
  BY <1>2, HeldType DEF Init
<1>6. QED
  BY <1>2, <1>3, <1>4, <1>5 DEF TypeOK

\* The actions that only change gcs, and the events
LEMMA ScheduleType == ASSUME gcs \in State, Schedule PROVE gcs' \in State
<1>1. PICK r, g : /\ r = Head(gcs.created)
                  /\ g = [gcs EXCEPT !.created = Tail(@)]
                  /\ \/ gcs' = [g EXCEPT !.reqConf = @ /\ r # "conf"]
                     \/ gcs' = [Delete(g, r) EXCEPT !.requests = Append(@, r)]
                     \/ gcs' = [g EXCEPT !.requests = Append(@, r)]
  BY DEF Schedule
<1>2. r \in Requests /\ Tail(gcs.created) \in Seq(Requests)
  <2>1. gcs.created \in Seq(Requests) /\ gcs.created # <<>>
    BY DEF State, Schedule
  <2>2. QED
    BY <1>1, <2>1, HeadTailProperties
<1>3. g \in State
  BY <1>1, <1>2, NewQueues
<1>4. ASSUME NEW o \in State
      PROVE  [o EXCEPT !.requests = Append(@, r)] \in State
  <2>1. o.requests \in Seq(Requests)
    BY DEF State
  <2>2. Append(o.requests, r) \in Seq(Requests)
    BY <1>2, <2>1, AppendProperties
  <2>3. QED
    BY <2>2, NewQueues
<1>5. [g EXCEPT !.reqConf = @ /\ r # "conf"] \in State
  <2>1. PICK b \in BOOLEAN : b = (g.reqConf /\ r # "conf")
    OBVIOUS
  <2>2. [g EXCEPT !.reqConf = b] \in State
    BY <1>3, FlagTypes
  <2>3. QED
    BY <2>1, <2>2
<1>6. [g EXCEPT !.requests = Append(@, r)] \in State
  BY <1>3, <1>4
<1>7. [Delete(g, r) EXCEPT !.requests = Append(@, r)] \in State
  <2>1. PICK o \in State : o = Delete(g, r)
    BY <1>3, DeleteType
  <2>2. [o EXCEPT !.requests = Append(@, r)] \in State
    BY <1>4
  <2>3. QED
    BY <2>1, <2>2
<1>8. QED
  BY <1>1, <1>5, <1>6, <1>7

LEMMA SendType == ASSUME gcs \in State, Send PROVE gcs' \in State
<1>1. \/ gcs' = [gcs EXCEPT !.sent = TRUE]
      \/ \E r : gcs' = [Delete(gcs, r) EXCEPT !.spoilt = TRUE]
  BY DEF Send
<1>2. QED
  BY <1>1, DeleteType, FlagTypes

LEMMA DropType == ASSUME gcs \in State, Drop PROVE gcs' \in State
<1> DEFINE g == [gcs EXCEPT !.requests = <<>>]
           h == [g EXCEPT !.sent = FALSE]
           k == [h EXCEPT !.spoilt = TRUE]
<1>1. <<>> \in Seq(Requests)
  OBVIOUS
<1>2. g \in State
  BY <1>1, NewQueues
<1>3. PICK b \in BOOLEAN : gcs' = [k EXCEPT !.reqConf = b]
  BY DEF Drop
<1> HIDE DEF g
<1>4. h \in State
  BY <1>2, FlagTypes
<1> HIDE DEF h
<1>5. k \in State
  BY <1>4, FlagTypes
<1> HIDE DEF k
<1>6. QED
  BY <1>3, <1>5, FlagTypes

LEMMA AnswerType == ASSUME NodeType, gcs \in State, Answer PROVE gcs' \in State
<1>1. CASE \E same \in BOOLEAN : gcs' = Ident(gcs, same)
  BY <1>1, AnsweredType
<1>2. CASE \E r \in Files(node.hash) : \E g \in Parse(gcs, r) : gcs' = Delete(g, r)
  <2>1. PICK r \in Files(node.hash) : \E g \in Parse(gcs, r) : gcs' = Delete(g, r)
    BY <1>2
  <2>2. PICK g \in Parse(gcs, r) : gcs' = Delete(g, r)
    BY <2>1
  <2>3. r \in {"dict", "conf", "script"}
    BY DEF Files
  <2>4. g \in State
    BY <2>3, ParseType
  <2>5. QED
    BY <2>2, <2>4, DeleteType
<1>3. QED
  BY <1>1, <1>2 DEF Answer

LEMMA WorkType == ASSUME TypeOK, Work PROVE TypeOK'
<1>1. PICK job, rest : job = Head(gcs.db) /\ rest = Tail(gcs.db)
  OBVIOUS
<1>2. job \in Jobs /\ rest \in Seq(Jobs)
  <2>1. gcs.db \in Seq(Jobs) /\ gcs.db # <<>>
    BY DEF TypeOK, State, Work
  <2>2. QED
    BY <1>1, <2>1, HeadTailProperties
<1>3. /\ job.op \in {"load", "saveDict"} => job.hash \in Dicts
      /\ job.op = "saveConf" => job.config \in Configs
  BY <1>2 DEF Jobs
<1>4. PICK g : g = [gcs EXCEPT !.db = rest]
  OBVIOUS
<1>5. g \in State
  BY <1>2, <1>4, NewJobs DEF TypeOK
<1>6. gcs' \in State
  <2>1. gcs' = g \/ gcs' = [g EXCEPT !.unsaved = TRUE]
    BY <1>1, <1>4 DEF Work
  <2>2. QED
    BY <1>5, <2>1, FlagTypes
<1>7. posted' \in Seq(Signals)
  <2>1. \/ posted' = posted
        \/ \E sig \in {"loaded", "missing", "failed"} :
             /\ job.op = "load"
             /\ posted' = Append(posted, [sig |-> sig, hash |-> job.hash])
        \/ /\ job.op = "saveConf"
           /\ posted' = Append(posted, [sig |-> "saved", config |-> job.config])
    BY <1>1 DEF Work
  <2>2. ASSUME job.op = "load", NEW sig \in {"loaded", "missing", "failed"}
        PROVE  [sig |-> sig, hash |-> job.hash] \in Signals
    BY <1>3, <2>2 DEF Signals
  <2>3. ASSUME job.op = "saveConf"
        PROVE  [sig |-> "saved", config |-> job.config] \in Signals
    BY <1>3, <2>3 DEF Signals
  <2>4. posted \in Seq(Signals)
    BY DEF TypeOK
  <2>5. QED
    BY <2>1, <2>2, <2>3, <2>4, AppendProperties, ZenonT(60)
<1>8. dicts' \subseteq Dicts /\ configs' \subseteq Configs
  BY <1>1, <1>3 DEF Work, TypeOK
<1>9. UNCHANGED <<node, held, events>>
  BY DEF Work
<1>10. QED
  BY <1>6, <1>7, <1>8, <1>9 DEF TypeOK

LEMMA DeliverType == ASSUME TypeOK, Deliver PROVE TypeOK'
<1>1. PICK m : m = Head(posted)
  OBVIOUS
<1>2. m \in Signals /\ Tail(posted) \in Seq(Signals)
  <2>1. posted \in Seq(Signals) /\ posted # <<>>
    BY DEF TypeOK, Deliver
  <2>2. QED
    BY <1>1, <2>1, HeadTailProperties
<1>3. gcs \in State
  BY DEF TypeOK
<1>4. CASE m.sig = "loaded" /\ gcs' = DictCacheLoaded(gcs, m.hash)
  <2>1. m.hash \in Dicts
    BY <1>2, <1>4 DEF Signals
  <2>2. SetTables(gcs, m.hash) \in State
    BY <1>3, <2>1, TablesType DEF Hash0
  <2>3. gcs' = gcs \/ gcs' = DictReceived(SetTables(gcs, m.hash), m.hash)
    BY <1>4 DEF DictCacheLoaded
  <2>4. gcs' \in State
    BY <1>3, <2>1, <2>2, <2>3, DictReceivedType
  <2>5. QED
    BY <1>2, <1>1, <2>4 DEF TypeOK, Deliver
<1>5. CASE gcs' = gcs \/ gcs' = Create(gcs, "dict")
  <2>1. gcs' \in State
    BY <1>3, <1>5, CreateType DEF Requests
  <2>2. QED
    BY <1>2, <1>1, <2>1 DEF TypeOK, Deliver
<1>6. CASE m.sig = "saved" /\ gcs' = [gcs EXCEPT !.configID = m.config]
  <2>1. m.config \in Configs
    BY <1>2, <1>6 DEF Signals
  <2>2. gcs' \in State
    BY <1>3, <1>6, <2>1, ZenonT(60) DEF State
  <2>3. QED
    BY <1>2, <1>1, <2>2 DEF TypeOK, Deliver
<1>7. QED
  BY <1>1, <1>4, <1>5, <1>6 DEF Deliver, DictCacheMissing

LEMMA EventType == ASSUME TypeOK, Event
                   PROVE  /\ events' \in 0 .. MaxEvents
                          /\ UNCHANGED <<posted, dicts, configs>>
  BY ConstantsAssumption DEF TypeOK, Event

\* The steps from outside: the node keeps its type, and so does gcs.
LEMMA OutsideType ==
  ASSUME TypeOK, Outside
  PROVE  Event /\ gcs' \in State /\ NodeType' /\ held' \subseteq Configs
<1>1. gcs \in State /\ NodeType /\ held \subseteq Configs /\ Junk \in Field0
  BY DEF TypeOK, NodeType, Field0
<1>2. NodeType' => Held(node') \in Configs
  BY HeldType DEF NodeType
<1>3. CASE Announce
  BY <1>1, <1>3, CreateType DEF Announce, Requests, NodeType
<1>4. CASE RemoteSave
  BY <1>1, <1>4, SaveType DEF RemoteSave, NodeType
<1>5. CASE OverhearIdent
  BY <1>1, <1>5, AnsweredType DEF OverhearIdent, NodeType
<1>6. CASE \E h \in Dicts, v \in Vals : Reflash(h, v)
  <2>1. PICK h \in Dicts, v \in Vals : Reflash(h, v)
    BY <1>6
  <2>2. NodeType'
    BY <1>1, <2>1 DEF Reflash, NodeType
  <2>3. gcs' \in State
    <3>1. gcs' = [gcs EXCEPT !.suspect = {"p", "s"}, !.overtaken = {"p", "s"}]
      BY <2>1 DEF Reflash
    <3>2. QED
      BY <1>1, <3>1, ZenonT(60) DEF State
  <2>4. held' \subseteq Configs
    BY <1>1, <1>2, <2>1, <2>2 DEF Reflash
  <2>5. QED
    BY <2>1, <2>2, <2>3, <2>4 DEF Reflash
<1>7. CASE \E v \in Vals, heard \in BOOLEAN : RemoteUpdate(v, heard)
  <2>1. PICK v \in Vals, heard \in BOOLEAN : RemoteUpdate(v, heard)
    BY <1>7
  <2>2. NodeType'
    BY <1>1, <2>1 DEF RemoteUpdate, NodeType
  <2>3. PICK h \in {gcs} \cup HearUpdate(gcs, "p", v) : gcs' = Missed(h, "p", v)
    BY <2>1 DEF RemoteUpdate
  <2>4. gcs' \in State
    BY <1>1, <2>3, HearType, MissedType DEF Field0
  <2>5. held' \subseteq Configs
    BY <1>1, <1>2, <2>1, <2>2 DEF RemoteUpdate
  <2>6. QED
    BY <2>1, <2>2, <2>4, <2>5 DEF RemoteUpdate
<1>8. CASE \E v \in Vals, heard \in BOOLEAN : RemoteScript(v, heard)
  <2>1. PICK v \in Vals, heard \in BOOLEAN : RemoteScript(v, heard)
    BY <1>8
  <2>2. NodeType'
    BY <1>1, <2>1 DEF RemoteScript, NodeType
  <2>3. PICK a, vs :
          /\ a = [gcs EXCEPT !.scriptValue = v, !.overtaken = @ \ {"s"}]
          /\ vs = [f \in DOMAIN gcs.values \cup {"s"} |->
                     IF f = "s" THEN v ELSE gcs.values[f]]
    OBVIOUS
  <2>4. PICK h \in {gcs, a, [ConfReceived(a, vs) EXCEPT !.values = Nothing]} :
          gcs' = Missed(h, "s", v)
    BY <2>1, <2>3 DEF RemoteScript
  <2>5. v \in Field0
    BY DEF Field0
  <2>6. a \in State
    BY <1>1, <2>3, ZenonT(60) DEF State
  <2>7. vs \in Values
    BY <1>1, <2>3, <2>5, ScriptValuesType
  <2>8. gcs' \in State
    BY <1>1, <2>4, <2>6, <2>7, EndOfValues, MissedType
  <2>9. held' \subseteq Configs
    BY <1>1, <1>2, <2>1, <2>2 DEF RemoteScript
  <2>10. QED
    BY <2>1, <2>2, <2>8, <2>9 DEF RemoteScript
<1>9. CASE \E heard \in BOOLEAN : RemoteScriptField(heard)
  <2>1. PICK heard \in BOOLEAN : RemoteScriptField(heard)
    BY <1>9
  <2>2. NodeType'
    BY <1>1, <2>1 DEF RemoteScriptField, NodeType
  <2>3. PICK h \in {gcs} \cup HearUpdate(gcs, "s", Junk) :
          gcs' = [h EXCEPT !.suspect = IF h.shown = gcs.shown THEN @ ELSE @ \cup {"s"}]
    BY <2>1 DEF RemoteScriptField
  <2>4. h \in State
    BY <1>1, <2>3, HearType
  <2>5. PICK u \in SUBSET {"p", "s"} :
          u = IF h.shown = gcs.shown THEN h.suspect ELSE h.suspect \cup {"s"}
    BY <2>4 DEF State
  <2>6. gcs' \in State
    <3>1. [h EXCEPT !.suspect = u] \in State
      BY <2>4, NewSuspect
    <3>2. QED
      BY <2>3, <2>5, <3>1
  <2>7. QED
    BY <1>1, <2>1, <2>2, <2>6 DEF RemoteScriptField
<1>10. CASE \E f \in {"dict", "conf", "script"} : Overhear(f)
  BY <1>1, <1>10, ParseType DEF Overhear, NodeType
<1>11. QED
  BY <1>3, <1>4, <1>5, <1>6, <1>7, <1>8, <1>9, <1>10 DEF Outside

LEMMA TypeInvariance == ASSUME TypeOK, [Next]_vars PROVE TypeOK'
<1>1. ASSUME gcs' \in State, RestUnchanged
      PROVE  TypeOK'
  BY <1>1 DEF RestUnchanged, TypeOK
<1>2. gcs \in State /\ NodeType
  BY DEF TypeOK, NodeType
<1>3. CASE Schedule
  BY <1>1, <1>2, <1>3, ScheduleType DEF Schedule
<1>4. CASE Send
  BY <1>1, <1>2, <1>4, SendType DEF Send
<1>5. CASE Answer
  BY <1>1, <1>2, <1>5, AnswerType DEF Answer
<1>6. CASE TransferFails
  <2>1. PICK r : gcs' = [Delete(gcs, r) EXCEPT !.spoilt = TRUE]
    BY <1>6 DEF TransferFails
  <2>2. gcs' \in State
    BY <1>2, <2>1, DeleteType, FlagTypes
  <2>3. QED
    BY <1>1, <1>6, <2>2 DEF TransferFails
<1>7. CASE Drop
  BY <1>1, <1>2, <1>7, DropType DEF Drop
<1>8. CASE Work
  BY <1>8, WorkType
<1>9. CASE Deliver
  BY <1>9, DeliverType
<1>10. CASE Outside
  BY <1>10, OutsideType, EventType DEF TypeOK, NodeType
<1>11. CASE UNCHANGED vars
  BY <1>11 DEF TypeOK, vars
<1>12. QED
  BY <1>3, <1>4, <1>5, <1>6, <1>7, <1>8, <1>9, <1>10, <1>11 DEF Next

\* Every variable of NodeConfig keeps its type: PApxNode, NodeItem and
\* NodeStorage save only what names a dictionary.
THEOREM TypeCorrect == Spec => []TypeOK
<1>1. Init => TypeOK
  BY InitType
<1>2. TypeOK /\ [Next]_vars => TypeOK'
  BY TypeInvariance
<1>3. QED
  BY <1>1, <1>2, PTL DEF Spec

-----------------------------------------------------------------------------
(* What is saved *)

\* The configuration that is shown
Cur(g) == [hash |-> g.dict, values |-> g.shown]

IsSave(job) == job.op = "saveConf"

\* What waits to be saved the node has had, or it is doubtful.
Sound(g, H) ==
    \A i \in DOMAIN g.db : IsSave(g.db[i]) => g.db[i].config \in H \cup g.doubtful

\* Of a valid node the last configuration that was sent to the database is the
\* one that is shown: it waits there, its answer waits (in q), or it was taken.
Named(g, q) ==
    g.valid /\ ~g.unsaved =>
      \/ \E i \in DOMAIN g.db :
           /\ IsSave(g.db[i]) /\ g.db[i].config = Cur(g)
           /\ \A j \in DOMAIN g.db : j > i => ~IsSave(g.db[j])
      \/ /\ \A j \in DOMAIN g.db : ~IsSave(g.db[j])
         /\ \/ \E i \in DOMAIN q :
                 /\ q[i].sig = "saved" /\ q[i].config = Cur(g)
                 /\ \A j \in DOMAIN q : j > i => q[j].sig # "saved"
            \/ /\ \A j \in DOMAIN q : q[j].sig # "saved"
               /\ g.configID \in {None, Cur(g)}

SavedInv ==
    /\ Held(node) \in held
    /\ configs \subseteq held \cup gcs.doubtful
    /\ Sound(gcs, held)
    /\ Named(gcs, posted)

\* Between g and r more requests to the database are made, the one with the
\* number n, if any, to save a configuration.
Grows(g, r, n) ==
    /\ Len(r.db) >= Len(g.db)
    /\ \A i \in 1 .. Len(g.db) : r.db[i] = g.db[i]
    /\ \A i \in 1 .. Len(r.db) : i > Len(g.db) /\ i # n => ~IsSave(r.db[i])

\* Nothing is saved.  What is shown stays, is not valid or is unsaved.
Quiet(g, r) ==
    /\ Grows(g, r, 0)
    /\ r.doubtful = g.doubtful
    /\ r.valid /\ ~r.unsaved => /\ g.valid /\ ~g.unsaved
                                /\ r.dict = g.dict /\ r.shown = g.shown
                                /\ r.configID = g.configID

\* What is shown is saved.  It is what the node n has, or it is doubtful.
Saved(g, r, n) ==
    /\ \E k \in 1 .. Len(r.db) :
         /\ k > Len(g.db) /\ Grows(g, r, k) /\ IsSave(r.db[k])
         /\ r.db[k].config \in r.doubtful \cup {Held(n)}
         /\ r.valid /\ ~r.unsaved => r.db[k].config = Cur(r)
    /\ g.doubtful \subseteq r.doubtful

\* All that is spoken of here stays.
Still(g, r) ==
    /\ r.db = g.db /\ r.doubtful = g.doubtful /\ r.valid = g.valid
    /\ r.unsaved = g.unsaved /\ r.dict = g.dict /\ r.shown = g.shown
    /\ r.configID = g.configID

LEMMA DbType ==
  ASSUME NEW g \in State
  PROVE  /\ g.db \in Seq(Jobs) /\ Len(g.db) \in Nat /\ DOMAIN g.db = 1 .. Len(g.db)
         /\ g.doubtful \subseteq Configs
<1>1. g.db \in Seq(Jobs) /\ g.doubtful \subseteq Configs
  BY DEF State
<1>2. QED
  BY <1>1

LEMMA QuietSound ==
  ASSUME NEW g \in State, NEW r \in State, NEW H, NEW q, Quiet(g, r), Sound(g, H), Named(g, q)
  PROVE  Sound(r, H) /\ Named(r, q)
<1>1. /\ Len(g.db) \in Nat /\ DOMAIN g.db = 1 .. Len(g.db)
      /\ Len(r.db) \in Nat /\ DOMAIN r.db = 1 .. Len(r.db)
  BY DbType
<1>2. /\ Len(r.db) >= Len(g.db)
      /\ \A i \in 1 .. Len(g.db) : r.db[i] = g.db[i]
      /\ \A i \in 1 .. Len(r.db) : i > Len(g.db) => ~IsSave(r.db[i])
  BY <1>1 DEF Quiet, Grows
<1>3. \A i \in DOMAIN r.db : IsSave(r.db[i]) => i \in DOMAIN g.db /\ r.db[i] = g.db[i]
  BY <1>1, <1>2
<1>4. \A i \in DOMAIN g.db : i \in DOMAIN r.db /\ r.db[i] = g.db[i]
  BY <1>1, <1>2
<1>5. Sound(r, H)
  BY <1>3 DEF Sound, Quiet
<1>6. Named(r, q)
  <2> SUFFICES ASSUME r.valid /\ ~r.unsaved
               PROVE  Named(r, q)
    BY DEF Named
  <2>1. g.valid /\ ~g.unsaved /\ Cur(r) = Cur(g) /\ r.configID = g.configID
    BY DEF Quiet, Cur
  <2>2. CASE \E i \in DOMAIN g.db :
               /\ IsSave(g.db[i]) /\ g.db[i].config = Cur(g)
               /\ \A j \in DOMAIN g.db : j > i => ~IsSave(g.db[j])
    <3>1. PICK i \in DOMAIN g.db :
               /\ IsSave(g.db[i]) /\ g.db[i].config = Cur(g)
               /\ \A j \in DOMAIN g.db : j > i => ~IsSave(g.db[j])
      BY <2>2
    <3>2. i \in DOMAIN r.db /\ IsSave(r.db[i]) /\ r.db[i].config = Cur(r)
      BY <1>4, <2>1, <3>1
    <3>3. \A j \in DOMAIN r.db : j > i => ~IsSave(r.db[j])
      BY <1>3, <3>1
    <3>4. QED
      BY <3>2, <3>3 DEF Named
  <2>3. CASE \A j \in DOMAIN g.db : ~IsSave(g.db[j])
    <3>1. \A j \in DOMAIN r.db : ~IsSave(r.db[j])
      BY <1>3, <2>3
    <3>2. QED
      BY <2>1, <2>3, <3>1 DEF Named
  <2>4. QED
    BY <2>1, <2>2, <2>3 DEF Named
<1>7. QED
  BY <1>5, <1>6

LEMMA SavedSound ==
  ASSUME NEW g \in State, NEW r \in State, NEW n, NEW H, NEW q, Saved(g, r, n),
         Sound(g, H), Held(n) \in H
  PROVE  Sound(r, H) /\ Named(r, q)
<1>1. /\ Len(g.db) \in Nat /\ DOMAIN g.db = 1 .. Len(g.db)
      /\ Len(r.db) \in Nat /\ DOMAIN r.db = 1 .. Len(r.db)
  BY DbType
<1>2. PICK k \in 1 .. Len(r.db) :
         /\ k > Len(g.db) /\ Grows(g, r, k) /\ IsSave(r.db[k])
         /\ r.db[k].config \in r.doubtful \cup {Held(n)}
         /\ r.valid /\ ~r.unsaved => r.db[k].config = Cur(r)
  BY DEF Saved
<1>3. \A i \in DOMAIN r.db : IsSave(r.db[i]) => i = k \/ (i \in DOMAIN g.db /\ r.db[i] = g.db[i])
  BY <1>1, <1>2 DEF Grows
<1>4. Sound(r, H)
  BY <1>2, <1>3 DEF Sound, Saved
<1>5. \A i \in DOMAIN r.db : i > k => ~IsSave(r.db[i])
  BY <1>1, <1>2 DEF Grows
<1>6. Named(r, q)
  BY <1>1, <1>2, <1>5 DEF Named
<1>7. QED
  BY <1>4, <1>6

\* Steps join.
LEMMA StillQuiet ==
  ASSUME NEW g \in State, NEW r, Still(g, r)  PROVE Quiet(g, r)
<1>1. Len(g.db) \in Nat
  BY DbType
<1>2. Grows(g, r, 0)
  BY <1>1 DEF Still, Grows
<1>3. QED
  BY <1>2 DEF Still, Quiet

LEMMA StillTwice ==
  ASSUME NEW g, NEW h, NEW r, Still(g, h), Still(h, r)  PROVE Still(g, r)
  BY DEF Still

LEMMA QuietTwice ==
  ASSUME NEW g \in State, NEW h \in State, NEW r \in State, Quiet(g, h), Quiet(h, r)
  PROVE  Quiet(g, r)
<1>1. Len(g.db) \in Nat /\ Len(h.db) \in Nat /\ Len(r.db) \in Nat
  BY DbType
<1>2. Grows(g, r, 0)
  BY <1>1 DEF Quiet, Grows
<1>3. QED
  BY <1>2 DEF Quiet

LEMMA QuietSaved ==
  ASSUME NEW g \in State, NEW h \in State, NEW r \in State, NEW n, Quiet(g, h), Saved(h, r, n)
  PROVE  Saved(g, r, n)
<1>1. Len(g.db) \in Nat /\ Len(h.db) \in Nat /\ Len(r.db) \in Nat
  BY DbType
<1>2. PICK k \in 1 .. Len(r.db) :
         /\ k > Len(h.db) /\ Grows(h, r, k) /\ IsSave(r.db[k])
         /\ r.db[k].config \in r.doubtful \cup {Held(n)}
         /\ r.valid /\ ~r.unsaved => r.db[k].config = Cur(r)
  BY DEF Saved
<1>3. /\ Len(h.db) >= Len(g.db)
      /\ \A i \in 1 .. Len(g.db) : h.db[i] = g.db[i]
      /\ \A i \in 1 .. Len(h.db) : i > Len(g.db) => ~IsSave(h.db[i])
  BY <1>1 DEF Quiet, Grows
<1>4. /\ Len(r.db) >= Len(h.db)
      /\ \A i \in 1 .. Len(h.db) : r.db[i] = h.db[i]
      /\ \A i \in 1 .. Len(r.db) : i > Len(h.db) /\ i # k => ~IsSave(r.db[i])
  BY <1>2 DEF Grows
<1>5. /\ k > Len(g.db) /\ Len(r.db) >= Len(g.db)
      /\ \A i \in 1 .. Len(g.db) : r.db[i] = g.db[i]
  BY <1>1, <1>2, <1>3, <1>4
<1>6. ASSUME NEW i \in 1 .. Len(r.db), i > Len(g.db), i # k
      PROVE  ~IsSave(r.db[i])
  <2>1. CASE i > Len(h.db)
    BY <1>4, <1>6, <2>1
  <2>2. CASE ~(i > Len(h.db))
    BY <1>1, <1>3, <1>4, <1>6, <2>2
  <2>3. QED
    BY <2>1, <2>2
<1>7. Grows(g, r, k)
  BY <1>5, <1>6 DEF Grows
<1>8. QED
  BY <1>2, <1>5, <1>7 DEF Saved, Quiet

LEMMA SavedQuiet ==
  ASSUME NEW g \in State, NEW h \in State, NEW r \in State, NEW n, Saved(g, h, n), Quiet(h, r)
  PROVE  Saved(g, r, n)
<1>1. Len(g.db) \in Nat /\ Len(h.db) \in Nat /\ Len(r.db) \in Nat
  BY DbType
<1>2. PICK k \in 1 .. Len(h.db) :
         /\ k > Len(g.db) /\ Grows(g, h, k) /\ IsSave(h.db[k])
         /\ h.db[k].config \in h.doubtful \cup {Held(n)}
         /\ h.valid /\ ~h.unsaved => h.db[k].config = Cur(h)
  BY DEF Saved
<1>3. k \in 1 .. Len(r.db) /\ r.db[k] = h.db[k]
  BY <1>1, <1>2 DEF Quiet, Grows
<1>4. Grows(g, r, k)
  BY <1>1, <1>2 DEF Quiet, Grows
<1>5. r.valid /\ ~r.unsaved => r.db[k].config = Cur(r)
  BY <1>2, <1>3 DEF Quiet, Cur
<1>6. QED
  BY <1>2, <1>3, <1>4, <1>5 DEF Saved, Quiet

-----------------------------------------------------------------------------
(* What each handler saves *)

LEMMA StateNames == ASSUME NEW g \in State PROVE DOMAIN g = Names
  BY DEF State, Names

LEMMA NotValidQuiet ==
  ASSUME NEW g \in State, NEW r, r.db = g.db, r.doubtful = g.doubtful, ~r.valid \/ r.unsaved
  PROVE  Quiet(g, r)
<1>1. Len(g.db) \in Nat
  BY DbType
<1>2. QED
  BY <1>1 DEF Quiet, Grows

LEMMA CreateStill == ASSUME NEW g \in State, NEW r PROVE Still(g, Create(g, r))
  BY DEF State, Create, Still

LEMMA DeleteStill == ASSUME NEW g \in State, NEW r PROVE Still(g, Delete(g, r))
  BY DEF State, Delete, Still

LEMMA ExecQuiet ==
  ASSUME NEW g \in State, NEW job \in Jobs, ~IsSave(job)
  PROVE  Quiet(g, Exec(g, job))
<1>1. PICK r : r = Exec(g, job)
  OBVIOUS
<1>2. /\ r.db = Append(g.db, job) /\ r.doubtful = g.doubtful /\ r.valid = g.valid
      /\ r.unsaved = g.unsaved /\ r.dict = g.dict /\ r.shown = g.shown
      /\ r.configID = g.configID
  BY <1>1 DEF State, Exec
<1>3. g.db \in Seq(Jobs) /\ Len(g.db) \in Nat
  BY DbType
<1>4. /\ Len(r.db) = Len(g.db) + 1 /\ r.db[Len(g.db) + 1] = job
      /\ \A i \in 1 .. Len(g.db) : r.db[i] = g.db[i]
  BY <1>2, <1>3, AppendProperties
<1>5. Grows(g, r, 0)
  BY <1>3, <1>4 DEF Grows
<1>6. QED
  BY <1>1, <1>2, <1>5 DEF Quiet

\* A node that is valid and has missed nothing is shown as it is.
LEMMA CurHeld ==
  ASSUME NEW g \in State, NEW n, DictInv(g), ShownInv(g, n), ScriptInv(g, n),
         g.valid, g.suspect = {}
  PROVE  Cur(g) = Held(n)
<1>1. g.dict = n.hash /\ DOMAIN g.shown = Fields(n.hash) /\ g.shown["p"] = n.p
  BY DEF DictInv, ShownInv
<1>2. "s" \in DOMAIN g.shown => g.shown["s"] = n.file
  BY DEF ScriptInv
<1>3. g.shown \in [DOMAIN g.shown -> Field0]
  BY ValuesFields DEF State
<1>4. g.shown = [f \in Fields(n.hash) |-> IF f = "p" THEN n.p ELSE n.file]
  <2>1. \A f \in Fields(n.hash) : f = "p" \/ f = "s"
    BY DEF Fields
  <2>2. \A f \in Fields(n.hash) : g.shown[f] = IF f = "p" THEN n.p ELSE n.file
    BY <1>1, <1>2, <2>1
  <2>3. QED
    BY <1>1, <1>3, <2>2
<1>5. QED
  BY <1>1, <1>4 DEF Cur, Held

LEMMA SaveSaved ==
  ASSUME NEW g \in State, g.dict # None, NEW n,
         g.valid /\ g.suspect = {} => Cur(g) = Held(n)
  PROVE  Saved(g, SaveNodeConfig(g), n)
<1>1. PICK r, config, job : /\ r = SaveShown(g) /\ config = Cur(g)
                            /\ job = [op |-> "saveConf", config |-> config]
  OBVIOUS
<1>2. SaveNodeConfig(g) = r
  BY <1>1 DEF SaveNodeConfig
<1>3. /\ r.db = Append(g.db, job)
      /\ r.dict = g.dict /\ r.shown = g.shown
      /\ r.doubtful = IF g.valid /\ g.suspect = {} THEN g.doubtful ELSE g.doubtful \cup {config}
  BY <1>1 DEF State, SaveShown, Exec, Cur
<1>4. job \in Jobs /\ IsSave(job) /\ job.config = Cur(r)
  BY <1>1, <1>3 DEF Jobs, Configs, Cur, State, IsSave
<1>5. g.db \in Seq(Jobs) /\ Len(g.db) \in Nat
  BY DbType
<1>6. /\ Len(r.db) = Len(g.db) + 1 /\ r.db[Len(g.db) + 1] = job
      /\ \A i \in 1 .. Len(g.db) : r.db[i] = g.db[i]
  BY <1>3, <1>4, <1>5, AppendProperties
<1>7. Grows(g, r, Len(g.db) + 1)
  BY <1>5, <1>6 DEF Grows
<1>8. job.config \in r.doubtful \cup {Held(n)}
  BY <1>1, <1>3, <1>4
<1>9. g.doubtful \subseteq r.doubtful
  BY <1>3
<1>10. QED
  BY <1>2, <1>4, <1>5, <1>6, <1>7, <1>8, <1>9 DEF Saved

LEMMA RequestConfStill == ASSUME NEW g \in State PROVE Still(g, RequestConf(g))
<1>1. PICK b \in BOOLEAN :
        b = (g.spoilt \/ ("conf" \in Range(g.created) \cup Range(g.requests)
                           /\ g.tables \in Scripted))
  OBVIOUS
<1>2. PICK h : h = [g EXCEPT !.reqConf = TRUE, !.spoilt = b]
  OBVIOUS
<1>3. h \in State /\ Still(g, h)
  BY <1>2, ZenonT(60) DEF State, Still
<1>4. RequestConf(g) = Create(h, "conf")
  BY <1>1, <1>2 DEF RequestConf, State
<1>5. QED
  BY <1>3, <1>4, CreateStill, StillTwice

LEMMA DictReceivedQuiet ==
  ASSUME NEW g \in State, NEW h \in Dicts  PROVE Quiet(g, DictReceived(g, h))
<1>1. PICK c : c = Clear(g)
  OBVIOUS
<1>2. PICK v : v = [f \in Fields(h) |-> None]
  OBVIOUS
<1>3. v \in Values
  <2>1. v \in [Fields(h) -> Field0]
    BY <1>2 DEF Field0
  <2>2. QED
    BY <2>1, FieldsType, ValuesType
<1>4. PICK d : d = [c EXCEPT !.dict = h, !.shown = v]
  OBVIOUS
<1>5. c \in State
  BY <1>1, ClearType
<1>6. d \in State
  BY <1>3, <1>4, <1>5, ZenonT(60) DEF State
<1>7. d.db = g.db /\ d.doubtful = g.doubtful /\ ~d.valid
  BY <1>1, <1>4 DEF State, Clear
<1>8. PICK job : job = [op |-> "saveDict", hash |-> h]
  OBVIOUS
<1>9. job \in Jobs /\ ~IsSave(job)
  BY <1>8 DEF Jobs, IsSave
<1>10. PICK e : e = Exec(d, job)
  OBVIOUS
<1>11. e \in State /\ RequestConf(e) \in State
  BY <1>6, <1>9, <1>10, ExecType, RequestConfType
<1>12. Quiet(g, d) /\ Quiet(d, e) /\ Quiet(e, RequestConf(e))
  BY <1>6, <1>7, <1>9, <1>10, <1>11, NotValidQuiet, ExecQuiet, RequestConfStill, StillQuiet
<1>13. DictReceived(g, h) = g \/ DictReceived(g, h) = RequestConf(e)
  BY <1>1, <1>2, <1>4, <1>8, <1>10 DEF DictReceived
<1>14. Quiet(g, g)
  <2>1. Still(g, g)
    BY DEF Still
  <2>2. QED
    BY <2>1, StillQuiet
<1>15. QED
  BY <1>6, <1>11, <1>12, <1>13, <1>14, QuietTwice

LEMMA IdentReceivedQuiet ==
  ASSUME NEW g \in State, NEW h \in Dicts, NEW same
  PROVE  Quiet(g, IdentReceived(g, h, same))
<1>1. PICK k : k = [g EXCEPT !.dictHash = h]
  OBVIOUS
<1>2. Still(g, k) /\ k \in State
  BY <1>1, ZenonT(60) DEF State, Still
<1>3. PICK i : i = [k EXCEPT !.ident = h, !.spoilt = FALSE]
  OBVIOUS
<1>4. i \in State
  BY <1>2, <1>3, ZenonT(60) DEF State
<1>5. PICK c : c = Clear(i)
  OBVIOUS
<1>6. c \in State
  BY <1>4, <1>5, ClearType
<1>7. c.dictHash = h /\ c.db = g.db /\ c.doubtful = g.doubtful /\ ~c.valid
  BY <1>1, <1>3, <1>5 DEF Clear, State
<1>8. \/ IdentReceived(g, h, same) = k
      \/ IdentReceived(g, h, same) = RequestDict(c)
  BY <1>1, <1>3, <1>5 DEF IdentReceived
<1>9. PICK d : d = [c EXCEPT !.skipCache = FALSE]
  OBVIOUS
<1>10. d \in State /\ Still(c, d)
  BY <1>6, <1>9, ZenonT(60) DEF State, Still
<1>11. PICK job : job = [op |-> "load", hash |-> h]
  OBVIOUS
<1>12. job \in Jobs /\ ~IsSave(job)
  BY <1>11 DEF Jobs, IsSave
<1>13. RequestDict(c) = Create(d, "dict") \/ RequestDict(c) = Exec(c, job)
  BY <1>7, <1>9, <1>11 DEF RequestDict
<1>14. RequestDict(c) \in State
  BY <1>6, <1>7, RequestDictType
<1>15. Quiet(c, RequestDict(c))
  <2>1. Still(c, Create(d, "dict"))
    BY <1>10, CreateStill, StillTwice
  <2>2. QED
    BY <1>6, <1>12, <1>13, <2>1, StillQuiet, ExecQuiet
<1>16. Quiet(g, c) /\ Quiet(g, k)
  BY <1>2, <1>7, NotValidQuiet, StillQuiet
<1>17. QED
  BY <1>6, <1>8, <1>14, <1>15, <1>16, QuietTwice

LEMMA AnsweredQuiet ==
  ASSUME NodeType, NEW g \in State, NEW same  PROVE Quiet(g, Ident(g, same))
<1>1. PICK d1, d2, d3, u, i :
        /\ d1 = Delete(g, "dict") /\ d2 = Delete(d1, "conf") /\ d3 = Delete(d2, "script")
        /\ u = UpdateFiles(g, Files(node.hash)) /\ i = IdentReceived(u, node.hash, same)
  OBVIOUS
<1>2. d1 \in State /\ d2 \in State /\ d3 \in State
  BY <1>1, DeleteType
<1>3. Still(g, d3)
  BY <1>1, <1>2, DeleteStill, StillTwice
<1>4. Files(node.hash) \in SUBSET {"dict", "conf", "script"} /\ node.hash \in Dicts
  BY DEF Files, NodeType
<1>5. PICK e : e = [d3 EXCEPT !.files = Files(node.hash)]
  OBVIOUS
<1>6. e \in State
  BY <1>2, <1>4, <1>5, NewFiles
<1>7. Still(d3, e)
  BY <1>2, <1>5 DEF State, Still
<1>8. u = g \/ u = e
  BY <1>1, <1>5 DEF UpdateFiles
<1>9. u \in State /\ Quiet(g, u)
  <2>1. Still(g, g)
    BY DEF Still
  <2>2. QED
    BY <1>3, <1>6, <1>7, <1>8, <2>1, StillTwice, StillQuiet
<1>10. i \in State /\ Quiet(u, i)
  BY <1>1, <1>4, <1>9, IdentReceivedType, IdentReceivedQuiet
<1>11. Delete(i, "ident") \in State /\ Quiet(i, Delete(i, "ident"))
  BY <1>10, DeleteType, DeleteStill, StillQuiet
<1>12. Ident(g, same) = Delete(i, "ident")
  BY <1>1 DEF Ident
<1>13. QED
  BY <1>9, <1>10, <1>11, <1>12, QuietTwice

\* The values are taken, and when they are all there for the first time they are
\* saved; or they are marked as unsaved.
LEMMA ConfReceivedSaves ==
  ASSUME NEW g \in State, NEW n, NEW vs \in Values, DictInv(g), ShownInv(g, n),
         g.dict # None => ValueFits(g, n, vs), FileFits(g, n, vs),
         NEW r, r = ConfReceived(g, vs)
  PROVE  Quiet(g, r) \/ Saved(g, r, n)
<1>0. DOMAIN g = Names
  BY StateNames
<1>1. PICK k \in State : k = Taken(g, vs)
  BY TakenType
<1>2. /\ k.db = g.db /\ k.doubtful = g.doubtful /\ k.valid = g.valid
      /\ k.unsaved = g.unsaved /\ k.dict = g.dict /\ k.configID = g.configID
      /\ DOMAIN k = Names
  BY <1>0, <1>1 DEF Names, Taken
<1>3. \/ r = g
      \/ r = [k EXCEPT !.unsaved = @ \/ k.shown # g.shown] /\ g.valid
      \/ r = SaveNodeConfig([k EXCEPT !.valid = TRUE]) /\ ~g.valid /\ g.dict # None
      \/ r = k /\ ~g.valid
  BY <1>1 DEF ConfReceived, Validate, Taken
<1>4. CASE r = g
  BY <1>4, StillQuiet DEF Still
<1>5. CASE r = [k EXCEPT !.unsaved = @ \/ k.shown # g.shown] /\ g.valid
  <2>1. /\ r.db = g.db /\ r.doubtful = g.doubtful /\ r.valid = g.valid
        /\ r.dict = g.dict /\ r.configID = g.configID /\ r.shown = k.shown
        /\ ~r.unsaved => ~g.unsaved /\ k.shown = g.shown
    BY <1>2, <1>5 DEF Names
  <2>2. Len(g.db) \in Nat
    BY DbType
  <2>3. Grows(g, r, 0)
    BY <2>1, <2>2 DEF Grows
  <2>4. QED
    BY <2>1, <2>3 DEF Quiet
<1>6. CASE r = k /\ ~g.valid
  BY <1>2, <1>6, NotValidQuiet
<1>7. CASE r = SaveNodeConfig([k EXCEPT !.valid = TRUE]) /\ ~g.valid /\ g.dict # None
  <2>1. PICK w : w = [k EXCEPT !.valid = TRUE]
    OBVIOUS
  <2>2. /\ w \in State /\ w.dict = g.dict /\ w.db = g.db /\ w.doubtful = g.doubtful
    BY <1>2, <2>1, ZenonT(60) DEF State
  <2>3. Same(w, r)
    BY <1>7, <2>1, <2>2, SaveSame, StateNames
  <2>4. ScriptInv(g, n)
    BY <1>7 DEF ScriptInv
  <2>5. DictInv(r) /\ ShownInv(r, n) /\ ScriptInv(r, n)
    BY <1>0, <2>4, ConfFits
  <2>6. DictInv(w) /\ ShownInv(w, n) /\ ScriptInv(w, n)
    BY <2>3, <2>5 DEF Same, DictInv, ShownInv, ScriptInv
  <2>7. w.valid /\ w.suspect = {} => Cur(w) = Held(n)
    BY <2>2, <2>6, CurHeld
  <2>8. Saved(w, r, n)
    BY <1>7, <2>1, <2>2, <2>7, SaveSaved
  <2>9. QED
    BY <2>2, <2>8 DEF Saved, Grows
<1>8. QED
  BY <1>3, <1>4, <1>5, <1>6, <1>7

\* The same, and the values that were kept are forgotten
LEMMA ScriptSaves ==
  ASSUME NEW g \in State, NEW n, NEW v \in Field0, v = n.file,
         DictInv(g), ValuesInv(g, n), ShownInv(g, n),
         NEW vs, vs = [f \in DOMAIN g.values \cup {"s"} |-> IF f = "s" THEN v ELSE g.values[f]],
         NEW r, r = [ConfReceived(g, vs) EXCEPT !.values = Nothing]
  PROVE  r \in State /\ (Quiet(g, r) \/ Saved(g, r, n))
<1>1. vs \in Values
  BY ScriptValuesType
<1>2. (g.dict # None => ValueFits(g, n, vs)) /\ FileFits(g, n, vs)
  BY ScriptFacts
<1>3. PICK c : c = ConfReceived(g, vs)
  OBVIOUS
<1>4. c \in State
  BY <1>1, <1>3, ConfReceivedType
<1>5. Quiet(g, c) \/ Saved(g, c, n)
  BY <1>1, <1>2, <1>3, ConfReceivedSaves
<1>6. r = [c EXCEPT !.values = Nothing]
  BY <1>3
<1>7. r \in State
  BY <1>4, <1>6, NothingType, NewValues
<1>8. Still(c, r)
  BY <1>4, <1>6 DEF State, Still
<1>9. QED
  BY <1>4, <1>5, <1>7, <1>8, StillQuiet, QuietTwice, SavedQuiet

LEMMA ParsedSaves ==
  ASSUME NodeType, NEW g \in State, Fit(g, node), NEW v \in Field0, NEW s \in Field0,
         g.tables # None, node.hash = g.dictHash, g.dict # None => v = node.p /\ v \in Vals,
         NEW r, r = ConfParsed(g, v, s)
  PROVE  Quiet(g, r) \/ Saved(g, r, node)
<1>1. PICK k : k = ParsedState(g, s)
  OBVIOUS
<1>2. PICK vs : vs = ParsedValues(g, v)
  OBVIOUS
<1>3. /\ DictInv(k) /\ ShownInv(k, node)
      /\ k.dict # None => ValueFits(k, node, vs)
      /\ ~k.scriptField => FileFits(k, node, vs)
      /\ \/ ~k.scriptField /\ r = ConfReceived(k, vs)
         \/ r = Create([k EXCEPT !.values = vs], "script")
         \/ r = [k EXCEPT !.values = vs]
  BY <1>1, <1>2, ParsedFacts
<1>4. vs \in Values
  <2>1. vs \in [Fields(g.tables) -> Field0]
    BY <1>2 DEF ParsedValues, Field0
  <2>2. QED
    BY <2>1, FieldsType, ValuesType
<1>5. Still(g, k)
  BY <1>1 DEF State, ParsedState, Still
<1>6. k \in State
  BY <1>1, ParsedStateType
<1>7. PICK q : q = [k EXCEPT !.values = vs]
  OBVIOUS
<1>8. q \in State
  BY <1>4, <1>6, <1>7, NewValues
<1>9. Still(g, q)
  <2>1. Still(k, q)
    BY <1>6, <1>7 DEF State, Still
  <2>2. QED
    BY <1>5, <2>1, StillTwice
<1>10. CASE r = q \/ r = Create(q, "script")
  BY <1>8, <1>9, <1>10, CreateStill, StillTwice, StillQuiet
<1>11. CASE ~k.scriptField /\ r = ConfReceived(k, vs)
  <2>1. Quiet(k, r) \/ Saved(k, r, node)
    BY <1>3, <1>4, <1>6, <1>11, ConfReceivedSaves
  <2>2. r \in State
    BY <1>4, <1>6, <1>11, ConfReceivedType
  <2>3. QED
    BY <1>5, <1>6, <2>1, <2>2, StillQuiet, QuietTwice, QuietSaved
<1>12. QED
  BY <1>3, <1>7, <1>10, <1>11

LEMMA ParseSaves ==
  ASSUME NodeType, NEW g \in State, Fit(g, node), NEW f \in {"dict", "conf", "script"},
         NEW r \in Parse(g, f)
  PROVE  Quiet(g, r) \/ Saved(g, r, node)
<1>1. /\ node.hash \in Dicts /\ node.hash \in Hash0 /\ None \in Hash0
      /\ node.p \in Field0 /\ node.field \in Field0 /\ node.file \in Field0
      /\ Junk \in Field0 /\ node.p \in Vals /\ node.hash # None
  BY ConstantsAssumption DEF NodeType, Hash0, Field0
<1>2. r \in State
  BY ParseType
<1>3. CASE f = "dict"
  <2>1. r = ParseDict(g)
    BY <1>3 DEF Parse
  <2>2. PICK t : t = SetTables(g, None)
    OBVIOUS
  <2>3. PICK u : u = SetTables(g, node.hash)
    OBVIOUS
  <2>4. t \in State /\ u \in State
    BY <1>1, <2>2, <2>3, TablesType
  <2>5. Still(g, t) /\ Still(g, u)
    BY <2>2, <2>3 DEF State, SetTables, Still
  <2>6. r = [t EXCEPT !.spoilt = TRUE] \/ r = DictReceived(u, node.hash)
    BY <2>1, <2>2, <2>3 DEF ParseDict
  <2>7. CASE r = [t EXCEPT !.spoilt = TRUE]
    <3>1. Still(t, r)
      BY <2>4, <2>7 DEF State, Still
    <3>2. QED
      BY <2>5, <3>1, StillTwice, StillQuiet
  <2>8. CASE r = DictReceived(u, node.hash)
    BY <1>1, <1>2, <2>4, <2>5, <2>8, StillQuiet, DictReceivedQuiet, QuietTwice
  <2>9. QED
    BY <2>6, <2>7, <2>8
<1>4. CASE f = "conf"
  <2>1. r \in ParseConf(g)
    BY <1>4 DEF Parse
  <2>2. PICK e : e = ConfError(g)
    OBVIOUS
  <2>3. Still(g, e) /\ e \in State
    BY <2>2, ErrorType, ZenonT(60) DEF State, ConfError, Still
  <2>4. CASE node.hash # g.dictHash \/ g.tables = None
    <3>1. ParseConf(g) = {ConfError(g)}
      BY <1>1, <2>4 DEF ParseConf
    <3>2. QED
      BY <2>1, <2>2, <2>3, <3>1, StillQuiet
  <2>5. CASE node.hash = g.dictHash /\ g.tables = node.hash
    <3>1. r = ConfParsed(g, node.p, node.field)
      BY <1>1, <2>1, <2>5 DEF ParseConf
    <3>2. QED
      BY <1>1, <2>5, <3>1, ParsedSaves
  <2>6. CASE node.hash = g.dictHash /\ g.tables # None /\ g.tables # node.hash
    <3>1. g.dict = None
      BY <2>6 DEF Fit, DictInv
    <3>2. \/ r = e
          \/ r = ConfParsed(g, Junk, Junk)
          \/ r = [e EXCEPT !.scriptField = TRUE, !.scriptValue = Junk]
      BY <2>1, <2>2, <2>6 DEF ParseConf
    <3>3. CASE r = ConfParsed(g, Junk, Junk)
      BY <1>1, <2>6, <3>1, <3>3, ParsedSaves
    <3>4. CASE r = e
      BY <2>3, <3>4, StillQuiet
    <3>5. CASE r = [e EXCEPT !.scriptField = TRUE, !.scriptValue = Junk]
      <4>1. Still(e, r)
        BY <2>3, <3>5 DEF State, Still
      <4>2. QED
        BY <2>3, <4>1, StillTwice, StillQuiet
    <3>6. QED
      BY <3>2, <3>3, <3>4, <3>5
  <2>7. QED
    BY <2>4, <2>5, <2>6
<1>5. CASE f = "script"
  <2>1. r = ParseScript(g)
    BY <1>5 DEF Parse
  <2>2. PICK b \in BOOLEAN : b = (g.spoilt \/ g.scriptField)
    OBVIOUS
  <2>3. PICK a : a = [g EXCEPT !.overtaken = @ \ {"s"}]
    OBVIOUS
  <2>4. a \in State /\ Still(g, a)
    BY <2>3, ZenonT(60) DEF State, Still
  <2>5. /\ a.values = g.values /\ a.source = g.source
        /\ a.overtaken = g.overtaken \ {"s"} /\ a.dictHash = g.dictHash
        /\ a.tables = g.tables /\ a.scriptField = g.scriptField
        /\ a.ident = g.ident /\ a.suspect = g.suspect /\ a.shownOf = g.shownOf
    BY <2>3 DEF State
  <2>6. DictInv(a) /\ ValuesInv(a, node) /\ ShownInv(a, node)
    BY <2>4, <2>5 DEF Fit, DictInv, ValuesInv, ShownInv, Still
  <2>7. PICK vs : vs = [x \in DOMAIN a.values \cup {"s"} |->
                          IF x = "s" THEN node.file ELSE a.values[x]]
    OBVIOUS
  <2>8. \/ r = [g EXCEPT !.spoilt = b]
        \/ r = [ConfReceived(a, vs) EXCEPT !.values = Nothing]
    BY <2>1, <2>2, <2>3, <2>5, <2>7 DEF ParseScript
  <2>9. CASE r = [g EXCEPT !.spoilt = b]
    <3>1. Still(g, r)
      BY <2>9 DEF State, Still
    <3>2. QED
      BY <3>1, StillQuiet
  <2>10. CASE r = [ConfReceived(a, vs) EXCEPT !.values = Nothing]
    <3>1. Quiet(a, r) \/ Saved(a, r, node)
      BY <1>1, <2>4, <2>6, <2>7, <2>10, ScriptSaves
    <3>2. QED
      BY <1>2, <2>4, <3>1, StillQuiet, QuietTwice, QuietSaved
  <2>11. QED
    BY <2>8, <2>9, <2>10
<1>6. QED
  BY <1>3, <1>4, <1>5

\* Values of another GCS are marked as unsaved.
LEMMA HearQuiet ==
  ASSUME NEW g \in State, NEW f, NEW v, NEW h \in {g} \cup HearUpdate(g, f, v)
  PROVE  Quiet(g, h)
<1>1. CASE h = g
  BY <1>1, StillQuiet DEF Still
<1>2. ASSUME NEW x, NEW w, h = Shows(g, x, w) \/ h = Suspects(Shows(g, x, w), x)
      PROVE  Quiet(g, h)
  <2>1. PICK k : k = Shows(g, x, w)
    OBVIOUS
  <2>2. k.db = g.db /\ k.doubtful = g.doubtful /\ k.unsaved /\ DOMAIN k = Names
    BY <2>1 DEF State, Shows, Names
  <2>3. h.db = g.db /\ h.doubtful = g.doubtful /\ h.unsaved
    <3>1. CASE h = k
      BY <2>2, <3>1
    <3>2. CASE h = Suspects(k, x)
      BY <2>2, <3>2 DEF Suspects, Names
    <3>3. QED
      BY <1>2, <2>1, <3>1, <3>2
  <2>4. QED
    BY <2>3, NotValidQuiet
<1>3. QED
  BY <1>1, <1>2, Heard

LEMMA MissedStill == ASSUME NEW g \in State, NEW f, NEW v PROVE Still(g, Missed(g, f, v))
  BY DEF State, Missed, Still

LEMMA RemoteScriptSaves ==
  ASSUME TypeOK, Fit(gcs, node), gcs' \in State, NEW v \in Vals, NEW heard \in BOOLEAN,
         RemoteScript(v, heard)
  PROVE  Quiet(gcs, gcs') \/ Saved(gcs, gcs', node')
<1>1. gcs \in State /\ NodeType /\ node' = [node EXCEPT !.file = v]
  BY DEF TypeOK, NodeType, RemoteScript
<1>2. node'.hash = node.hash /\ node'.p = node.p /\ node'.file = v /\ v \in Field0
  BY <1>1 DEF NodeType, Field0
<1>3. PICK a : a = [gcs EXCEPT !.scriptValue = v, !.overtaken = @ \ {"s"}]
  OBVIOUS
<1>4. a \in State
  BY <1>1, <1>3, ZenonT(60) DEF State
<1>5. Still(gcs, a)
  BY <1>1, <1>3 DEF State, Still
<1>6. /\ a.values = gcs.values /\ a.source = gcs.source
      /\ a.overtaken = gcs.overtaken \ {"s"} /\ a.dictHash = gcs.dictHash
      /\ a.tables = gcs.tables /\ a.scriptField = gcs.scriptField
      /\ a.ident = gcs.ident /\ a.suspect = gcs.suspect /\ a.shownOf = gcs.shownOf
  BY <1>1, <1>3 DEF State
<1>7. DictInv(a) /\ ValuesInv(a, node') /\ ShownInv(a, node')
  BY <1>2, <1>5, <1>6 DEF Fit, DictInv, ValuesInv, ShownInv, Still
<1>8. PICK vs : vs = [f \in DOMAIN a.values \cup {"s"} |-> IF f = "s" THEN v ELSE a.values[f]]
  OBVIOUS
<1>9. PICK c : c = [ConfReceived(a, vs) EXCEPT !.values = Nothing]
  OBVIOUS
<1>10. c \in State /\ (Quiet(a, c) \/ Saved(a, c, node'))
  BY <1>2, <1>4, <1>7, <1>8, <1>9, ScriptSaves
<1>11. PICK h \in {gcs, a, c} : gcs' = Missed(h, "s", v)
  BY <1>3, <1>6, <1>8, <1>9 DEF RemoteScript
<1>12. h \in State /\ (Quiet(gcs, h) \/ Saved(gcs, h, node'))
  <2>1. Quiet(gcs, gcs)
    BY <1>1, StillQuiet DEF Still
  <2>2. Quiet(gcs, a)
    BY <1>1, <1>5, StillQuiet
  <2>3. Quiet(gcs, c) \/ Saved(gcs, c, node')
    BY <1>1, <1>4, <1>10, <2>2, QuietTwice, QuietSaved
  <2>4. QED
    BY <1>1, <1>4, <1>10, <1>11, <2>1, <2>2, <2>3
<1>13. Quiet(h, gcs')
  BY <1>11, <1>12, MissedStill, StillQuiet
<1>14. QED
  BY <1>1, <1>12, <1>13, QuietTwice, SavedQuiet

\* The steps from outside
LEMMA OutsideSaves ==
  ASSUME TypeOK, TypeOK', Fit(gcs, node), Outside
  PROVE  Quiet(gcs, gcs') \/ Saved(gcs, gcs', node')
<1>1. gcs \in State /\ gcs' \in State /\ NodeType
  BY DEF TypeOK, NodeType
<1>2. CASE Announce
  BY <1>1, <1>2, CreateStill, StillQuiet DEF Announce
<1>3. CASE RemoteSave
  <2>1. gcs' = SaveNodeConfig(gcs) /\ node' = node
    BY <1>3 DEF RemoteSave
  <2>2. CASE gcs.dict = None
    <3>1. gcs' = [gcs EXCEPT !.configID = None] /\ ~gcs.valid
      BY <2>1, <2>2 DEF SaveNodeConfig, Fit, DictInv
    <3>2. gcs'.db = gcs.db /\ gcs'.doubtful = gcs.doubtful /\ ~gcs'.valid
      BY <1>1, <3>1 DEF State
    <3>3. QED
      BY <1>1, <3>2, NotValidQuiet
  <2>3. CASE gcs.dict # None
    <3>1. gcs.valid /\ gcs.suspect = {} => Cur(gcs) = Held(node)
      BY <1>1, CurHeld DEF Fit
    <3>2. QED
      BY <1>1, <2>1, <2>3, <3>1, SaveSaved
  <2>4. QED
    BY <2>2, <2>3
<1>4. CASE OverhearIdent
  BY <1>1, <1>4, AnsweredQuiet DEF OverhearIdent
<1>5. CASE \E h \in Dicts, v \in Vals : Reflash(h, v)
  <2>1. gcs' = [gcs EXCEPT !.suspect = {"p", "s"}, !.overtaken = {"p", "s"}]
    BY <1>5 DEF Reflash
  <2>2. Still(gcs, gcs')
    BY <1>1, <2>1 DEF State, Still
  <2>3. QED
    BY <1>1, <2>2, StillQuiet
<1>6. CASE \E v \in Vals, heard \in BOOLEAN : RemoteUpdate(v, heard)
  <2>1. PICK v \in Vals, heard \in BOOLEAN : RemoteUpdate(v, heard)
    BY <1>6
  <2>2. PICK h \in {gcs} \cup HearUpdate(gcs, "p", v) : gcs' = Missed(h, "p", v)
    BY <2>1 DEF RemoteUpdate
  <2>3. v \in Field0
    BY DEF Field0
  <2>4. h \in State
    BY <1>1, <2>2, <2>3, HearType
  <2>5. QED
    BY <1>1, <2>2, <2>4, HearQuiet, MissedStill, StillQuiet, QuietTwice
<1>7. CASE \E v \in Vals, heard \in BOOLEAN : RemoteScript(v, heard)
  BY <1>1, <1>7, RemoteScriptSaves
<1>8. CASE \E heard \in BOOLEAN : RemoteScriptField(heard)
  <2>1. PICK h \in {gcs} \cup HearUpdate(gcs, "s", Junk) :
          gcs' = [h EXCEPT !.suspect = IF h.shown = gcs.shown THEN @ ELSE @ \cup {"s"}]
    BY <1>8 DEF RemoteScriptField
  <2>2. h \in State
    BY <1>1, <2>1, HearType DEF Field0
  <2>3. Still(h, gcs')
    BY <2>1, <2>2 DEF State, Still
  <2>4. QED
    BY <1>1, <2>1, <2>2, <2>3, HearQuiet, StillQuiet, QuietTwice
<1>9. CASE \E f \in {"dict", "conf", "script"} : Overhear(f)
  <2>1. PICK f \in {"dict", "conf", "script"} : gcs' \in Parse(gcs, f) /\ node' = node
    BY <1>9 DEF Overhear
  <2>2. QED
    BY <1>1, <2>1, ParseSaves
<1>10. QED
  BY <1>2, <1>3, <1>4, <1>5, <1>6, <1>7, <1>8, <1>9 DEF Outside

-----------------------------------------------------------------------------
(* Each step keeps what is saved true *)

LEMMA GcsStep ==
  ASSUME gcs \in State, gcs' \in State, SavedInv,
         Quiet(gcs, gcs') \/ Saved(gcs, gcs', node'),
         posted' = posted, configs' = configs,
         held \subseteq held', Held(node') \in held'
  PROVE  SavedInv'
<1>1. Sound(gcs, held') /\ Named(gcs, posted)
  BY DEF SavedInv, Sound
<1>2. Sound(gcs', held') /\ Named(gcs', posted)
  BY <1>1, QuietSound, SavedSound
<1>3. gcs.doubtful \subseteq gcs'.doubtful
  BY DEF Quiet, Saved
<1>4. configs' \subseteq held' \cup gcs'.doubtful
  BY <1>3 DEF SavedInv
<1>5. QED
  BY <1>2, <1>4 DEF SavedInv

LEMMA OutsideHolds ==
  ASSUME NodeType, Held(node) \in held, Outside
  PROVE  held \subseteq held' /\ Held(node') \in held'
<1>1. CASE Announce \/ RemoteSave \/ OverhearIdent
  BY <1>1 DEF Announce, RemoteSave, OverhearIdent
<1>2. CASE \E h \in Dicts, v \in Vals : Reflash(h, v)
  BY <1>2 DEF Reflash
<1>3. CASE \E v \in Vals, heard \in BOOLEAN : RemoteUpdate(v, heard)
  BY <1>3 DEF RemoteUpdate
<1>4. CASE \E v \in Vals, heard \in BOOLEAN : RemoteScript(v, heard)
  BY <1>4 DEF RemoteScript
<1>5. CASE \E heard \in BOOLEAN : RemoteScriptField(heard)
  <2>1. node' = [node EXCEPT !.field = node.file] /\ held' = held
    BY <1>5 DEF RemoteScriptField
  <2>2. node'.hash = node.hash /\ node'.p = node.p /\ node'.file = node.file
    BY <2>1 DEF NodeType
  <2>3. Held(node') = Held(node)
    BY <2>2 DEF Held
  <2>4. QED
    BY <2>1, <2>3
<1>6. CASE \E f \in {"dict", "conf", "script"} : Overhear(f)
  BY <1>6 DEF Overhear
<1>7. QED
  BY <1>1, <1>2, <1>3, <1>4, <1>5, <1>6 DEF Outside

LEMMA ScheduleStill == ASSUME gcs \in State, Schedule PROVE Still(gcs, gcs')
<1>1. PICK r, g : /\ g = [gcs EXCEPT !.created = Tail(@)]
                  /\ \/ gcs' = [g EXCEPT !.reqConf = @ /\ r # "conf"]
                     \/ gcs' = [Delete(g, r) EXCEPT !.requests = Append(@, r)]
                     \/ gcs' = [g EXCEPT !.requests = Append(@, r)]
  BY DEF Schedule
<1>2. Still(gcs, g) /\ DOMAIN g = Names
  BY <1>1 DEF State, Still, Names
<1>3. PICK d : d = Delete(g, r)
  OBVIOUS
<1>4. Still(g, d) /\ DOMAIN d = Names
  BY <1>2, <1>3 DEF Delete, Names, Still
<1>5. CASE gcs' = [g EXCEPT !.reqConf = @ /\ r # "conf"]
  BY <1>2, <1>5 DEF Names, Still
<1>6. CASE gcs' = [d EXCEPT !.requests = Append(@, r)]
  <2>1. Still(d, gcs')
    BY <1>4, <1>6 DEF Names, Still
  <2>2. QED
    BY <1>2, <1>4, <2>1, StillTwice
<1>7. CASE gcs' = [g EXCEPT !.requests = Append(@, r)]
  BY <1>2, <1>7 DEF Names, Still
<1>8. QED
  BY <1>1, <1>3, <1>5, <1>6, <1>7

LEMMA SpoiltStill ==
  ASSUME NEW g \in State, NEW r  PROVE Still(g, [Delete(g, r) EXCEPT !.spoilt = TRUE])
<1>1. PICK d : d = Delete(g, r)
  OBVIOUS
<1>2. Still(g, d) /\ DOMAIN d = Names
  BY <1>1, StateNames DEF Delete, Names, Still
<1>3. Still(d, [d EXCEPT !.spoilt = TRUE])
  BY <1>2 DEF Names, Still
<1>4. QED
  BY <1>1, <1>2, <1>3, StillTwice

LEMMA SendStill == ASSUME gcs \in State, Send PROVE Still(gcs, gcs')
<1>1. \/ gcs' = [gcs EXCEPT !.sent = TRUE]
      \/ \E r : gcs' = [Delete(gcs, r) EXCEPT !.spoilt = TRUE]
  BY DEF Send
<1>2. CASE gcs' = [gcs EXCEPT !.sent = TRUE]
  BY <1>2 DEF State, Still
<1>3. CASE \E r : gcs' = [Delete(gcs, r) EXCEPT !.spoilt = TRUE]
  BY <1>3, SpoiltStill
<1>4. QED
  BY <1>1, <1>2, <1>3

LEMMA DropStill == ASSUME gcs \in State, Drop PROVE Still(gcs, gcs')
<1>1. PICK b : gcs' = [gcs EXCEPT !.requests = <<>>, !.sent = FALSE, !.spoilt = TRUE,
                                  !.reqConf = b]
  BY DEF Drop
<1>2. QED
  BY <1>1 DEF State, Still

LEMMA AnswerSaves ==
  ASSUME NodeType, gcs \in State, gcs' \in State, Fit(gcs, node), Answer
  PROVE  Quiet(gcs, gcs') \/ Saved(gcs, gcs', node)
<1>1. CASE \E same \in BOOLEAN : gcs' = Ident(gcs, same)
  BY <1>1, AnsweredQuiet
<1>2. CASE \E r \in Files(node.hash) : \E g \in Parse(gcs, r) : gcs' = Delete(g, r)
  <2>1. PICK r \in Files(node.hash) : \E g \in Parse(gcs, r) : gcs' = Delete(g, r)
    BY <1>2
  <2>2. PICK g \in Parse(gcs, r) : gcs' = Delete(g, r)
    BY <2>1
  <2>3. r \in {"dict", "conf", "script"}
    BY DEF Files
  <2>4. g \in State /\ (Quiet(gcs, g) \/ Saved(gcs, g, node))
    BY <2>3, ParseType, ParseSaves
  <2>5. Quiet(g, gcs')
    BY <2>2, <2>4, DeleteStill, StillQuiet
  <2>6. QED
    BY <2>4, <2>5, QuietTwice, SavedQuiet
<1>3. QED
  BY <1>1, <1>2 DEF Answer

-----------------------------------------------------------------------------
(* The worker and its answers *)

LEMMA TailShift ==
  ASSUME NEW S, NEW q \in Seq(S), q # <<>>
  PROVE  /\ DOMAIN q = 1 .. Len(q) /\ Len(q) \in Nat /\ 1 \in DOMAIN q
         /\ Head(q) = q[1] /\ Tail(q) \in Seq(S)
         /\ \A j \in DOMAIN Tail(q) :
              j \in Nat /\ j + 1 \in DOMAIN q /\ j + 1 # 1 /\ Tail(q)[j] = q[j + 1]
         /\ \A i \in DOMAIN q :
              i # 1 => /\ i \in Nat /\ i - 1 \in DOMAIN Tail(q) /\ Tail(q)[i - 1] = q[i]
<1>1. /\ Tail(q) \in Seq(S) /\ Len(Tail(q)) = Len(q) - 1 /\ Len(q) \in Nat \ {0}
      /\ \A j \in 1 .. Len(Tail(q)) : Tail(q)[j] = q[j + 1]
  BY HeadTailProperties, EmptySeq, LenProperties
<1>2. DOMAIN q = 1 .. Len(q) /\ DOMAIN Tail(q) = 1 .. Len(q) - 1
  BY <1>1, LenProperties
<1>3. QED
  BY <1>1, <1>2

\* The first request is served, and it is not the one that matters for Named.
LEMMA TailSound ==
  ASSUME NEW g \in State, NEW r \in State, NEW H, Sound(g, H), g.db # <<>>,
         r.db = Tail(g.db), r.doubtful = g.doubtful
  PROVE  Sound(r, H)
<1>1. g.db \in Seq(Jobs)
  BY DbType
<1>2. QED
  BY <1>1, TailShift DEF Sound

LEMMA OtherServed ==
  ASSUME NEW g \in State, NEW r \in State, NEW q, Named(g, q), g.db # <<>>,
         ~IsSave(Head(g.db)), r = [g EXCEPT !.db = Tail(@)]
  PROVE  Named(r, q)
<1>1. g.db \in Seq(Jobs)
  BY DbType
<1>2. /\ r.db = Tail(g.db) /\ r.valid = g.valid /\ r.unsaved = g.unsaved
      /\ r.configID = g.configID /\ Cur(r) = Cur(g)
  BY DEF State, Cur
<1>3. /\ Head(g.db) = g.db[1]
      /\ \A j \in DOMAIN r.db : j \in Nat /\ j + 1 \in DOMAIN g.db /\ r.db[j] = g.db[j + 1]
      /\ \A i \in DOMAIN g.db :
           i # 1 => i \in Nat /\ i - 1 \in DOMAIN r.db /\ r.db[i - 1] = g.db[i]
  BY <1>1, <1>2, TailShift
<1>4. SUFFICES ASSUME r.valid, ~r.unsaved
               PROVE  Named(r, q)
  BY DEF Named
<1>5. CASE \E i \in DOMAIN g.db :
             /\ IsSave(g.db[i]) /\ g.db[i].config = Cur(g)
             /\ \A j \in DOMAIN g.db : j > i => ~IsSave(g.db[j])
  <2>1. PICK i \in DOMAIN g.db :
             /\ IsSave(g.db[i]) /\ g.db[i].config = Cur(g)
             /\ \A j \in DOMAIN g.db : j > i => ~IsSave(g.db[j])
    BY <1>5
  <2>2. i # 1
    BY <1>3, <2>1
  <2>3. i \in Nat /\ i - 1 \in DOMAIN r.db /\ r.db[i - 1] = g.db[i]
    BY <1>3, <2>2
  <2>4. ASSUME NEW j \in DOMAIN r.db, j > i - 1
        PROVE  ~IsSave(r.db[j])
    <3>1. j \in Nat /\ j + 1 \in DOMAIN g.db /\ r.db[j] = g.db[j + 1]
      BY <1>3
    <3>2. j + 1 > i
      BY <2>3, <2>4, <3>1
    <3>3. QED
      BY <2>1, <3>1, <3>2
  <2>5. QED
    BY <1>2, <2>1, <2>3, <2>4, ZenonT(60) DEF Named
<1>6. CASE \A j \in DOMAIN g.db : ~IsSave(g.db[j])
  <2>1. \A j \in DOMAIN r.db : ~IsSave(r.db[j])
    BY <1>3, <1>6
  <2>2. QED
    BY <1>2, <1>4, <1>6, <2>1 DEF Named
<1>7. QED
  BY <1>2, <1>4, <1>5, <1>6 DEF Named

\* The answer to a save is the last one, so it is for what is shown if the save was.
LEMMA SaveServed ==
  ASSUME NEW g \in State, NEW r \in State, NEW q \in Seq(Signals), Named(g, q), g.db # <<>>,
         IsSave(Head(g.db)), r = [g EXCEPT !.db = Tail(@)]
  PROVE  Named(r, Append(q, [sig |-> "saved", config |-> Head(g.db).config]))
<1>1. g.db \in Seq(Jobs)
  BY DbType
<1>2. /\ r.db = Tail(g.db) /\ r.valid = g.valid /\ r.unsaved = g.unsaved
      /\ Cur(r) = Cur(g)
  BY DEF State, Cur
<1>3. /\ Head(g.db) = g.db[1] /\ 1 \in DOMAIN g.db
      /\ \A j \in DOMAIN r.db : j \in Nat /\ j + 1 \in DOMAIN g.db /\ r.db[j] = g.db[j + 1]
      /\ \A i \in DOMAIN g.db :
           i # 1 => i \in Nat /\ i - 1 \in DOMAIN r.db /\ r.db[i - 1] = g.db[i]
  BY <1>1, <1>2, TailShift
<1>4. PICK m, p : m = [sig |-> "saved", config |-> Head(g.db).config] /\ p = Append(q, m)
  OBVIOUS
<1>5. m \in Signals /\ m.sig = "saved" /\ m.config = g.db[1].config
  <2>1. Head(g.db) \in Jobs
    BY <1>1, HeadTailProperties
  <2>2. Head(g.db).config \in Configs
    BY <2>1 DEF Jobs, IsSave
  <2>3. QED
    BY <1>3, <1>4, <2>2 DEF Signals
<1>6. SUFFICES ASSUME r.valid, ~r.unsaved
               PROVE  Named(r, p)
  BY <1>4 DEF Named
<1>7. PICK i \in DOMAIN g.db :
        /\ IsSave(g.db[i]) /\ g.db[i].config = Cur(g)
        /\ \A j \in DOMAIN g.db : j > i => ~IsSave(g.db[j])
  BY <1>2, <1>3, <1>6 DEF Named
<1>8. CASE i = 1
  <2>1. ASSUME NEW j \in DOMAIN r.db
        PROVE  ~IsSave(r.db[j])
    <3>1. j \in Nat /\ j + 1 \in DOMAIN g.db /\ r.db[j] = g.db[j + 1] /\ j \in DOMAIN Tail(g.db)
      BY <1>2, <1>3
    <3>2. j + 1 # 1
      BY <1>1, <3>1, TailShift
    <3>3. j + 1 > 1
      BY <3>1, <3>2
    <3>4. QED
      BY <1>7, <1>8, <3>1, <3>3
  <2>2. /\ Len(q) \in Nat /\ DOMAIN p = 1 .. Len(q) + 1 /\ p[Len(q) + 1] = m
    BY <1>4, <1>5, AppendProperties, LenProperties
  <2>3. Len(q) + 1 \in DOMAIN p /\ \A j \in DOMAIN p : ~(j > Len(q) + 1)
    BY <2>2
  <2>4. p[Len(q) + 1].config = Cur(r) /\ p[Len(q) + 1].sig = "saved"
    BY <1>2, <1>5, <1>7, <1>8, <2>2
  <2>5. QED
    BY <2>1, <2>3, <2>4 DEF Named
<1>9. CASE i # 1
  <2>1. i \in Nat /\ i - 1 \in DOMAIN r.db /\ r.db[i - 1] = g.db[i]
    BY <1>3, <1>9
  <2>2. ASSUME NEW j \in DOMAIN r.db, j > i - 1
        PROVE  ~IsSave(r.db[j])
    <3>1. j \in Nat /\ j + 1 \in DOMAIN g.db /\ r.db[j] = g.db[j + 1]
      BY <1>3
    <3>2. j + 1 > i
      BY <2>1, <2>2, <3>1
    <3>3. QED
      BY <1>7, <3>1, <3>2
  <2>3. QED
    BY <1>2, <1>7, <2>1, <2>2, ZenonT(60) DEF Named
<1>10. QED
  BY <1>8, <1>9

\* An answer to another request is posted.
LEMMA OtherPosted ==
  ASSUME NEW g, NEW q \in Seq(Signals), NEW m \in Signals, m.sig # "saved", Named(g, q)
  PROVE  Named(g, Append(q, m))
<1>1. PICK p : p = Append(q, m)
  OBVIOUS
<1>2. /\ Len(q) \in Nat /\ DOMAIN q = 1 .. Len(q) /\ DOMAIN p = 1 .. Len(q) + 1
      /\ p[Len(q) + 1] = m /\ \A i \in 1 .. Len(q) : p[i] = q[i]
  BY <1>1, AppendProperties, LenProperties
<1>3. /\ \A i \in DOMAIN q : i \in DOMAIN p /\ p[i] = q[i]
      /\ \A j \in DOMAIN p : p[j].sig = "saved" => j \in DOMAIN q /\ p[j] = q[j]
  <2>1. \A j \in DOMAIN p : j \in DOMAIN q \/ j = Len(q) + 1
    BY <1>2
  <2>2. QED
    BY <1>2, <2>1
<1>4. ASSUME NEW i \in DOMAIN q, q[i].sig = "saved", q[i].config = Cur(g),
             \A j \in DOMAIN q : j > i => q[j].sig # "saved"
      PROVE  /\ i \in DOMAIN p /\ p[i].sig = "saved" /\ p[i].config = Cur(g)
             /\ \A j \in DOMAIN p : j > i => p[j].sig # "saved"
  BY <1>3, <1>4
<1>5. (\A j \in DOMAIN q : q[j].sig # "saved") => (\A j \in DOMAIN p : p[j].sig # "saved")
  BY <1>3
<1>6. Named(g, p)
  <2> SUFFICES ASSUME g.valid, ~g.unsaved
               PROVE  Named(g, p)
    BY DEF Named
  <2>1. CASE \E i \in DOMAIN g.db :
               /\ IsSave(g.db[i]) /\ g.db[i].config = Cur(g)
               /\ \A j \in DOMAIN g.db : j > i => ~IsSave(g.db[j])
    BY <2>1 DEF Named
  <2>2. CASE /\ \A j \in DOMAIN g.db : ~IsSave(g.db[j])
             /\ \E i \in DOMAIN q :
                 /\ q[i].sig = "saved" /\ q[i].config = Cur(g)
                 /\ \A j \in DOMAIN q : j > i => q[j].sig # "saved"
    BY <1>4, <2>2 DEF Named
  <2>3. CASE /\ \A j \in DOMAIN g.db : ~IsSave(g.db[j])
             /\ \A j \in DOMAIN q : q[j].sig # "saved"
             /\ g.configID \in {None, Cur(g)}
    BY <1>5, <2>3 DEF Named
  <2>4. QED
    BY <2>1, <2>2, <2>3 DEF Named
<1>7. QED
  BY <1>1, <1>6

\* An answer to another request is taken.
LEMMA OtherTaken ==
  ASSUME NEW g, NEW q \in Seq(Signals), q # <<>>, Head(q).sig # "saved", Named(g, q)
  PROVE  Named(g, Tail(q))
<1>1. PICK p : p = Tail(q)
  OBVIOUS
<1>2. /\ Head(q) = q[1]
      /\ \A j \in DOMAIN p : j \in Nat /\ j + 1 \in DOMAIN q /\ p[j] = q[j + 1]
      /\ \A i \in DOMAIN q : i # 1 => i \in Nat /\ i - 1 \in DOMAIN p /\ p[i - 1] = q[i]
  BY <1>1, TailShift
<1>3. ASSUME NEW i \in DOMAIN q, q[i].sig = "saved", q[i].config = Cur(g),
             \A j \in DOMAIN q : j > i => q[j].sig # "saved"
      PROVE  /\ i - 1 \in DOMAIN p /\ p[i - 1].sig = "saved" /\ p[i - 1].config = Cur(g)
             /\ \A j \in DOMAIN p : j > i - 1 => p[j].sig # "saved"
  <2>1. i # 1
    BY <1>2, <1>3
  <2>2. i \in Nat /\ i - 1 \in DOMAIN p /\ p[i - 1] = q[i]
    BY <1>2, <2>1
  <2>3. ASSUME NEW j \in DOMAIN p, j > i - 1
        PROVE  p[j].sig # "saved"
    <3>1. j \in Nat /\ j + 1 \in DOMAIN q /\ p[j] = q[j + 1]
      BY <1>2
    <3>2. j + 1 > i
      BY <2>2, <2>3, <3>1
    <3>3. QED
      BY <1>3, <3>1, <3>2
  <2>4. QED
    BY <1>3, <2>2, <2>3
<1>4. (\A j \in DOMAIN q : q[j].sig # "saved") => (\A j \in DOMAIN p : p[j].sig # "saved")
  BY <1>2
<1>5. Named(g, p)
  <2> SUFFICES ASSUME g.valid, ~g.unsaved
               PROVE  Named(g, p)
    BY DEF Named
  <2>1. CASE \E i \in DOMAIN g.db :
               /\ IsSave(g.db[i]) /\ g.db[i].config = Cur(g)
               /\ \A j \in DOMAIN g.db : j > i => ~IsSave(g.db[j])
    BY <2>1 DEF Named
  <2>2. CASE /\ \A j \in DOMAIN g.db : ~IsSave(g.db[j])
             /\ \E i \in DOMAIN q :
                 /\ q[i].sig = "saved" /\ q[i].config = Cur(g)
                 /\ \A j \in DOMAIN q : j > i => q[j].sig # "saved"
    BY <1>3, <2>2 DEF Named
  <2>3. CASE /\ \A j \in DOMAIN g.db : ~IsSave(g.db[j])
             /\ \A j \in DOMAIN q : q[j].sig # "saved"
             /\ g.configID \in {None, Cur(g)}
    BY <1>4, <2>3 DEF Named
  <2>4. QED
    BY <2>1, <2>2, <2>3 DEF Named
<1>6. QED
  BY <1>1, <1>5

\* The answer to a save is taken; it is the last one or is replaced by a later one.
LEMMA SaveTaken ==
  ASSUME NEW g \in State, NEW r \in State, NEW q \in Seq(Signals), q # <<>>,
         Head(q).sig = "saved", Named(g, q), r = [g EXCEPT !.configID = Head(q).config]
  PROVE  Named(r, Tail(q))
<1>1. PICK p : p = Tail(q)
  OBVIOUS
<1>2. /\ Head(q) = q[1] /\ 1 \in DOMAIN q
      /\ \A j \in DOMAIN p :
           j \in Nat /\ j + 1 \in DOMAIN q /\ j + 1 # 1 /\ p[j] = q[j + 1]
      /\ \A i \in DOMAIN q : i # 1 => i \in Nat /\ i - 1 \in DOMAIN p /\ p[i - 1] = q[i]
  BY <1>1, TailShift
<1>3. /\ r.db = g.db /\ r.valid = g.valid /\ r.unsaved = g.unsaved
      /\ Cur(r) = Cur(g) /\ r.configID = q[1].config
  BY <1>2 DEF State, Cur
<1>4. Named(r, p)
  <2> SUFFICES ASSUME r.valid, ~r.unsaved
               PROVE  Named(r, p)
    BY DEF Named
  <2>1. CASE \E i \in DOMAIN g.db :
               /\ IsSave(g.db[i]) /\ g.db[i].config = Cur(g)
               /\ \A j \in DOMAIN g.db : j > i => ~IsSave(g.db[j])
    BY <1>3, <2>1 DEF Named
  <2>2. CASE \A j \in DOMAIN g.db : ~IsSave(g.db[j])
    <3>1. PICK i \in DOMAIN q :
                 /\ q[i].sig = "saved" /\ q[i].config = Cur(g)
                 /\ \A j \in DOMAIN q : j > i => q[j].sig # "saved"
      BY <1>2, <1>3, <2>2 DEF Named
    <3>2. CASE i = 1
      <4>1. ASSUME NEW j \in DOMAIN p
            PROVE  p[j].sig # "saved"
        <5>1. j \in Nat /\ j + 1 \in DOMAIN q /\ j + 1 # 1 /\ p[j] = q[j + 1]
          BY <1>2
        <5>2. j + 1 > 1
          BY <5>1
        <5>3. QED
          BY <3>1, <3>2, <5>1, <5>2
      <4>2. r.configID = Cur(r)
        BY <1>3, <3>1, <3>2
      <4>3. QED
        BY <1>3, <2>2, <4>1, <4>2 DEF Named
    <3>3. CASE i # 1
      <4>1. i \in Nat /\ i - 1 \in DOMAIN p /\ p[i - 1] = q[i]
        BY <1>2, <3>3
      <4>2. ASSUME NEW j \in DOMAIN p, j > i - 1
            PROVE  p[j].sig # "saved"
        <5>1. j \in Nat /\ j + 1 \in DOMAIN q /\ p[j] = q[j + 1]
          BY <1>2
        <5>2. j + 1 > i
          BY <4>1, <4>2, <5>1
        <5>3. QED
          BY <3>1, <5>1, <5>2
      <4>3. QED
        BY <1>3, <2>2, <3>1, <4>1, <4>2 DEF Named
    <3>4. QED
      BY <3>2, <3>3
  <2>3. QED
    BY <1>3, <2>1, <2>2 DEF Named
<1>5. QED
  BY <1>1, <1>4

LEMMA WorkKeeps == ASSUME TypeOK, gcs' \in State, SavedInv, Work PROVE SavedInv'
<1>1. PICK job : job = Head(gcs.db)
  OBVIOUS
<1>2. gcs.db # <<>> /\ gcs \in State /\ posted \in Seq(Signals)
  BY DEF Work, TypeOK
<1>3. job \in Jobs /\ 1 \in DOMAIN gcs.db /\ job = gcs.db[1]
  BY <1>1, <1>2, DbType, TailShift, HeadTailProperties
<1>4. node' = node /\ held' = held
  BY DEF Work
<1>5. PICK g : g = [gcs EXCEPT !.db = Tail(@)]
  OBVIOUS
<1>6. g \in State /\ g.db = Tail(gcs.db) /\ g.doubtful = gcs.doubtful
  <2>1. Tail(gcs.db) \in Seq(Jobs)
    BY <1>2, DbType, HeadTailProperties
  <2>2. QED
    BY <1>2, <1>5, <2>1, NewJobs, ZenonT(60) DEF State
<1>7. Sound(g, held)
  BY <1>2, <1>6, TailSound DEF SavedInv
<1>8. CASE job.op = "load"
  <2>1. PICK sig \in {"loaded", "missing", "failed"} :
          posted' = Append(posted, [sig |-> sig, hash |-> job.hash])
    BY <1>1, <1>8 DEF Work
  <2>2. gcs' = g /\ configs' = configs
    BY <1>1, <1>5, <1>8 DEF Work
  <2>3. PICK m : m = [sig |-> sig, hash |-> job.hash]
    OBVIOUS
  <2>4. m \in Signals /\ m.sig # "saved"
    BY <1>3, <1>8, <2>3 DEF Jobs, Signals
  <2>5. Named(g, posted)
    BY <1>1, <1>2, <1>5, <1>6, <1>8, OtherServed DEF SavedInv, IsSave
  <2>6. Named(g, posted')
    BY <1>2, <2>1, <2>3, <2>4, <2>5, OtherPosted
  <2>7. QED
    BY <1>4, <1>6, <1>7, <2>2, <2>6 DEF SavedInv
<1>9. CASE job.op = "saveDict"
  <2>1. gcs' = g /\ configs' = configs /\ posted' = posted
    BY <1>1, <1>5, <1>9 DEF Work
  <2>2. Named(g, posted)
    BY <1>1, <1>2, <1>5, <1>6, <1>9, OtherServed DEF SavedInv, IsSave
  <2>3. QED
    BY <1>4, <1>6, <1>7, <2>1, <2>2 DEF SavedInv
<1>10. CASE /\ job.op = "saveConf" /\ gcs' = g
            /\ configs' = configs \cup {job.config}
            /\ posted' = Append(posted, [sig |-> "saved", config |-> job.config])
  <2>1. Named(g, posted')
    BY <1>1, <1>2, <1>5, <1>6, <1>10, SaveServed DEF SavedInv, IsSave
  <2>2. job.config \in held \cup gcs.doubtful
    BY <1>3, <1>10 DEF SavedInv, Sound, IsSave
  <2>3. QED
    BY <1>4, <1>6, <1>7, <1>10, <2>1, <2>2 DEF SavedInv
<1>11. CASE gcs' = [gcs EXCEPT !.db = Tail(@), !.unsaved = TRUE] /\ UNCHANGED <<configs, posted>>
  <2>1. gcs'.db = g.db /\ gcs'.doubtful = gcs.doubtful /\ gcs'.unsaved
    BY <1>2, <1>6, <1>11 DEF State
  <2>2. Sound(gcs', held) /\ Named(gcs', posted')
    BY <1>6, <1>7, <2>1 DEF Sound, Named
  <2>3. QED
    BY <1>4, <1>11, <2>1, <2>2 DEF SavedInv
<1>12. QED
  BY <1>1, <1>5, <1>8, <1>9, <1>10, <1>11 DEF Work

LEMMA DeliverKeeps == ASSUME TypeOK, gcs' \in State, SavedInv, Deliver PROVE SavedInv'
<1>1. PICK m : m = Head(posted)
  OBVIOUS
<1>2. gcs \in State /\ posted \in Seq(Signals) /\ posted # <<>> /\ posted' = Tail(posted)
  BY DEF Deliver, TypeOK
<1>3. m \in Signals
  BY <1>1, <1>2, HeadTailProperties
<1>4. node' = node /\ held' = held /\ configs' = configs
  BY DEF Deliver
<1>5. CASE m.sig = "saved" /\ gcs' = [gcs EXCEPT !.configID = m.config]
  <2>1. gcs'.db = gcs.db /\ gcs'.doubtful = gcs.doubtful
    BY <1>2, <1>5 DEF State
  <2>2. Sound(gcs', held)
    BY <2>1 DEF SavedInv, Sound
  <2>3. Named(gcs', Tail(posted))
    BY <1>1, <1>2, <1>5, SaveTaken DEF SavedInv
  <2>4. QED
    BY <1>2, <1>4, <2>1, <2>2, <2>3 DEF SavedInv
<1>6. CASE m.sig # "saved" /\ Quiet(gcs, gcs')
  <2>1. Named(gcs, Tail(posted))
    BY <1>1, <1>2, <1>6, OtherTaken DEF SavedInv
  <2>2. Sound(gcs', held) /\ Named(gcs', Tail(posted))
    BY <1>2, <1>6, <2>1, QuietSound DEF SavedInv
  <2>3. gcs'.doubtful = gcs.doubtful
    BY <1>6 DEF Quiet
  <2>4. QED
    BY <1>2, <1>4, <2>2, <2>3 DEF SavedInv
<1>7. ASSUME m.sig = "loaded", gcs' = DictCacheLoaded(gcs, m.hash)
      PROVE  Quiet(gcs, gcs')
  <2>1. m.hash \in Dicts
    BY <1>3, <1>7 DEF Signals
  <2>2. PICK t : t = SetTables(gcs, m.hash)
    OBVIOUS
  <2>3. t \in State
    BY <1>2, <2>1, <2>2, TablesType DEF Hash0
  <2>4. Still(gcs, t)
    BY <1>2, <2>2 DEF State, SetTables, Still
  <2>5. gcs' = gcs \/ gcs' = DictReceived(t, m.hash)
    BY <1>7, <2>2 DEF DictCacheLoaded
  <2>6. CASE gcs' = gcs
    BY <1>2, <2>6, StillQuiet DEF Still
  <2>7. CASE gcs' = DictReceived(t, m.hash)
    BY <1>2, <2>1, <2>3, <2>4, <2>7, StillQuiet, DictReceivedQuiet, QuietTwice
  <2>8. QED
    BY <2>5, <2>6, <2>7
<1>8. ASSUME gcs' = gcs \/ gcs' = Create(gcs, "dict")
      PROVE  Quiet(gcs, gcs')
  BY <1>2, <1>8, CreateStill, StillQuiet DEF Still
<1>9. QED
  BY <1>1, <1>5, <1>6, <1>7, <1>8 DEF Deliver, DictCacheMissing

LEMMA SavedInitially == ASSUME Init PROVE SavedInv
<1>1. gcs.db = <<>> /\ ~gcs.valid /\ configs = {} /\ held = {Held(node)}
  BY DEF Init
<1>2. DOMAIN gcs.db = {}
  BY <1>1
<1>3. QED
  BY <1>1, <1>2 DEF SavedInv, Sound, Named

LEMMA SavedInvariance ==
  ASSUME TypeOK, TypeOK', IInv, SavedInv, [Next]_vars
  PROVE  SavedInv'
<1>1. gcs \in State /\ gcs' \in State /\ NodeType /\ Fit(gcs, node)
  BY DEF TypeOK, NodeType, IInv
<1>2. ASSUME Quiet(gcs, gcs') \/ Saved(gcs, gcs', node), RestUnchanged
      PROVE  SavedInv'
  <2>1. /\ node' = node /\ held' = held /\ posted' = posted /\ configs' = configs
    BY <1>2 DEF RestUnchanged
  <2>2. Held(node') \in held'
    BY <2>1 DEF SavedInv
  <2>3. QED
    BY <1>1, <1>2, <2>1, <2>2, GcsStep
<1>3. CASE Schedule
  BY <1>1, <1>2, <1>3, ScheduleStill, StillQuiet DEF Schedule
<1>4. CASE Send
  BY <1>1, <1>2, <1>4, SendStill, StillQuiet DEF Send
<1>5. CASE Answer
  BY <1>1, <1>2, <1>5, AnswerSaves DEF Answer
<1>6. CASE TransferFails
  BY <1>1, <1>2, <1>6, SpoiltStill, StillQuiet DEF TransferFails
<1>7. CASE Drop
  BY <1>1, <1>2, <1>7, DropStill, StillQuiet DEF Drop
<1>8. CASE Work
  BY <1>1, <1>8, WorkKeeps
<1>9. CASE Deliver
  BY <1>1, <1>9, DeliverKeeps
<1>10. CASE Outside
  <2>1. Event
    BY <1>10, OutsideType
  <2>2. posted' = posted /\ configs' = configs
    BY <2>1 DEF Event
  <2>3. held \subseteq held' /\ Held(node') \in held'
    BY <1>1, <1>10, OutsideHolds DEF SavedInv
  <2>4. Quiet(gcs, gcs') \/ Saved(gcs, gcs', node')
    BY <1>1, <1>10, OutsideSaves
  <2>5. QED
    BY <1>1, <2>2, <2>3, <2>4, GcsStep
<1>11. CASE UNCHANGED vars
  <2>1. gcs' = gcs /\ RestUnchanged
    BY <1>11 DEF vars, RestUnchanged
  <2>2. Quiet(gcs, gcs')
    BY <1>1, <2>1, StillQuiet DEF Still
  <2>3. QED
    BY <1>2, <2>1, <2>2
<1>12. QED
  BY <1>3, <1>4, <1>5, <1>6, <1>7, <1>8, <1>9, <1>10, <1>11 DEF Next

LEMMA SavedInvIsTrue == ASSUME SavedInv PROVE ConfigsAreTrue
<1>1. NamedIsShown
  BY DEF SavedInv, Named, IsSave, Cur, NamedIsShown
<1>2. QED
  BY <1>1 DEF SavedInv, SavedWasHeld, ConfigsAreTrue

\* A configuration in the database is one the node has had, and the one that is
\* named for a vehicle is the one shown (saveNodeConfig and configSaved of
\* NodeStorage, with the saves of validate and of another GCS), but for the
\* exceptions the property states: for any number of saves that wait at a time.
THEOREM ConfigsCorrect == Spec => []ConfigsAreTrue
<1>1. Init => TypeOK /\ IInv /\ SavedInv
  BY InitType, Initially, SavedInitially
<1>2. TypeOK /\ IInv /\ SavedInv /\ [Next]_vars => TypeOK' /\ IInv' /\ SavedInv'
  BY TypeInvariance, Invariance, SavedInvariance
<1>3. SavedInv => ConfigsAreTrue
  BY SavedInvIsTrue
<1>4. QED
  BY <1>1, <1>2, <1>3, PTL DEF Spec
=============================================================================
