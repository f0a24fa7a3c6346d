------------------------- MODULE BrokerSettingsProofs -------------------------
(***************************************************************************)
(* What BrokerSettings promises for any number of processes, requests and  *)
(* rotations, any credentials and any forms.  A commit writes the columns  *)
(* that differ from the loaded row; the proofs rest on CommitInTurn: a     *)
(* request that loaded the row of now writes exactly the row it means.     *)
(***************************************************************************)
EXTENDS BrokerSettings, TLAPS

Values == [plain : Creds, layers : Seq(0 .. MaxRotations)]

Row == [secrets : Secrets, masks : Secrets, configured : BOOLEAN, token : BOOLEAN,
        test : {None, "success", "failed"}, status : {"disconnected", "connected", "error"}]

\* Every stored value has been encrypted.
Sealed(s) == \A f \in Fields : s[f] # None => s[f].layers # <<>>

Ops == {"idle", "save", "reset", "clear", "test", "exchange"}

Types ==
  /\ row \in Row /\ Sealed(row.secrets)
  /\ req \in [Process -> [op : Ops, form : [Fields -> Creds \cup {None}], loaded : Row]]
  /\ \A p \in Process : Sealed(req[p].loaded.secrets)
  /\ epoch \in 0 .. MaxRotations /\ requests \in 0 .. MaxRequests
  /\ accepted \subseteq Creds \X Creds /\ overlapped \in BOOLEAN

\* A row the page shows correctly, when the broker accepted the pairs in good.
Tested(r, good) ==
  r.status = "connected" =>
    /\ r.secrets["api_key"] # None /\ r.secrets["access_token"] # None
    /\ <<r.secrets["api_key"].plain, r.secrets["access_token"].plain>> \in good

Matches(r) ==
  /\ r.masks = Decrypt(r.secrets)
  /\ r.configured = (r.secrets["api_key"] # None /\ r.secrets["api_secret"] # None)
  /\ r.token = (r.secrets["access_token"] # None)
  /\ r.test = None => r.status = "disconnected"
  /\ r.test = "success" => r.status = "connected"
  /\ r.test = "failed" => r.status = "error"

\* As long as no two requests overlapped, there is one at most, with the row of now.
InTurn ==
  ~overlapped =>
    /\ Tested(row, accepted) /\ Matches(row)
    /\ \A p \in Process : req[p].op # "idle" =>
         /\ req[p].loaded = row
         /\ \A q \in Process : req[q].op # "idle" => q = p

IInv == Types /\ InTurn

-----------------------------------------------------------------------------
(* None is no value with or without encryption. *)
LEMMA NoValue == None \notin Values /\ None \notin {"success", "failed"}
  BY NoneAssumption DEF Values

(* The last of the layers is taken off, and a new one is put on.           *)
LEMMA Layers ==
  ASSUME NEW S, NEW s \in Seq(S), NEW e \in S
  PROVE  /\ Append(s, e) \in Seq(S) /\ Append(s, e) # <<>>
         /\ Front(Append(s, e)) = s
         /\ s # <<>> => Front(s) \in Seq(S)
<1>1. Append(s, e) \in Seq(S) /\ Len(Append(s, e)) = Len(s) + 1 /\ Len(s) \in Nat
  OBVIOUS
<1>2. Append(s, e) # <<>>
  BY <1>1
<1>3. ASSUME s # <<>> PROVE Front(s) \in Seq(S)
  BY <1>3 DEF Front
<1>4. Front(Append(s, e)) = s
  BY <1>1 DEF Front
<1> QED BY <1>1, <1>2, <1>3, <1>4

(* Encryption keeps which fields are there and what they hold, and seals;  *)
(* decryption undoes it.                                                   *)
LEMMA EncryptFacts ==
  ASSUME NEW s \in Secrets, epoch \in 0 .. MaxRotations
  PROVE  /\ Encrypt(s) \in Secrets /\ Sealed(Encrypt(s)) /\ Decrypt(Encrypt(s)) = s
         /\ \A f \in Fields : /\ Encrypt(s)[f] = None <=> s[f] = None
                              /\ s[f] # None => Encrypt(s)[f].plain = s[f].plain
<1> SUFFICES ASSUME NEW f \in Fields
             PROVE  /\ Encrypt(s)[f] \in Values \cup {None}
                    /\ Encrypt(s)[f] # None => Encrypt(s)[f].layers # <<>>
                    /\ Encrypt(s)[f] = None <=> s[f] = None
                    /\ s[f] # None => Encrypt(s)[f].plain = s[f].plain
                    /\ Decrypt(Encrypt(s))[f] = s[f]
  <2>1. DOMAIN Encrypt(s) = Fields /\ Encrypt(s) = [f \in Fields |-> Encrypt(s)[f]]
    BY DEF Encrypt
  <2>2. Decrypt(Encrypt(s)) = [f \in Fields |-> Decrypt(Encrypt(s))[f]]
    BY DEF Decrypt
  <2>3. s = [f \in Fields |-> s[f]]
    BY DEF Secrets
  <2> HIDE DEF Encrypt, Decrypt
  <2> QED BY <2>1, <2>2, <2>3 DEF Sealed, Secrets, Values
<1>1. CASE s[f] = None
  BY <1>1 DEF Encrypt, Decrypt
<1>2. CASE s[f] # None
  <2>1. s[f] \in Values
    BY <1>2 DEF Secrets, Values
  <2>2. Encrypt(s)[f] = [s[f] EXCEPT !.layers = Append(@, epoch)]
    BY <1>2 DEF Encrypt
  <2>3. s[f].layers \in Seq(0 .. MaxRotations) /\ s[f].plain \in Creds
    BY <2>1 DEF Values
  <2>4. /\ Append(s[f].layers, epoch) \in Seq(0 .. MaxRotations)
        /\ Append(s[f].layers, epoch) # <<>>
        /\ Front(Append(s[f].layers, epoch)) = s[f].layers
    BY <2>3, Layers
  <2>5. /\ Encrypt(s)[f] \in Values /\ Encrypt(s)[f].layers # <<>>
        /\ Encrypt(s)[f].plain = s[f].plain
        /\ Encrypt(s)[f].layers = Append(s[f].layers, epoch)
    BY <2>1, <2>2, <2>3, <2>4 DEF Values
  <2>6. Decrypt(Encrypt(s))[f] = [Encrypt(s)[f] EXCEPT !.layers = Front(@)]
    BY <2>5, NoValue DEF Decrypt
  <2>7. Front(Encrypt(s)[f].layers) = s[f].layers
    BY <2>4, <2>5
  <2>8. Decrypt(Encrypt(s))[f] = s[f]
    BY <2>1, <2>5, <2>6, <2>7 DEF Values
  <2> QED BY <1>2, <2>5, <2>8, NoValue
<1> QED BY <1>1, <1>2

(* So does decryption, of what can be decrypted.                           *)
LEMMA DecryptFacts ==
  ASSUME NEW s \in Secrets, Decrypts(s)
  PROVE  /\ Decrypt(s) \in Secrets
         /\ \A f \in Fields : /\ Decrypt(s)[f] = None <=> s[f] = None
                              /\ s[f] # None => Decrypt(s)[f].plain = s[f].plain
<1> SUFFICES ASSUME NEW f \in Fields
             PROVE  /\ Decrypt(s)[f] \in Values \cup {None}
                    /\ Decrypt(s)[f] = None <=> s[f] = None
                    /\ s[f] # None => Decrypt(s)[f].plain = s[f].plain
  <2>1. DOMAIN Decrypt(s) = Fields /\ Decrypt(s) = [f \in Fields |-> Decrypt(s)[f]]
    BY DEF Decrypt
  <2> QED BY <2>1 DEF Secrets, Values
<1>1. CASE s[f] = None
  BY <1>1 DEF Decrypt
<1>2. CASE s[f] # None
  <2>1. s[f] \in Values /\ s[f].layers # <<>>
    BY <1>2 DEF Secrets, Values, Decrypts
  <2>2. Decrypt(s)[f] = [s[f] EXCEPT !.layers = Front(@)]
    BY <1>2 DEF Decrypt
  <2>3. s[f].layers \in Seq(0 .. MaxRotations) /\ s[f].plain \in Creds
    BY <2>1 DEF Values
  <2>4. Front(s[f].layers) \in Seq(0 .. MaxRotations)
    BY <2>1, <2>3, Layers
  <2>5. Decrypt(s)[f] \in Values /\ Decrypt(s)[f].plain = s[f].plain
    BY <2>1, <2>2, <2>3, <2>4 DEF Values
  <2> QED BY <1>2, <2>5, NoValue
<1> QED BY <1>1, <1>2

-----------------------------------------------------------------------------
(* A commit writes columns of the row it means or leaves those of now.     *)
LEMMA CommitTypes ==
  ASSUME Types, NEW p \in Process, NEW new \in Row, NEW encrypted \in BOOLEAN,
         Sealed(new.secrets), Commit(p, new, encrypted)
  PROVE  /\ row' \in Row /\ Sealed(row'.secrets)
         /\ req' = [req EXCEPT ![p] = IdleReq]
<1>1. PICK m \in {new, row} :
        row' = [secrets |-> IF encrypted \/ new.secrets # req[p].loaded.secrets
                            THEN new.secrets ELSE row.secrets,
                masks |-> m.masks, configured |-> m.configured, token |-> m.token,
                test |-> m.test,
                status |-> IF new.status # req[p].loaded.status THEN new.status ELSE row.status]
  BY DEF Commit
<1>2. m \in Row /\ row \in Row /\ Sealed(row.secrets)
  BY DEF Types
<1>3. \A r \in Row : /\ r.secrets \in Secrets /\ r.masks \in Secrets
                     /\ r.configured \in BOOLEAN /\ r.token \in BOOLEAN
                     /\ r.test \in {None, "success", "failed"}
                     /\ r.status \in {"disconnected", "connected", "error"}
  BY DEF Row
<1>4. row' \in Row
  BY <1>1, <1>2, <1>3 DEF Row
<1>5. row'.secrets \in {new.secrets, row.secrets}
  BY <1>1
<1> QED BY <1>2, <1>4, <1>5 DEF Commit

(* A request that loaded the row of now writes the row it means.           *)
LEMMA CommitInTurn ==
  ASSUME NEW p \in Process, NEW new \in Row, NEW encrypted \in BOOLEAN,
         row \in Row, req[p].loaded = row, Commit(p, new, encrypted)
  PROVE  row' = new
<1>1. PICK m \in IF <<new.masks, new.configured, new.token, new.test>>
                      # <<row.masks, row.configured, row.token, row.test>>
                 THEN {new} ELSE {new, row} :
        row' = [secrets |-> IF encrypted \/ new.secrets # row.secrets
                            THEN new.secrets ELSE row.secrets,
                masks |-> m.masks, configured |-> m.configured, token |-> m.token,
                test |-> m.test,
                status |-> IF new.status # row.status THEN new.status ELSE row.status]
  BY DEF Commit
<1>2. /\ m.masks = new.masks /\ m.configured = new.configured
      /\ m.token = new.token /\ m.test = new.test
  BY <1>1
<1>3. row' = [secrets |-> new.secrets, masks |-> new.masks, configured |-> new.configured,
              token |-> new.token, test |-> new.test, status |-> new.status]
  BY <1>1, <1>2
<1>4. new = [secrets |-> new.secrets, masks |-> new.masks, configured |-> new.configured,
             token |-> new.token, test |-> new.test, status |-> new.status]
  BY DEF Row
<1> QED BY <1>3, <1>4

(* The blank row is shown correctly, and it and the idle request are of    *)
(* their types.                                                            *)
LEMMA IdleFacts ==
  /\ Blank \in Row /\ Sealed(Blank.secrets) /\ Matches(Blank)
  /\ IdleReq \in [op : Ops, form : [Fields -> Creds \cup {None}], loaded : Row]
  /\ Sealed(IdleReq.loaded.secrets) /\ IdleReq.op = "idle"
<1>1. NoSecrets \in [Fields -> Creds \cup {None}] /\ NoSecrets \in Secrets
  BY DEF NoSecrets, Secrets
<1>2. Blank \in Row /\ Sealed(Blank.secrets)
  BY <1>1 DEF Blank, Row, Sealed, NoSecrets
<1>3. Decrypt(NoSecrets) = NoSecrets
  BY DEF Decrypt, NoSecrets
<1>4. Matches(Blank)
  BY <1>3, NoValue DEF Matches, Blank, NoSecrets, Fields
<1> QED BY <1>1, <1>2, <1>4 DEF IdleReq, Ops

(* A commit keeps the invariant when the row it means is shown correctly.  *)
LEMMA CommitKeeps ==
  ASSUME IInv, NEW p \in Process, NEW new \in Row, NEW encrypted \in BOOLEAN,
         Sealed(new.secrets), Commit(p, new, encrypted), req[p].op # "idle",
         UNCHANGED <<epoch, requests, overlapped>>,
         accepted \subseteq accepted', accepted' \subseteq Creds \X Creds,
         ~overlapped => Tested(new, accepted') /\ Matches(new)
  PROVE  IInv'
<1>1. /\ row' \in Row /\ Sealed(row'.secrets) /\ req' = [req EXCEPT ![p] = IdleReq]
  BY CommitTypes DEF IInv
<1>2. req'[p] = IdleReq /\ \A q \in Process \ {p} : req'[q] = req[q]
  BY <1>1 DEF IInv, Types
<1>3. IdleReq.op = "idle"
  BY DEF IdleReq
<1>4. Types'
  <2>1. IdleReq \in [op : Ops, form : [Fields -> Creds \cup {None}], loaded : Row]
    BY IdleFacts
  <2>2. Sealed(IdleReq.loaded.secrets)
    BY IdleFacts
  <2>3. req' \in [Process -> [op : Ops, form : [Fields -> Creds \cup {None}], loaded : Row]]
    BY <1>1, <2>1 DEF IInv, Types
  <2>4. \A q \in Process : Sealed(req'[q].loaded.secrets)
    BY <1>2, <2>2 DEF IInv, Types
  <2> QED BY <1>1, <2>3, <2>4 DEF IInv, Types
<1>5. InTurn'
  <2> SUFFICES ASSUME ~overlapped
               PROVE  /\ Tested(row', accepted') /\ Matches(row')
                      /\ \A q \in Process : req'[q].op = "idle"
    BY DEF InTurn, Tested, Matches
  <2>1. req[p].loaded = row /\ row \in Row
    BY DEF IInv, InTurn, Types
  <2>2. row' = new
    BY <2>1, CommitInTurn
  <2>3. \A q \in Process \ {p} : req[q].op = "idle"
    BY DEF IInv, InTurn
  <2> QED BY <1>2, <1>3, <2>2, <2>3
<1> QED BY <1>4, <1>5 DEF IInv

(* The row a request loaded is a row, and in turn it is shown correctly.   *)
LEMMA LoadedRow ==
  ASSUME IInv, NEW p \in Process, req[p].op # "idle"
  PROVE  /\ req[p].loaded \in Row /\ req[p].loaded.secrets \in Secrets
         /\ Sealed(req[p].loaded.secrets)
         /\ ~overlapped => Matches(req[p].loaded)
BY DEF IInv, Types, InTurn, Row

LEMMA InitInv == Init => IInv
<1> SUFFICES ASSUME Init PROVE IInv
  OBVIOUS
<1>2. Blank \in Row /\ Sealed(Blank.secrets)
  BY IdleFacts
<1>3. IdleReq \in [op : Ops, form : [Fields -> Creds \cup {None}], loaded : Row]
  BY IdleFacts
<1>4. \A p \in Process : req[p].loaded = Blank /\ req[p].op = "idle"
  BY DEF Init, IdleReq
<1>5. Types
  <2>1. \A p \in Process : Sealed(req[p].loaded.secrets)
    BY <1>2, <1>4
  <2>2. req \in [Process -> [op : Ops, form : [Fields -> Creds \cup {None}], loaded : Row]]
    BY <1>3 DEF Init
  <2>3. /\ epoch \in 0 .. MaxRotations /\ requests \in 0 .. MaxRequests
        /\ accepted \subseteq Creds \X Creds /\ overlapped \in BOOLEAN
    <3>1. 0 \in 0 .. MaxRotations /\ 0 \in 0 .. MaxRequests
      BY BrokerAssumption
    <3>2. epoch = 0 /\ requests = 0 /\ accepted = {} /\ overlapped = FALSE
      BY DEF Init
    <3> QED BY <3>1, <3>2
  <2>4. row \in Row /\ Sealed(row.secrets)
    BY <1>2 DEF Init
  <2> QED BY <2>1, <2>2, <2>3, <2>4 DEF Types
<1>6. Tested(Blank, accepted) /\ Matches(Blank)
  BY IdleFacts DEF Tested, Blank
<1> QED BY <1>4, <1>5, <1>6 DEF IInv, InTurn, Init

LEMMA LoadKeeps ==
  ASSUME IInv, NEW p \in Process, NEW op \in Ops,
         NEW form \in [Fields -> Creds \cup {None}], Load(p, op, form)
  PROVE  IInv'
<1>1. /\ req' = [req EXCEPT ![p] = [op |-> op, form |-> form, loaded |-> row]]
      /\ req[p].op = "idle" /\ requests < MaxRequests /\ requests' = requests + 1
      /\ overlapped' = (overlapped \/ \E q \in Process : req[q].op # "idle")
      /\ UNCHANGED <<row, epoch, accepted>>
  BY DEF Load
<1>2. /\ req'[p].op = op /\ req'[p].loaded = row
      /\ \A q \in Process \ {p} : req'[q] = req[q]
  BY <1>1 DEF IInv, Types
<1>3. Types'
  <2>1. req' \in [Process -> [op : Ops, form : [Fields -> Creds \cup {None}], loaded : Row]]
    BY <1>1 DEF IInv, Types
  <2>2. \A q \in Process : Sealed(req'[q].loaded.secrets)
    BY <1>2 DEF IInv, Types
  <2>3. requests' \in 0 .. MaxRequests /\ overlapped' \in BOOLEAN
    BY <1>1, BrokerAssumption DEF IInv, Types
  <2> QED BY <1>1, <2>1, <2>2, <2>3 DEF IInv, Types
<1>4. InTurn'
  <2> SUFFICES ASSUME ~overlapped'
               PROVE  /\ Tested(row, accepted) /\ Matches(row)
                      /\ \A q \in Process : req'[q].op # "idle" => q = p
    BY <1>1, <1>2 DEF InTurn, Tested, Matches
  <2>1. ~overlapped /\ \A q \in Process : req[q].op = "idle"
    BY <1>1
  <2> QED BY <1>2, <2>1 DEF IInv, InTurn
<1> QED BY <1>3, <1>4 DEF IInv

LEMMA SaveKeeps ==
  ASSUME IInv, NEW p \in Process, Save(p)
  PROVE  IInv'
<1> DEFINE old == req[p].loaded
           form == req[p].form
           s == [f \in Fields |-> IF form[f] = None THEN old.secrets[f] ELSE Plain(form[f])]
           new == [secrets |-> Encrypt(s), masks |-> s, status |-> "disconnected",
                   configured |-> s["api_key"] # None /\ s["api_secret"] # None,
                   token |-> s["access_token"] # None, test |-> None]
<1>1. /\ req[p].op = "save" /\ Commit(p, new, Stored(s))
      /\ UNCHANGED <<epoch, accepted, requests, overlapped>>
  BY DEF Save
<1>2. s \in Secrets
  <2>1. form \in [Fields -> Creds \cup {None}] /\ old.secrets \in Secrets
    BY <1>1, LoadedRow DEF IInv, Types
  <2>2. \A c \in Creds : Plain(c) \in Values
    BY DEF Plain, Values
  <2> QED BY <2>1, <2>2 DEF Secrets, Values
<1>3. /\ Encrypt(s) \in Secrets /\ Sealed(Encrypt(s)) /\ Decrypt(Encrypt(s)) = s
      /\ \A f \in Fields : Encrypt(s)[f] = None <=> s[f] = None
  BY <1>2, EncryptFacts DEF IInv, Types
<1> HIDE DEF s
<1>4. new \in Row /\ Sealed(new.secrets) /\ Stored(s) \in BOOLEAN
  BY <1>2, <1>3 DEF Row, Stored
<1>5. Tested(new, accepted') /\ Matches(new)
  BY <1>3, NoValue DEF Tested, Matches, Fields
<1> HIDE DEF new
<1> QED BY <1>1, <1>4, <1>5, CommitKeeps DEF IInv, Types

LEMMA ResetKeeps ==
  ASSUME IInv, NEW p \in Process, Reset(p)
  PROVE  IInv'
<1>1. Blank \in Row /\ Sealed(Blank.secrets)
  BY IdleFacts
<1>2. Tested(Blank, accepted') /\ Matches(Blank)
  BY IdleFacts DEF Tested, Blank
<1> QED BY <1>1, <1>2, CommitKeeps DEF Reset, IInv, Types

LEMMA ClearSessionKeeps ==
  ASSUME IInv, NEW p \in Process, ClearSession(p)
  PROVE  IInv'
<1> DEFINE old == req[p].loaded
           s == [Decrypt(old.secrets) EXCEPT !["access_token"] = None]
           new == [old EXCEPT !.secrets = Encrypt(s), !.token = FALSE,
                     !.masks["access_token"] = IF Stored(old.secrets) THEN None ELSE @,
                     !.test = None, !.status = "disconnected"]
<1>1. /\ req[p].op = "clear" /\ Decrypts(old.secrets) /\ Commit(p, new, Stored(s))
      /\ UNCHANGED <<epoch, accepted, requests, overlapped>>
  BY DEF ClearSession
<1>2. /\ old \in Row /\ old.secrets \in Secrets
      /\ ~overlapped => Matches(old)
  BY <1>1, LoadedRow
<1>3. /\ Decrypt(old.secrets) \in Secrets
      /\ \A f \in Fields : Decrypt(old.secrets)[f] = None <=> old.secrets[f] = None
  BY <1>1, <1>2, DecryptFacts
<1>4. /\ s \in Secrets /\ s["access_token"] = None
      /\ \A f \in Fields \ {"access_token"} : s[f] = None <=> old.secrets[f] = None
  BY <1>3 DEF Secrets, Fields
<1>5. /\ old.masks \in Secrets
      /\ new.masks = [old.masks EXCEPT !["access_token"] = IF Stored(old.secrets) THEN None ELSE @]
      /\ new.masks \in Secrets
  BY <1>2 DEF Row, Secrets, Fields
<1>6. ~overlapped => new.masks = s
  <2> SUFFICES ASSUME ~overlapped PROVE new.masks = s
    OBVIOUS
  <2>1. old.masks = Decrypt(old.secrets)
    BY <1>2 DEF Matches
  <2>2. CASE Stored(old.secrets)
    BY <1>5, <2>1, <2>2
  <2>3. CASE ~Stored(old.secrets)
    <3>1. Decrypt(old.secrets)["access_token"] = None
      BY <1>3, <2>3 DEF Stored, Fields
    <3>2. s = Decrypt(old.secrets)
      BY <1>3, <3>1 DEF Secrets, Fields
    <3> QED BY <1>5, <2>1, <2>3, <3>2, <1>3 DEF Secrets
  <2> QED BY <2>2, <2>3
<1>7. /\ Encrypt(s) \in Secrets /\ Sealed(Encrypt(s)) /\ Decrypt(Encrypt(s)) = s
      /\ \A f \in Fields : Encrypt(s)[f] = None <=> s[f] = None
  BY <1>4, EncryptFacts DEF IInv, Types
<1> HIDE DEF s
<1>8. /\ new \in Row /\ new.secrets = Encrypt(s) /\ new.token = FALSE /\ new.test = None
      /\ new.status = "disconnected" /\ new.configured = old.configured
  BY <1>2, <1>7, <1>5 DEF Row
<1> HIDE DEF new
<1>9. Tested(new, accepted') /\ (~overlapped => Matches(new))
  BY <1>2, <1>4, <1>7, <1>8, <1>6, NoValue DEF Tested, Matches, Fields
<1>10. Stored(s) \in BOOLEAN
  BY DEF Stored
<1> QED BY <1>1, <1>7, <1>8, <1>9, <1>10, CommitKeeps DEF IInv, Types

(* The pair a profile call accepts is the pair that is then in the row.    *)
LEMMA VerdictKeeps ==
  ASSUME IInv, NEW p \in Process, req[p].op # "idle",
         NEW s \in Secrets, NEW ok \in BOOLEAN, NEW base \in Row, NEW encrypted \in BOOLEAN,
         Verdict(p, s, ok, base, encrypted), UNCHANGED <<epoch, requests, overlapped>>,
         Sealed(base.secrets),
         \A f \in Fields : /\ base.secrets[f] = None <=> s[f] = None
                           /\ s[f] # None => base.secrets[f].plain = s[f].plain,
         ~overlapped => /\ base.masks = Decrypt(base.secrets)
                        /\ base.configured = (s["api_key"] # None /\ s["api_secret"] # None)
                        /\ base.token = (s["access_token"] # None)
  PROVE  IInv'
<1> DEFINE new == [base EXCEPT !.test = IF ok THEN "success" ELSE "failed",
                               !.status = IF ok THEN "connected" ELSE "error"]
<1>1. /\ ok => Readable(s["api_key"]) /\ Readable(s["access_token"])
      /\ accepted' = IF ok THEN accepted \cup {<<s["api_key"].plain, s["access_token"].plain>>}
                     ELSE accepted
      /\ Commit(p, new, encrypted)
  BY DEF Verdict
<1>2. /\ new \in Row /\ new.secrets = base.secrets /\ new.token = base.token
      /\ new.configured = base.configured /\ new.masks = base.masks
      /\ new.test = (IF ok THEN "success" ELSE "failed")
      /\ new.status = (IF ok THEN "connected" ELSE "error")
  BY DEF Row
<1> HIDE DEF new
<1>3. accepted \subseteq accepted' /\ accepted' \subseteq Creds \X Creds
  <2>1. ok => s["api_key"] # None /\ s["access_token"] # None
    BY <1>1 DEF Readable
  <2>2. ok => s["api_key"].plain \in Creds /\ s["access_token"].plain \in Creds
    BY <2>1 DEF Secrets, Fields
  <2> QED BY <1>1, <2>2 DEF IInv, Types
<1>4. Tested(new, accepted')
  <2> SUFFICES ASSUME new.status = "connected"
               PROVE  /\ new.secrets["api_key"] # None /\ new.secrets["access_token"] # None
                      /\ <<new.secrets["api_key"].plain, new.secrets["access_token"].plain>> \in accepted'
    BY DEF Tested
  <2>1. ok
    BY <1>2
  <2>2. s["api_key"] # None /\ s["access_token"] # None
    BY <1>1, <2>1 DEF Readable
  <2> QED BY <1>1, <1>2, <2>1, <2>2 DEF Fields
<1>5. ~overlapped => Matches(new)
  BY <1>2, NoValue DEF Matches, Fields
<1> QED BY <1>1, <1>2, <1>3, <1>4, <1>5, CommitKeeps

LEMMA TestConnectionKeeps ==
  ASSUME IInv, NEW p \in Process, NEW ok \in BOOLEAN, TestConnection(p, ok)
  PROVE  IInv'
<1> DEFINE old == req[p].loaded
           s == Decrypt(old.secrets)
<1>1. /\ req[p].op = "test" /\ Decrypts(old.secrets) /\ Verdict(p, s, ok, old, FALSE)
      /\ UNCHANGED <<epoch, requests, overlapped>>
  BY DEF TestConnection
<1>2. /\ old \in Row /\ old.secrets \in Secrets /\ Sealed(old.secrets)
      /\ ~overlapped => Matches(old)
  BY <1>1, LoadedRow
<1>3. /\ s \in Secrets
      /\ \A f \in Fields : /\ s[f] = None <=> old.secrets[f] = None
                           /\ old.secrets[f] # None => s[f].plain = old.secrets[f].plain
  BY <1>1, <1>2, DecryptFacts
<1> HIDE DEF s
<1>4. ~overlapped => /\ old.masks = Decrypt(old.secrets)
                     /\ old.configured = (s["api_key"] # None /\ s["api_secret"] # None)
                     /\ old.token = (s["access_token"] # None)
  BY <1>2, <1>3 DEF Matches, Fields
<1> HIDE DEF old
<1> QED BY <1>1, <1>2, <1>3, <1>4, VerdictKeeps DEF old

LEMMA ExchangeKeeps ==
  ASSUME IInv, NEW p \in Process, NEW tok \in Creds, NEW ok \in BOOLEAN, Exchange(p, tok, ok)
  PROVE  IInv'
<1> DEFINE old == req[p].loaded
           dec == Decrypt(old.secrets)
           s == [dec EXCEPT !["access_token"] = Plain(tok)]
           base == [old EXCEPT !.secrets = Encrypt(s), !.masks = s,
                               !.configured = TRUE, !.token = TRUE]
<1>1. /\ req[p].op = "exchange" /\ Decrypts(old.secrets) /\ Verdict(p, s, ok, base, TRUE)
      /\ Readable(dec["api_key"]) /\ Readable(dec["api_secret"])
      /\ UNCHANGED <<epoch, requests, overlapped>>
  BY DEF Exchange
<1>2. old \in Row /\ old.secrets \in Secrets
  BY <1>1, LoadedRow
<1>3. dec \in Secrets
  BY <1>1, <1>2, DecryptFacts
<1> HIDE DEF dec
<1>4. Plain(tok) \in Values
  BY DEF Plain, Values
<1>5. /\ s \in Secrets /\ s["api_key"] # None /\ s["api_secret"] # None
      /\ s["access_token"] # None
  BY <1>1, <1>3, <1>4, NoValue DEF Secrets, Fields, Readable, Values
<1> HIDE DEF s
<1>6. /\ Encrypt(s) \in Secrets /\ Sealed(Encrypt(s)) /\ Decrypt(Encrypt(s)) = s
      /\ \A f \in Fields : /\ Encrypt(s)[f] = None <=> s[f] = None
                           /\ s[f] # None => Encrypt(s)[f].plain = s[f].plain
  BY <1>5, EncryptFacts DEF IInv, Types
<1>7. /\ base \in Row /\ base.secrets = Encrypt(s) /\ base.masks = s
      /\ base.configured = TRUE /\ base.token = TRUE
  BY <1>2, <1>5, <1>6 DEF Row
<1> HIDE DEF base
<1>8. /\ base.masks = Decrypt(base.secrets)
      /\ base.configured = (s["api_key"] # None /\ s["api_secret"] # None)
      /\ base.token = (s["access_token"] # None)
  BY <1>5, <1>6, <1>7
<1>9. /\ Sealed(base.secrets)
      /\ \A f \in Fields : /\ base.secrets[f] = None <=> s[f] = None
                           /\ s[f] # None => base.secrets[f].plain = s[f].plain
  BY <1>6, <1>7
<1>10. req[p].op # "idle" /\ Verdict(p, s, ok, base, TRUE) /\ UNCHANGED <<epoch, requests, overlapped>>
  BY <1>1
<1> QED BY <1>5, <1>7, <1>8, <1>9, <1>10, VerdictKeeps

LEMMA RefuseKeeps ==
  ASSUME IInv, NEW p \in Process, Refuse(p)
  PROVE  IInv'
<1>1. req' = [req EXCEPT ![p] = IdleReq] /\ UNCHANGED <<row, epoch, accepted, requests, overlapped>>
  BY DEF Refuse
<1>2. req'[p] = IdleReq /\ \A q \in Process \ {p} : req'[q] = req[q]
  BY <1>1 DEF IInv, Types
<1>3. /\ IdleReq \in [op : Ops, form : [Fields -> Creds \cup {None}], loaded : Row]
      /\ Sealed(IdleReq.loaded.secrets) /\ IdleReq.op = "idle"
  BY IdleFacts
<1>4. Types'
  BY <1>1, <1>2, <1>3 DEF IInv, Types
<1>5. InTurn'
  BY <1>1, <1>2, <1>3 DEF IInv, InTurn, Tested, Matches
<1> QED BY <1>4, <1>5 DEF IInv

LEMMA RotateKeeps ==
  ASSUME IInv, Rotate
  PROVE  IInv'
<1>1. epoch' \in 0 .. MaxRotations
  BY BrokerAssumption DEF Rotate, IInv, Types
<1> QED BY <1>1 DEF Rotate, IInv, Types, InTurn, Tested, Matches

-----------------------------------------------------------------------------
LEMMA StepInv == IInv /\ [Next]_vars => IInv'
<1> SUFFICES ASSUME IInv, [Next]_vars PROVE IInv'
  OBVIOUS
<1>1. CASE UNCHANGED vars
  BY <1>1 DEF vars, IInv, Types, InTurn, Tested, Matches
<1>2. CASE Rotate
  BY <1>2, RotateKeeps
<1>3. ASSUME NEW p \in Process, Request(p) PROVE IInv'
  <2>1. ASSUME NEW form \in Forms, Load(p, "save", form) PROVE IInv'
    <3>1. form \in [Fields -> Creds \cup {None}] /\ "save" \in Ops
      BY BrokerAssumption DEF Ops
    <3> QED BY <2>1, <3>1, LoadKeeps
  <2>2. ASSUME NEW op \in {"reset", "clear", "test", "exchange"}, Load(p, op, NoSecrets)
        PROVE  IInv'
    <3>1. NoSecrets \in [Fields -> Creds \cup {None}] /\ op \in Ops
      BY DEF NoSecrets, Ops
    <3> QED BY <2>2, <3>1, LoadKeeps
  <2>3. ASSUME NEW ok \in BOOLEAN, NEW tok \in Creds,
               TestConnection(p, ok) \/ Exchange(p, tok, ok)
        PROVE  IInv'
    BY <2>3, TestConnectionKeeps, ExchangeKeeps
  <2>4. ASSUME NEW ok \in BOOLEAN, TestConnection(p, ok) PROVE IInv'
    BY <2>4, TestConnectionKeeps
  <2>5. CASE Save(p) \/ Reset(p) \/ ClearSession(p) \/ Refuse(p)
    BY <2>5, SaveKeeps, ResetKeeps, ClearSessionKeeps, RefuseKeeps
  <2> QED BY <1>3, <2>1, <2>2, <2>3, <2>4, <2>5 DEF Request
<1> QED BY <1>1, <1>2, <1>3 DEF Next

(* The invariant holds in every reachable state.                           *)
THEOREM Inductive == Spec => []IInv
<1> QED BY InitInv, StepInv, PTL DEF Spec

(* The row holds values of its types and no secret is stored without       *)
(* encryption, whatever requests overlap and whatever key they used.       *)
THEOREM TypeCorrect == Spec => []TypeOK
<1>1. IInv => TypeOK
  BY DEF IInv, Types, TypeOK, Row, Sealed
<1> QED BY <1>1, Inductive, PTL

(* As long as requests take turns, the row shows "connected" only for the  *)
(* credentials it holds, and the broker accepted those.                    *)
THEOREM TestedInTurn == Spec => []ConnectedMeansTestedInTurn
<1>1. IInv => ConnectedMeansTestedInTurn
  BY DEF IInv, InTurn, Tested, ConnectedMeansTestedInTurn, ConnectedMeansTested
<1> QED BY <1>1, Inductive, PTL

(* As long as requests take turns, the flags and the masks the page reads  *)
(* from the metadata are those of the secrets, each secret masked as it    *)
(* was when it was encrypted for the row, and the status is that of the    *)
(* last test.                                                              *)
THEOREM MetadataInTurn == Spec => []MetadataMatchesSecrets
<1>1. IInv => MetadataMatchesSecrets
  <2> SUFFICES ASSUME IInv, ~overlapped PROVE MetadataMatchesSecrets
    BY DEF MetadataMatchesSecrets
  <2>1. Matches(row) /\ row.test \in {None, "success", "failed"}
    BY DEF IInv, InTurn, Types, Row
  <2> QED BY <2>1, NoValue DEF Matches, MetadataMatchesSecrets
<1> QED BY <1>1, Inductive, PTL
=============================================================================
