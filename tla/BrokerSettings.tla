---------------------------- MODULE BrokerSettings ----------------------------
(***************************************************************************)
(* The single broker_connections row of Zerodha/Kite and the requests of   *)
(* the Settings page that change it (KiteBrokerSettingsService).  A request*)
(* loads the row, may call the broker, and commits: SQLAlchemy's UPDATE    *)
(* then writes only the columns whose value differs from the one loaded.   *)
(* Each button of the page is disabled while its own request runs, so      *)
(* different requests overlap.                                             *)
(*                                                                         *)
(* A stored secret is a plain value under layers of encryption, each made  *)
(* with the key of an epoch; an operator may change the key and restart.   *)
(***************************************************************************)
EXTENDS Integers, Sequences, SequencesExt

CONSTANTS Process,      \* requests that may be in flight together
          Creds,        \* values of a credential
          Forms,        \* what the Save form may send: a credential or None per field
          None,         \* an absent value
          MaxRequests,  \* bound on the number of requests
          MaxRotations  \* bound on changes of SIGMALAB_ENCRYPTION_KEY

Fields == {"api_key", "api_secret", "access_token"}

ASSUME BrokerAssumption ==
  /\ MaxRequests \in Nat /\ MaxRotations \in Nat
  /\ Forms \subseteq [Fields -> Creds \cup {None}] /\ None \notin Creds

ASSUME NoneAssumption ==
  /\ None \notin [plain : Creds, layers : Seq(0 .. MaxRotations)]
  /\ None \notin {"success", "failed"}

VARIABLES row,        \* secrets, metadata and status of the broker_connections row
          req,        \* per process: what it does, the row it loaded, what it will write
          epoch,      \* the current encryption key
          accepted,   \* (api_key, access_token) pairs the broker accepted
          requests,   \* requests made so far
          overlapped  \* two requests were in flight at the same time

vars == <<row, req, epoch, accepted, requests, overlapped>>

Plain(v)   == [plain |-> v, layers |-> <<>>]
Encrypt(s) == [f \in Fields |-> IF s[f] = None THEN None
                                ELSE [s[f] EXCEPT !.layers = Append(@, epoch)]]
Decrypts(s) == \A f \in Fields : s[f] # None =>
                 s[f].layers # <<>> /\ Last(s[f].layers) = epoch
Decrypt(s) == [f \in Fields |-> IF s[f] = None THEN None
                                ELSE [s[f] EXCEPT !.layers = Front(@)]]
Stored(s) == \E f \in Fields : s[f] # None    \* row.encrypted_secrets is not empty

NoSecrets == [f \in Fields |-> None]
\* A mask stands for the value mask_secret was given: it shows the end of that value.
Blank == [secrets |-> NoSecrets, masks |-> NoSecrets, configured |-> FALSE,
          token |-> FALSE, test |-> None, status |-> "disconnected"]
IdleReq == [op |-> "idle", form |-> NoSecrets, loaded |-> Blank]

Init ==
  /\ row = Blank
  /\ req = [p \in Process |-> IdleReq]
  /\ epoch = 0 /\ accepted = {} /\ requests = 0 /\ overlapped = FALSE

-----------------------------------------------------------------------------
(* get_or_create : load the row.  A row that does not exist reads like a   *)
(* blank one; of two requests that create it, the unique constraint fails  *)
(* the second before it did anything.                                      *)
Load(p, op, form) ==
  /\ req[p].op = "idle" /\ requests < MaxRequests
  /\ req' = [req EXCEPT ![p] = [op |-> op, form |-> form, loaded |-> row]]
  /\ requests' = requests + 1
  /\ overlapped' = (overlapped \/ \E q \in Process : req[q].op # "idle")
  /\ UNCHANGED <<row, epoch, accepted>>

(* repo.update : the columns that changed since the load are written.      *)
(* Re-encrypted secrets always differ.  The metadata is one JSON column;   *)
(* when the modelled part of it is the same, the message or the profile in *)
(* it may still differ, so it may be written or not.                       *)
Commit(p, new, encrypted) ==
  LET old == req[p].loaded
      meta(r) == <<r.masks, r.configured, r.token, r.test>>
  IN  /\ \E m \in IF meta(new) # meta(old) THEN {new} ELSE {new, row} :
           row' = [secrets |-> IF encrypted \/ new.secrets # old.secrets
                               THEN new.secrets ELSE row.secrets,
                   masks |-> m.masks, configured |-> m.configured,
                   token |-> m.token, test |-> m.test,
                   status |-> IF new.status # old.status THEN new.status ELSE row.status]
      /\ req' = [req EXCEPT ![p] = IdleReq]

(* save_credentials : the form is merged into the stored values as they    *)
(* are, that is encrypted; the result is encrypted, and masked as it was.  *)
\* MUTANT: the status survives a save.
SaveMutKeepsStatus(p) ==
  /\ req[p].op = "save"
  /\ LET old == req[p].loaded
         s == [f \in Fields |-> IF req[p].form[f] = None THEN old.secrets[f]
                                ELSE Plain(req[p].form[f])]
     IN  Commit(p, [secrets |-> Encrypt(s), masks |-> s, status |-> old.status,
                    configured |-> s["api_key"] # None /\ s["api_secret"] # None,
                    token |-> s["access_token"] # None, test |-> old.test], Stored(s))
  /\ UNCHANGED <<epoch, accepted, requests, overlapped>>

Save(p) ==
  /\ req[p].op = "save"
  /\ LET old == req[p].loaded
         s == [f \in Fields |-> IF req[p].form[f] = None THEN old.secrets[f]
                                ELSE Plain(req[p].form[f])]
     IN  Commit(p, [secrets |-> Encrypt(s), masks |-> s, status |-> "disconnected",
                    configured |-> s["api_key"] # None /\ s["api_secret"] # None,
                    token |-> s["access_token"] # None, test |-> None], Stored(s))
  /\ UNCHANGED <<epoch, accepted, requests, overlapped>>

\* force_reset
Reset(p) ==
  /\ req[p].op = "reset"
  /\ Commit(p, Blank, FALSE)
  /\ UNCHANGED <<epoch, accepted, requests, overlapped>>

(* clear_session : raises when the secrets cannot be decrypted; the mask   *)
(* of the token is only dropped when there are secrets.                    *)
\* MUTANT: the flag of the access token is left set.
ClearSessionMutKeepsFlag(p) ==
  /\ req[p].op = "clear" /\ Decrypts(req[p].loaded.secrets)
  /\ LET s == [Decrypt(req[p].loaded.secrets) EXCEPT !["access_token"] = None]
     IN  Commit(p, [req[p].loaded EXCEPT !.secrets = Encrypt(s), !.test = None,
                                         !.masks["access_token"] = None,
                                         !.status = "disconnected"], Stored(s))
  /\ UNCHANGED <<epoch, accepted, requests, overlapped>>

ClearSession(p) ==
  /\ req[p].op = "clear" /\ Decrypts(req[p].loaded.secrets)
  /\ LET s == [Decrypt(req[p].loaded.secrets) EXCEPT !["access_token"] = None]
     IN  Commit(p, [req[p].loaded EXCEPT
                      !.secrets = Encrypt(s), !.token = FALSE,
                      !.masks["access_token"] = IF Stored(req[p].loaded.secrets) THEN None ELSE @,
                      !.test = None, !.status = "disconnected"], Stored(s))
  /\ UNCHANGED <<epoch, accepted, requests, overlapped>>

\* The broker can only accept what is not ciphertext.
Readable(v) == v # None /\ v.layers = <<>>

(* The profile call that ends test_connection and exchange_request_token.  *)
Verdict(p, s, ok, new, encrypted) ==
  /\ ok => Readable(s["api_key"]) /\ Readable(s["access_token"])
  /\ accepted' = IF ok THEN accepted \cup {<<s["api_key"].plain, s["access_token"].plain>>}
                 ELSE accepted
  /\ Commit(p, [new EXCEPT !.test = IF ok THEN "success" ELSE "failed",
                           !.status = IF ok THEN "connected" ELSE "error"], encrypted)

TestConnection(p, ok) ==
  /\ req[p].op = "test" /\ Decrypts(req[p].loaded.secrets)
  /\ LET s == Decrypt(req[p].loaded.secrets)
     IN  /\ s["api_key"] # None /\ s["access_token"] # None
         /\ Verdict(p, s, ok, req[p].loaded, FALSE)
  /\ UNCHANGED <<epoch, requests, overlapped>>

(* generate_session returned a token; it is stored whatever profile says.  *)
\* MUTANT: the decrypted mapping is stored.
ExchangeMutPlain(p, tok, ok) ==
  /\ req[p].op = "exchange" /\ Decrypts(req[p].loaded.secrets)
  /\ LET dec == Decrypt(req[p].loaded.secrets)
         s == [dec EXCEPT !["access_token"] = Plain(tok)]
     IN  /\ Readable(dec["api_key"]) /\ Readable(dec["api_secret"])
         /\ Verdict(p, s, ok, [req[p].loaded EXCEPT !.secrets = s, !.masks = s,
                                             !.configured = TRUE, !.token = TRUE], TRUE)
  /\ UNCHANGED <<epoch, requests, overlapped>>

Exchange(p, tok, ok) ==
  /\ req[p].op = "exchange" /\ Decrypts(req[p].loaded.secrets)
  /\ LET dec == Decrypt(req[p].loaded.secrets)
         s == [dec EXCEPT !["access_token"] = Plain(tok)]
     IN  /\ Readable(dec["api_key"]) /\ Readable(dec["api_secret"])
         /\ Verdict(p, s, ok, [req[p].loaded EXCEPT !.secrets = Encrypt(s), !.masks = s,
                                             !.configured = TRUE, !.token = TRUE], TRUE)
  /\ UNCHANGED <<epoch, requests, overlapped>>

(* The request answers 400 and writes nothing: the secrets are missing or  *)
(* cannot be decrypted, or generate_session raises.                        *)
Refuse(p) ==
  /\ LET q == req[p]
         s == q.loaded.secrets
     IN  \/ q.op = "exchange"
         \/ q.op \in {"clear", "test"} /\ ~Decrypts(s)
         \/ q.op = "test" /\ (s["api_key"] = None \/ s["access_token"] = None)
  /\ req' = [req EXCEPT ![p] = IdleReq]
  /\ UNCHANGED <<row, epoch, accepted, requests, overlapped>>

(* The server is restarted with another encryption key. *)
Rotate ==
  /\ epoch < MaxRotations
  /\ \A p \in Process : req[p].op = "idle"
  /\ epoch' = epoch + 1
  /\ UNCHANGED <<row, req, accepted, requests, overlapped>>

Request(p) ==
  \/ \E form \in Forms : Load(p, "save", form)
  \/ \E op \in {"reset", "clear", "test", "exchange"} : Load(p, op, NoSecrets)
  \/ Save(p) \/ Reset(p) \/ ClearSession(p) \/ Refuse(p)
  \/ \E ok \in BOOLEAN : TestConnection(p, ok) \/ \E tok \in Creds : Exchange(p, tok, ok)

Next == Rotate \/ \E p \in Process : Request(p)

Spec == Init /\ [][Next]_vars

-----------------------------------------------------------------------------
Secrets == [Fields -> [plain : Creds, layers : Seq(0 .. MaxRotations)] \cup {None}]

(* The row and the copies of it hold values of their type, and no secret   *)
(* is ever stored without encryption, whatever overlaps.                   *)
TypeOK ==
  /\ row \in [secrets : Secrets, masks : Secrets, configured : BOOLEAN, token : BOOLEAN,
              test : {None, "success", "failed"},
              status : {"disconnected", "connected", "error"}]
  /\ \A f \in Fields : row.secrets[f] # None => row.secrets[f].layers # <<>>
  /\ epoch \in 0 .. MaxRotations /\ requests \in 0 .. MaxRequests
  /\ accepted \subseteq Creds \X Creds /\ overlapped \in BOOLEAN

(* "connected" is only shown for credentials the broker has accepted. *)
ConnectedMeansTested ==
  row.status = "connected" =>
    /\ row.secrets["api_key"] # None /\ row.secrets["access_token"] # None
    /\ <<row.secrets["api_key"].plain, row.secrets["access_token"].plain>> \in accepted

(* As long as requests do not overlap, "connected" means tested, through   *)
(* saves, exchanges, resets, failures and changes of the key.              *)
ConnectedMeansTestedInTurn == ~overlapped => ConnectedMeansTested

(* As long as requests do not overlap, the metadata agrees with the        *)
(* secrets: the flags say which are there, each secret is masked as it was *)
(* when it was encrypted for this row (ciphertext after a save that omits  *)
(* it: OmittedFieldsKept), and the last test result goes with the status.  *)
MetadataMatchesSecrets ==
  ~overlapped =>
    /\ row.masks = Decrypt(row.secrets)
    /\ row.configured = (row.secrets["api_key"] # None /\ row.secrets["api_secret"] # None)
    /\ row.token = (row.secrets["access_token"] # None)
    /\ row.status = CASE row.test = None -> "disconnected"
                      [] row.test = "success" -> "connected"
                      [] row.test = "failed" -> "error"

(* FINDING: saving a form leaves the fields it omits as they were: what    *)
(* could be decrypted decrypts to the same value.                          *)
OmittedFieldsKept ==
  [][\A p \in Process : req[p].op = "save" /\ req'[p].op = "idle" =>
       \A f \in Fields :
         req[p].form[f] = None /\ row.secrets[f] # None /\ Decrypts(row.secrets) =>
           Decrypt(row'.secrets)[f] = Decrypt(row.secrets)[f]]_vars
=============================================================================
