------------------------------- MODULE KeyPair -------------------------------
(***************************************************************************)
(* fathomgate audit keygen: WriteKeyPair creates the public key file, then *)
(* the private one, both with O_EXCL, and takes back what it has created   *)
(* when a later step fails.  Several runs may race for the same paths, and *)
(* each may be killed at any step.                                         *)
(***************************************************************************)
CONSTANTS Keygens, NoFile

\* What a path can hold: whose key, and has it been filled.
KeyFile == [by : Keygens, whole : BOOLEAN]

ASSUME NoFileAssumption == NoFile \notin KeyFile

VARIABLES
  pub, priv,  \* NoFile, or the KeyFile at its path
  keygen      \* run -> its stage

keyVars == <<pub, priv, keygen>>

KeyInit ==
  /\ pub = NoFile /\ priv = NoFile
  /\ keygen = [k \in Keygens |-> "start"]

At(k, stage, next) == keygen[k] = stage /\ keygen' = [keygen EXCEPT ![k] = next]

New(k) == [by |-> k, whole |-> FALSE]

\* cmdAuditKeygen's early look at both paths, one after the other.
LookPriv(k) ==
  /\ At(k, "start", IF priv = NoFile THEN "look_pub" ELSE "failed")
  /\ UNCHANGED <<pub, priv>>

LookPub(k) ==
  /\ At(k, "look_pub", IF pub = NoFile THEN "create_pub" ELSE "failed")
  /\ UNCHANGED <<pub, priv>>

\* Mutant: the public key is created over what is there.
CreatePubOver(k) ==
  /\ At(k, "create_pub", "fill_pub")
  /\ pub' = New(k)
  /\ UNCHANGED priv

\* createPublicKey: createExclusive fails if there is a file.
CreatePub(k) ==
  /\ At(k, "create_pub", IF pub = NoFile THEN "fill_pub" ELSE "failed")
  /\ pub' = IF pub = NoFile THEN New(k) ELSE pub
  /\ UNCHANGED priv

\* fill writes and syncs it.
FillPub(k) ==
  /\ At(k, "fill_pub", "create_priv")
  /\ pub' = [pub EXCEPT !.whole = TRUE]
  /\ UNCHANGED priv

\* SaveKey.
CreatePriv(k) ==
  /\ At(k, "create_priv", IF priv = NoFile THEN "fill_priv" ELSE "discard_pub")
  /\ priv' = IF priv = NoFile THEN New(k) ELSE priv
  /\ UNCHANGED pub

\* removeCreated removes a file only if it is the one this run created.
Removed(file, k) == IF file # NoFile /\ file.by = k THEN NoFile ELSE file

FillPriv(k) ==
  /\ At(k, "fill_priv", "close_priv")
  /\ priv' = [priv EXCEPT !.whole = TRUE]
  /\ UNCHANGED pub

\* SaveKey closes the private key's file and returns an error of Close, on
\* which WriteKeyPair discards the public key and leaves the private one.
ClosePriv(k) ==
  /\ At(k, "close_priv", "close_pub") \/ At(k, "close_priv", "unclosed")
  /\ UNCHANGED <<pub, priv>>

DiscardUnclosed(k) ==
  /\ At(k, "unclosed", "alone")
  /\ pub' = Removed(pub, k)
  /\ UNCHANGED priv

\* WriteKeyPair closes the public key's; an error is returned, and undoes
\* nothing.
ClosePub(k) ==
  /\ At(k, "close_pub", "done") \/ At(k, "close_pub", "failed")
  /\ UNCHANGED <<pub, priv>>

\* Setting the mode, writing or syncing fails: the file just created is
\* discarded, and with a private key the public one after it.
FillFails(k) ==
  /\ \/ At(k, "fill_pub", "discard_pub")
     \/ At(k, "fill_priv", "discard_priv")
  /\ UNCHANGED <<pub, priv>>

DiscardPriv(k) ==
  /\ At(k, "discard_priv", "discard_pub")
  /\ priv' = Removed(priv, k)
  /\ UNCHANGED pub

DiscardPub(k) ==
  /\ At(k, "discard_pub", "failed")
  /\ pub' = Removed(pub, k)
  /\ UNCHANGED priv

\* How a run may have ended; "alone": with its private key left alone.
Ended == {"done", "failed", "alone", "killed"}

KeygenKilled(k) ==
  /\ keygen[k] \notin Ended
  /\ keygen' = [keygen EXCEPT ![k] = "killed"]
  /\ UNCHANGED <<pub, priv>>

KeyNext ==
  \E k \in Keygens :
    \/ LookPriv(k) \/ LookPub(k) \/ CreatePub(k) \/ FillPub(k) \/ CreatePriv(k) \/ FillPriv(k)
    \/ ClosePriv(k) \/ DiscardUnclosed(k) \/ ClosePub(k)
    \/ FillFails(k) \/ DiscardPriv(k) \/ DiscardPub(k) \/ KeygenKilled(k)

WholePair(k) == pub = [by |-> k, whole |-> TRUE] /\ priv = [by |-> k, whole |-> TRUE]

\* "The public half is written first so a failure never leaves a private key
\* without it" (key.go:85): a private key that can sign has the public key
\* made with it beside it, whichever run failed, was killed or came second.
\* The code takes the public key back when it is the Close of the private
\* one that fails.
NoKeyWithoutItsPublic ==
  priv # NoFile /\ priv.whole => WholePair(priv.by)

\* What WriteKeyPair does keep: at every step of every run, a private key
\* that can sign has the public key made with it beside it, unless its run
\* could not close it and said so; and a run that reports success has left
\* both of its files, whatever the other runs did.
PairsHold ==
  /\ priv # NoFile /\ priv.whole => WholePair(priv.by) \/ keygen[priv.by] = "alone"
  /\ \A k \in Keygens : keygen[k] = "done" => WholePair(k)
=============================================================================
