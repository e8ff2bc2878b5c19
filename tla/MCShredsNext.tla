---------------------------- MODULE MCShredsNext ----------------------------
(***************************************************************************)
(* Shreds, with what the last shreds next has told the patch.              *)
(***************************************************************************)
EXTENDS Shreds

VARIABLE promised   \* the id posted, 0 once a shred was made or ids were turned back

NextPromised ==
  promised' = IF made' = made /\ shred_id' = shred_id + 1 THEN shred_id'
              ELSE IF made' = made /\ shred_id' = shred_id THEN promised ELSE 0

PromisedSpec == Init /\ promised = 0 /\ [][Next /\ NextPromised]_<<vars, promised>>

(* "Get next shred ID": the shred added next after shreds next has the id  *)
(* that was posted.                                                        *)
NextIsNext ==
  [][promised # 0 /\ made' # made => xid'[made'] = promised]_<<vars, promised>>
=============================================================================
