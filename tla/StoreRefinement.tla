-------------------------- MODULE StoreRefinement --------------------------
(* FingerprintStore implements Catalog: its transactions, seen through the *)
(* columns that peers replicate, are the catalogue's numbered changes.     *)
EXTENDS FingerprintStore

EntryOf(k) == [id |-> fp[k].id, owner |-> Owner(k), status |-> fp[k].status,
               seq |-> fp[k].seq, triple |-> fp[k].triple]

\* The committed rows, without hit and flag counts and source fields.
Published == {EntryOf(k) : k \in {k \in Keys : fp[k].id # 0}}

\* A drawn number and the fingerprint it is for.
InFlight == {<<drawn[t], arg[t].id>> : t \in {t \in Sessions : drawn[t] # 0}}

Cat == INSTANCE Catalog
         WITH cat <- Published, open <- InFlight, StaleRevive <- ~ SerialContribute

\* Every transaction of the write path appears to readers as one catalogue
\* change that was numbered when its statement ran: writes that only concern
\* statistics, flags below the threshold, scrubbed source fields or a lost
\* race are invisible, a row changes under one number at a time, and a number
\* is published at most once.
ImplementsCatalog == Cat!CatalogSpec
=============================================================================
