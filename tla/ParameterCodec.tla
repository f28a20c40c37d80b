--------------------------- MODULE ParameterCodec ---------------------------
(***************************************************************************)
(* The protocol parameters, from the report of a service to the values     *)
(* that fees are computed with, and through a transfer file that is saved  *)
(* and loaded again.  from_dict and to_dict are BaseModel's, and work for  *)
(* any class; of the class ProtocolParameters there are the fields whose   *)
(* names, shapes or values change on the way.                              *)
(***************************************************************************)
EXTENDS NoValue, Naturals, Sequences, FiniteSets

CONSTANT
    MaxSaves \* bound: times the file is saved

ASSUME MaxSavesAssumption == MaxSaves \in Nat

VARIABLES
    service, \* whose report it is
    unread,  \* the keys of the dictionary still to be read, with their values
    args,    \* init_args: what has been read, by field
    params,  \* the object, None until it is constructed
    saves    \* times the object was saved so far

codecVars == <<service, unread, args, params, saves>>

-----------------------------------------------------------------------------
(***************************************************************************)
(* The class: its fields as they are declared, with their aliases.         *)
(***************************************************************************)
Field(name, aliases) == [name |-> name, aliases |-> aliases]

Declared == <<
    Field("cost_models", <<"cost_models", "costModels", "plutusCostModels", "cost_models_raw">>),
    Field("execution_unit_prices",
          <<"execution_unit_prices", "executionUnitPrices", "scriptExecutionPrices">>),
    Field("min_fee_coefficient",
          <<"min_fee_coefficient", "txFeePerByte", "min_fee_a", "minFeeCoefficient">>),
    Field("min_fee_ref_script_cost_per_byte",
          <<"min_fee_reference_scripts", "min_fee_ref_script_cost_per_byte",
            "minFeeRefScriptCostPerByte", "minFeeReferenceScripts">>),
    Field("min_utxo", <<"min_utxo", "utxoCostPerByte", "utxoCostPerByte">>),
    Field("tx_fee_per_byte", <<"tx_fee_per_byte", "txFeePerByte">>),
    Field("price_mem", <<"price_mem", "executionUnitPricesPriceMemory">>),
    Field("coins_per_utxo_word", <<"coins_per_utxo_word", "coinsPerUtxoWord">>),
    Field("coins_per_utxo_byte",
          <<"coins_per_utxo_byte", "coinsPerUtxoByte", "coins_per_utxo_size">>),
    Field("utxo_cost_per_byte", <<"utxo_cost_per_byte", "utxoCostPerByte">>)>>

Names == {Declared[i].name : i \in DOMAIN Declared}

\* The name of the last of the fields that fit.
LastName(fits) == Declared[CHOOSE i \in fits : \A j \in fits : j <= i].name

\* A key that is an alias of several fields is that of the last one.
FieldOf(key) ==
    LastName({i \in DOMAIN Declared : \E a \in DOMAIN Declared[i].aliases :
                                         Declared[i].aliases[a] = key})

SavedKey(i) == Declared[i].aliases[2]

-----------------------------------------------------------------------------
(***************************************************************************)
(* Values: a number, a fraction or the text it is saved as, a dictionary   *)
(* around one of these, or cost models, of which the order matters.        *)
(***************************************************************************)
Number(n) == [as |-> "number", of |-> n]
Exact(n) == [as |-> "fraction", of |-> n]
Within(v) == [as |-> "dict", of |-> v]
Costs(order) == [as |-> "costs", of |-> order]

\* Text is decoded to a float.
Plain(v) == IF v # None /\ v.as = "text" THEN Number(v.of) ELSE v

\* property_from_dict: a dictionary is decoded by the field it is for.
Decoded(field, v) ==
    IF v = None \/ v.as # "dict" THEN Plain(v)
    ELSE IF field = "min_fee_ref_script_cost_per_byte" THEN Plain(v.of)
    ELSE Within(Plain(v.of))

\* A fraction is saved as text.
Text(v) == IF v # None /\ v.as = "fraction" THEN [v EXCEPT !.as = "text"] ELSE v
Encoded(v) == IF v.as = "dict" THEN Within(Text(v.of)) ELSE Text(v)

Scalars == [as : {"number", "fraction", "text"}, of : Nat]
Values == Scalars \cup [as : {"dict"}, of : Scalars]
                  \cup [as : {"costs"}, of : {"ledger", "named"}]

\* None is neither a value nor an object.
ASSUME ValuesAssumption ==
    None \notin Values \cup [Names -> Values \cup {None}]

\* What fees are computed with: the fee for a byte, the price of memory, the
\* deposit for a byte, and the price of a byte of reference scripts.
Reported == [fee |-> 44, price |-> 577, perByte |-> 3, refScript |-> 15]

\* An eighth of a word is a byte, rounded down.
Word == Number(8 * Reported.perByte + 5)

Entry(key, value) == [key |-> key, value |-> value]

\* The reports: by cardano-cli, Koios, Blockfrost and Yaci, by a service from
\* before deposits were by byte, and the arguments Ogmios' are made into.
Report(s) ==
    LET fee == Number(Reported.fee)
        price == Number(Reported.price)
        perByte == Number(Reported.perByte)
        refScript == Number(Reported.refScript)
    IN  CASE s = "cli" ->
               {Entry("txFeePerByte", fee), Entry("utxoCostPerByte", perByte),
                Entry("executionUnitPrices", Within(price)), Entry("costModels", Costs("ledger")),
                Entry("minFeeRefScriptCostPerByte", refScript)}
          [] s = "koios" ->
               {Entry("min_fee_a", fee), Entry("coins_per_utxo_size", perByte),
                Entry("price_mem", price), Entry("cost_models", Costs("ledger")),
                Entry("min_fee_ref_script_cost_per_byte", refScript)}
          [] s = "blockfrost" ->
               {Entry("min_fee_a", fee), Entry("min_utxo", Word),
                Entry("coins_per_utxo_size", perByte), Entry("coins_per_utxo_word", perByte),
                Entry("price_mem", price), Entry("cost_models", Costs("named")),
                Entry("cost_models_raw", Costs("ledger"))}
          [] s = "yaci" ->
               {Entry("min_fee_a", fee), Entry("coins_per_utxo_size", perByte),
                Entry("price_mem", price), Entry("cost_models", Costs("named")),
                Entry("cost_models_raw", None)}
          [] s = "alonzo" ->
               {Entry("min_fee_a", fee), Entry("coins_per_utxo_word", Word),
                Entry("coins_per_utxo_size", None), Entry("price_mem", price),
                Entry("cost_models", Costs("ledger"))}
          [] OTHER -> {}

OgmiosArgs ==
    [min_fee_coefficient |-> Number(Reported.fee),
     coins_per_utxo_byte |-> Number(Reported.perByte), coins_per_utxo_word |-> Word,
     price_mem |-> Exact(Reported.price), min_utxo |-> None,
     cost_models |-> Costs("ledger"),
     min_fee_ref_script_cost_per_byte |-> Within(Number(Reported.refScript))]

Services == {"cli", "koios", "blockfrost", "yaci", "alonzo", "ogmios"}
NoArgs == [f \in {} |-> None]

CodecInit ==
    /\ service \in Services
    /\ unread = Report(service)
    /\ args = IF service = "ogmios" THEN OgmiosArgs ELSE NoArgs
    /\ params = None /\ saves = 0

-----------------------------------------------------------------------------
(***************************************************************************)
(* from_dict: the keys are read one by one.  Several may be aliases of one *)
(* field: a null does not take away what another has given it.             *)
(***************************************************************************)
Given(field) == field \in DOMAIN args /\ args[field] # None

\* Faulty form: it does.
KeyReadErases(item) ==
    LET field == FieldOf(item.key)
    IN  args' = [f \in DOMAIN args \cup {field} |->
                   IF f = field THEN Decoded(field, item.value) ELSE args[f]]

KeyRead(item) ==
    LET field == FieldOf(item.key)
    IN  IF item.value = None /\ Given(field) THEN UNCHANGED args
        ELSE args' = [f \in DOMAIN args \cup {field} |->
                        IF f = field THEN Decoded(field, item.value) ELSE args[f]]

\* The keys come in any order, but the named cost models before the raw ones.
ReadKey ==
    /\ \E item \in unread :
          /\ item.key = "cost_models_raw" => \A i \in unread : i.key # "cost_models"
          /\ unread' = unread \ {item}
          /\ KeyRead(item)
    /\ UNCHANGED <<service, params, saves>>

\* The fields with a default; ALONZO_COINS_PER_UTXO_WORD is the one for a word.
Defaults == [coins_per_utxo_byte |-> Number(0), coins_per_utxo_word |-> Number(34482)]

\* __post_init__: what is reported in one of two shapes is had in both, and
\* the fee and the deposit for a byte under either name.
Completed(o) ==
    LET Of(field) == IF field \in DOMAIN o THEN o[field]
                     ELSE IF field \in DOMAIN Defaults THEN Defaults[field] ELSE None
        prices == Of("execution_unit_prices")
        word == Of("coins_per_utxo_word")
        perByte == IF Of("utxo_cost_per_byte") # None THEN Of("utxo_cost_per_byte")
                   ELSE IF word # None THEN Number(word.of \div 8) ELSE None
    IN  [f \in Names |->
           CASE f = "execution_unit_prices" /\ prices = None -> Within(Of("price_mem"))
             [] f = "price_mem" /\ Of(f) = None /\ prices # None -> prices.of
             [] f = "coins_per_utxo_byte" /\ Of(f) = None -> perByte
             [] f = "min_fee_coefficient" /\ Of(f) = None -> Of("tx_fee_per_byte")
             [] OTHER -> Of(f)]

Construct ==
    /\ params = None /\ unread = {}
    /\ params' = Completed(args)
    /\ args' = NoArgs
    /\ UNCHANGED <<service, unread, saves>>

\* to_dict: each value under the second alias of its field, of several fields
\* with one such alias the last that has a value.
Dictionary(o) ==
    LET valued == {i \in DOMAIN Declared : o[Declared[i].name] # None}
        Shares(k) == {i \in valued : SavedKey(i) = k}
    IN  {Entry(k, Encoded(o[LastName(Shares(k))])) : k \in {SavedKey(i) : i \in valued}}

\* Saved, and loaded by another context.
SaveAndLoad ==
    /\ params # None /\ saves < MaxSaves
    /\ saves' = saves + 1
    /\ unread' = Dictionary(params)
    /\ params' = None
    /\ UNCHANGED <<service, args>>

CodecNext == ReadKey \/ Construct \/ SaveAndLoad

CodecSpec == CodecInit /\ [][CodecNext]_codecVars

-----------------------------------------------------------------------------
\* to_pycardano.
FeesOf(o) ==
    [fee |-> o.min_fee_coefficient, price |-> o.price_mem,
     perByte |-> IF o.coins_per_utxo_byte \in {None, Number(0)} THEN o.utxo_cost_per_byte
                 ELSE o.coins_per_utxo_byte,
     refScript |-> LET r == o.min_fee_ref_script_cost_per_byte
                   IN  IF r = None \/ r.as # "dict" THEN r ELSE r.of,
     costs |-> o.cost_models]

\* Whatever the order of the keys, the shape of the report and the number of
\* times it went through a file, fees are computed with what was reported:
\* the costs of operations in the order of the ledger if they were reported in it.  Only a
\* fraction becomes a float in the first file, and the deposit that min_utxo
\* is for takes another name in it.
ParametersAreReported ==
    params # None =>
       LET fees == FeesOf(params)
       IN  /\ fees.fee = Number(Reported.fee)
           /\ fees.perByte = Number(Reported.perByte)
           /\ fees.price = IF service = "ogmios" /\ saves = 0 THEN Exact(Reported.price)
                           ELSE Number(Reported.price)
           /\ service \in {"cli", "koios", "ogmios"} => fees.refScript = Number(Reported.refScript)
           /\ fees.costs = Costs(IF service = "yaci" THEN "named" ELSE "ledger")
           /\ service = "blockfrost" => params.min_utxo = IF saves = 0 THEN Word ELSE None

=============================================================================
