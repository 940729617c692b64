---------------------------- MODULE MCSchemaTypes ----------------------------
(* Catalogs for SchemaTypes.                                               *)
EXTENDS SchemaTypes

MCSchemas == {1, 2, 30}
MCObjects == {11, 12, 13, 14, 15, 16, 17, 21, 22, 23, 31}

\* An enum in schema 1; composites, one within the other, and a table in schema 2; a table
\* and its index in schema 1; later an enum, a table that uses it and an index, and a
\* table in the new schema.
MCKindOf == 11 :> "enum" @@ 12 :> "composite" @@ 13 :> "composite" @@ 14 :> "table"
            @@ 15 :> "table" @@ 16 :> "index" @@ 17 :> "composite" @@ 21 :> "enum"
            @@ 22 :> "table" @@ 23 :> "index" @@ 31 :> "table"
MCSchemaOf == 11 :> 1 @@ 12 :> 2 @@ 13 :> 2 @@ 14 :> 2 @@ 15 :> 1 @@ 16 :> 1 @@ 17 :> 1
              @@ 21 :> 1 @@ 22 :> 2 @@ 23 :> 1 @@ 31 :> 30
MCNamedIn == 21 :> {1} @@ 23 :> {1}
MCElsewhere == 21 :> {1, 2} @@ 23 :> {1}
MCRefs == 11 :> <<>> @@ 12 :> <<11>> @@ 13 :> <<12>> @@ 14 :> <<13, 11>> @@ 15 :> <<11>>
          @@ 16 :> <<>> @@ 17 :> <<12>> @@ 21 :> <<>> @@ 22 :> <<21>>
          @@ 23 :> <<>> @@ 31 :> <<>>
MCInitial == {1, 2, 11, 12, 13, 14, 15, 16}

\* Two schemas, each of which uses a type of the other one.
MCAcross == {1, 2, 11, 12, 17}

\* The name of the new schema is between those of the others.
MCNameRank == 1 :> 1 @@ 30 :> 2 @@ 2 :> 3

MCSettings == {<<"repeatable_read", FALSE>>, <<"read_committed", FALSE>>,
               <<"repeatable_read", TRUE>>}
MCByNameCommitted == {<<"read_committed", TRUE>>}
MCDefault  == {<<"repeatable_read", FALSE>>}
SessionSymmetry == Permutations(Sessions)
==============================================================================
