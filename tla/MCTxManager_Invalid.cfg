\* An atomic batch whose insert does not match the schema.
CONSTANTS
    c = c
    a = a
    x = x
    Null = Null
    Cols = {c}
    Vals = {a, x}
    Typed = {a}
    Stripes = {1, 2}
    Txs = {t1}
    RepeatableRead = {t1}
    Checked = {t1}
    Schema <- MCPlain
    RowInputs <- MCInvalid
    InitTable <- MCTwoRows
    MaxId = 3
    MaxWrites = 2
    MaxReads = 2
    MaxDirect = 0
    stripe_index <- MCStripes
SPECIFICATION Spec
INVARIANT AllOrNothing
