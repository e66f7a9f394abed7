\* Two atomic batches or procedures over two rows and one insert.
CONSTANTS
    c = c
    a = a
    x = x
    Null = Null
    Cols = {c}
    Vals = {a, x}
    Typed = {a}
    Stripes = {1, 2}
    Txs = {t1, t2}
    RepeatableRead = {t1, t2}
    Checked = {t1, t2}
    Schema <- MCPlain
    RowInputs <- MCValid
    InitTable <- MCTwoRows
    MaxId = 3
    MaxWrites = 2
    MaxReads = 2
    MaxDirect = 0
    stripe_index <- MCStripes
SYMMETRY TxSymmetry
SPECIFICATION BatchSpec
INVARIANTS ReadsCurrent AllOrNothing
PROPERTY ConflictHasCause
