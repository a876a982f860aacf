SPECIFICATION DataSpec
CONSTANTS
    t1 = t1
    t2 = t2
    k1 = k1
    k2 = k2
    k3 = k3
    n1 = n1
    n2 = n2
    n3 = n3
    Null = Null
    Threads <- TwoThreads
    Keys <- ThreeKeys
    Hash <- SomeHash
    Moved <- MoveKeeps
    S = 2
    Nodes <- ThreeNodes
    Ops <- DictOps
    Alone <- Removers
    SizeMod = 4
    c1 = c1
    c2 = c2
    Callers <- TwoCallers
    Size = 3
    Width = 8
    Classes = {"stack", "buffer"}
    MaxPuts = 4
    MaxTakes = 2
    Letters = {"0", "1", "9", "e", "G", "k", "m", "s", "x", "$", "-", "."}
    MaxText = 4
    Big = 2048
    Small = 128
    Kilo = 4
    HexDigits = 2
    Symbols <- SomeSymbols
    SmallOf <- SomeCapitals
    MaxSymbols = 5
    Pieces <- SomePieces
    Bytes = {0, 1, 66, 128, 255}
    MaxBytes = 4
    SizeMax = 7
    Characters = {"r", "n", "z", "a"}
    Zero = "z"
    Delimiters <- TwoDelimiters
    Capacity = 4
    NullPtr <- BeforeMemory
    MaxPastEnd = 1
    Names = {"a1", "a2"}
    Ports = {0, 80}
    Hosts = {0, 1}
SYMMETRY Symmetry
INVARIANT ListsInv
INVARIANT NothingLost
INVARIANT CountInv
INVARIANT LookupInv
INVARIANT StoresInBounds
INVARIANT ScanInv
INVARIANT StringsInv
INVARIANT TokensWhole
INVARIANT BinaryInv
INVARIANT BufferInv
INVARIANT AddressInv
CHECK_DEADLOCK FALSE
