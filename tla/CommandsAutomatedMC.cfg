CONSTANTS
    foo = foo
    bar = bar
    fooLine = fooLine
    barLine = barLine
    otherLine = otherLine
    blankLine = blankLine
    NEXT_LINE = NEXT_LINE
    Name = {foo, bar}
    Line = {fooLine, barLine, blankLine}
    NameOf <- MCNameOf
    MaxDepth = 2
    MaxAdds = 4
    b1 = b1
    b2 = b2
    b3 = b3
    HistoryLine = {fooLine, barLine, otherLine, blankLine}
    Blank = blankLine
    Most = 3
    Buffer = {b1, b2, b3}
    NoBuffer = NoBuffer
    Unused = Unused
    MaxSpare = 1
    MaxNested = 1
    s1 = s1
    Settings = {s1}
    NoneKey = NoneKey
    UndefineKey = UndefineKey
    Tilde = Tilde
    F10 = F10
    KeyName = {NoneKey, UndefineKey, Tilde, F10}
    NotConfigured = NotConfigured
    MaxPolls = 2
SPECIFICATION MCSpec
INVARIANT NextLineIgnoresAutomated
CHECK_DEADLOCK FALSE
