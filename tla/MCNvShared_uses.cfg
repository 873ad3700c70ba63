CONSTANTS
    Moving = {{"netif", "uart"}}
    Thread = {t1, t2}
    Byte = {0, 1, 2}
    Caller = {t1, t2}
    MaxPeriod = 2
    Cpu = {c1, c2, c3}
    MaxFrames = 4
    StackDepth = 3
    MaxBytes = 4
    MaxRx = 1
    FifoSize = 2
    FlipRoom = 2
    UsbThread = {t1, t2, t3}
    Alt = {0, 1, 2}
SPECIFICATION SharedSpec
INVARIANT SomeDocumentedUseWorks
