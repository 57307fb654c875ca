SPECIFICATION Spec
CONSTANTS
    Settings <- MCSettings
    Order <- MCOrder
    Alias <- MCAlias
    Number <- MCNumber
    TextOrder <- MCTextOrder
    Templates <- MCTemplates
INVARIANTS
    TypeOK
    ParsesBack
    RendersMeaning
    DataKept
CHECK_DEADLOCK FALSE
